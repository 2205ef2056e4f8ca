------------------------------- MODULE ParserProofs -------------------------------
(***************************************************************************)
(* Proofs about Parser, for every text: the number of tokens, the names    *)
(* and the lexical units are arbitrary.  The grammar is the one of module  *)
(* Grammar, of which a few facts about single rules are used; nothing is   *)
(* assumed of the automaton but the definitions of Closure and Goto.       *)
(***************************************************************************)
EXTENDS Parser, GrammarProofs, ScopeProofs

(***************************************************************************)
(* The stack.  Whatever is popped, a push leaves every remaining entry as  *)
(* it was, keeps the entries well typed and every prefix viable.           *)
(***************************************************************************)
LEMMA EntryType ==
  ASSUME NEW e \in Entries
  PROVE  /\ e.state \in SUBSET Items
         /\ e.sym \in Symbols
         /\ e.name \in Names \cup {NoName}
         /\ e.table \in Nat
  BY DEF Entries

\* What StackInv says of a single entry of the parser stack.
LEMMA StackType ==
  ASSUME stack \in Seq(Entries)
  PROVE  /\ Height \in Nat
         /\ \A i \in 1 .. Height : stack[i] \in Entries
  BY DEF Height

\* An entry made by PushFrom is an entry of the right type.
LEMMA NewEntry ==
  ASSUME NEW state \in SUBSET Items, NEW sym \in Symbols,
         NEW name \in Names \cup {NoName}, NEW table \in Nat
  PROVE  Entry(state, sym, name, table) \in Entries
  BY DEF Entry, Entries

\* The stack after PushFrom: the entries below stay, the new one is on top.
LEMMA PushedStack ==
  ASSUME stack \in Seq(Entries), NEW below \in 1 .. Height, NEW sym \in Symbols,
         NEW name \in Names \cup {NoName}, NEW table \in Nat,
         PushFrom(below, sym, name, table)
  PROVE  /\ stack' \in Seq(Entries)
         /\ Height' = below + 1
         /\ \A i \in 1 .. below : stack'[i] = stack[i]
         /\ stack'[below + 1] = Entry(Goto(stack[below].state, sym), sym, name, table)
  <1> DEFINE e   == Entry(Goto(stack[below].state, sym), sym, name, table)
             cut == SubSeq(stack, 1, below)
  <1>1. stack[below].state \in SUBSET Items
    BY StackType, EntryType
  <1>2. e \in Entries
    <2>1. Goto(stack[below].state, sym) \in SUBSET Items
      BY <1>1, GotoItems
    <2> QED  BY <2>1, NewEntry
  <1>3. /\ cut \in Seq(Entries) /\ Len(cut) = below
        /\ \A i \in 1 .. below : cut[i] = stack[i]
    BY DEF Height
  <1>4. stack' = Append(cut, e)
    BY DEF PushFrom
  <1> HIDE DEF e, cut
  <1>5. /\ stack' \in Seq(Entries) /\ Len(stack') = below + 1
        /\ \A i \in 1 .. below : stack'[i] = stack[i]
        /\ stack'[below + 1] = e
    BY <1>2, <1>3, <1>4
  <1> QED  BY <1>5 DEF Height, e

\* Every item of a state has the symbols before its dot on top of the stack below
\* it, so that $1, $2, ... of a semantic action are what its rule says.
ViablePrefix ==
  \A i \in 1 .. Height : \A item \in stack[i].state :
     /\ item[2] <= i
     /\ item[1] = "accept" => item[2] = i
     /\ \A k \in 2 .. item[2] : stack[i - item[2] + k].sym = Rule[item[1]][k]

\* PushFrom keeps the items of every state in step with the symbols below it:
\* a shift, a reduction and a recovery all push in this way.
LEMMA PushedViable ==
  ASSUME stack \in Seq(Entries), NEW below \in 1 .. Height, NEW sym \in Symbols,
         NEW name \in Names \cup {NoName}, NEW table \in Nat,
         PushFrom(below, sym, name, table),
         ViablePrefix
  PROVE  ViablePrefix'
  <1>1. /\ Height' = below + 1
        /\ \A i \in 1 .. below : stack'[i] = stack[i]
        /\ stack'[below + 1].state = Goto(stack[below].state, sym)
        /\ stack'[below + 1].sym = sym
    <2>1. /\ Height' = below + 1
          /\ \A i \in 1 .. below : stack'[i] = stack[i]
          /\ stack'[below + 1] = Entry(Goto(stack[below].state, sym), sym, name, table)
      BY PushedStack
    <2>2. /\ Entry(Goto(stack[below].state, sym), sym, name, table).state
               = Goto(stack[below].state, sym)
          /\ Entry(Goto(stack[below].state, sym), sym, name, table).sym = sym
      BY DEF Entry
    <2> QED  BY <2>1, <2>2
  <1>2. /\ Height \in Nat
        /\ \A i \in 1 .. Height : stack[i].state \in SUBSET Items
    BY StackType, EntryType
  <1> SUFFICES ASSUME NEW i \in 1 .. below + 1, NEW item \in stack'[i].state
               PROVE  /\ item[2] <= i
                      /\ item[1] = "accept" => item[2] = i
                      /\ \A k \in 2 .. item[2] :
                            stack'[i - item[2] + k].sym = Rule[item[1]][k]
    BY <1>1 DEF ViablePrefix
  <1>3. CASE i <= below
    <2>1. item \in stack[i].state /\ item[2] \in 1 .. 10
      BY <1>1, <1>2, <1>3, ItemForm
    <2>2. /\ item[2] <= i
          /\ item[1] = "accept" => item[2] = i
          /\ \A k \in 2 .. item[2] : stack[i - item[2] + k].sym = Rule[item[1]][k]
      BY <1>2, <1>3, <2>1 DEF ViablePrefix
    <2>3. ASSUME NEW k \in 2 .. item[2]
          PROVE  stack'[i - item[2] + k].sym = Rule[item[1]][k]
      <3>1. i - item[2] + k \in 1 .. below
        <4>1. i \in 1 .. below /\ below \in Nat
          BY <1>2, <1>3
        <4> QED  BY <2>1, <2>2, <4>1, IndexBounds, Zenon
      <3> QED  BY <1>1, <2>2, <3>1
    <2> QED  BY <2>2, <2>3
  <1>4. CASE i = below + 1
    <2>1. item \in Goto(stack[below].state, sym)
      BY <1>1, <1>4
    <2>2. /\ item[2] \in 2 .. 10
          /\ Rule[item[1]][item[2]] = sym
          /\ \/ <<item[1], item[2] - 1>> \in stack[below].state
             \/ item[2] = 2 /\ item[1] # "accept"
      BY <1>2, <2>1, GotoItems, ItemForm
    <2>3. CASE <<item[1], item[2] - 1>> \in stack[below].state
      <3>1. /\ item[2] - 1 <= below
            /\ item[1] = "accept" => item[2] - 1 = below
            /\ \A k \in 2 .. item[2] - 1 :
                  stack[below - (item[2] - 1) + k].sym = Rule[item[1]][k]
        <4>1. <<item[1], item[2] - 1>>[1] = item[1] /\ <<item[1], item[2] - 1>>[2] = item[2] - 1
          OBVIOUS
        <4> QED  BY <2>3, <4>1 DEF ViablePrefix
      <3>2. ASSUME NEW k \in 2 .. item[2]
            PROVE  stack'[i - item[2] + k].sym = Rule[item[1]][k]
        <4>1. CASE k = item[2]
          <5>1. i - item[2] + k = below + 1
            BY <1>2, <1>4, <2>2, <4>1
          <5> QED  BY <1>1, <2>2, <4>1, <5>1
        <4>2. CASE k # item[2]
          <5>1. /\ k \in 2 .. item[2] - 1
                /\ i - item[2] + k = below - (item[2] - 1) + k
                /\ i - item[2] + k \in 1 .. below
            <6>1. below \in Nat
              BY <1>2
            <6> QED  BY <1>4, <2>2, <3>1, <4>2, <6>1, IndexShift, Zenon
          <5>2. stack[below - (item[2] - 1) + k].sym = Rule[item[1]][k]
            BY <3>1, <5>1
          <5> QED  BY <1>1, <5>1, <5>2
        <4> QED  BY <4>1, <4>2
      <3> QED  BY <1>2, <1>4, <2>2, <3>1, <3>2
    <2>4. CASE item[2] = 2 /\ item[1] # "accept"
      BY <1>1, <1>4, <2>2, <2>4
    <2> QED  BY <2>2, <2>3, <2>4
  <1> QED  BY <1>3, <1>4

\* A rule that is complete has its right-hand side on top of the stack.
LEMMA CompleteRule ==
  ASSUME stack \in Seq(Entries), Height >= 1, ViablePrefix, NEW r \in Completed(Top)
  PROVE  /\ r \in RuleNames
         /\ Width(r) \in 0 .. 9
         /\ Height - Width(r) \in 1 .. Height
         /\ \A k \in 2 .. Len(Rule[r]) : stack[Height - Len(Rule[r]) + k].sym = Rule[r][k]
         /\ r = "accept" => Height = Len(Rule["accept"])
  <1>1. Top \in SUBSET Items /\ Height \in Nat
    BY StackType, EntryType DEF Top
  <1>2. PICK j \in Closure(Top) : IsComplete(j) /\ r = j[1]
    BY DEF Completed
  <1>3. j \in Items /\ (j \in Top \/ (j[2] = 1 /\ j[1] # "accept"))
    BY <1>1, ClosureItems
  <1>4. r \in RuleNames /\ j[2] = Len(Rule[r]) /\ Len(Rule[r]) \in 1 .. 10
    BY <1>2, <1>3, ItemForm, RuleLength DEF IsComplete
  <1>5. CASE j \in Top
    <2>1. /\ j[2] <= Height
          /\ j[1] = "accept" => j[2] = Height
          /\ \A k \in 2 .. j[2] : stack[Height - j[2] + k].sym = Rule[j[1]][k]
      BY <1>5, <1>1 DEF ViablePrefix, Top
    <2>2. \A k \in 2 .. Len(Rule[r]) : stack[Height - Len(Rule[r]) + k].sym = Rule[r][k]
      BY <1>2, <1>4, <2>1
    <2>3. Len(Rule[r]) <= Height /\ (r = "accept" => Height = Len(Rule["accept"]))
      BY <1>2, <1>4, <2>1, Zenon
    <2>4. /\ Width(r) \in 0 .. 9
          /\ Height - Width(r) \in 1 .. Height
      BY <1>1, <1>4, <2>3, WidthBounds, Zenon DEF Width
    <2> QED  BY <1>4, <2>2, <2>3, <2>4, Zenon
  <1>6. CASE j[2] = 1 /\ j[1] # "accept"
    BY <1>1, <1>2, <1>4, <1>6 DEF Width
  <1> QED  BY <1>3, <1>5, <1>6

----------------------------------------------------------------------------
(***************************************************************************)
(* The invariant.  Identifiers on the stack have names, and the markers on *)
(* the stack were pushed with tables in the order of their numbers: so the *)
(* marker a block closes is the last one, and the table it pops, which is  *)
(* at least as new, is that of no marker below.                            *)
(***************************************************************************)
NamesOnStack == \A i \in 1 .. Height : stack[i].sym = "ID" => stack[i].name \in Names

MarkerOrder ==
  \A i, j \in 1 .. Height :
     IsMarker(i) /\ IsMarker(j) /\ i < j => stack[i].table < stack[j].table

StackInv ==
  /\ stack \in Seq(Entries) /\ Height >= 1
  /\ stack[1].sym = "$accept"
  /\ ViablePrefix
  /\ NamesOnStack

MarkerInv == MarkerOrder /\ EnclosingScopesStayOpen

IInv ==
  /\ RegistersOK
  /\ yyla.sym = "ID" => yyla.name \in Names
  /\ StackInv
  /\ ScopeInv
  /\ MarkerInv

\* What is pushed on the stack keeps it well formed.
LEMMA PushedStackInv ==
  ASSUME StackInv, NEW below \in 1 .. Height, NEW sym \in Symbols,
         NEW name \in Names \cup {NoName}, NEW table \in Nat,
         PushFrom(below, sym, name, table), sym = "ID" => name \in Names
  PROVE  StackInv'
  <1>1. stack \in Seq(Entries) /\ Height \in Nat /\ Height >= 1 /\ ViablePrefix
    BY StackType DEF StackInv
  <1>2. /\ stack' \in Seq(Entries)
        /\ Height' = below + 1
        /\ \A i \in 1 .. below : stack'[i] = stack[i]
        /\ stack'[below + 1] = Entry(Goto(stack[below].state, sym), sym, name, table)
    BY <1>1, PushedStack
  <1>3. ViablePrefix'
    BY <1>1, PushedViable
  <1>4. stack'[below + 1].sym = sym /\ stack'[below + 1].name = name
    BY <1>2 DEF Entry
  <1>5. NamesOnStack'
    BY <1>1, <1>2, <1>4 DEF StackInv, NamesOnStack
  <1>6. stack'[1].sym = "$accept" /\ Height' >= 1
    BY <1>1, <1>2 DEF StackInv
  <1> QED  BY <1>2, <1>3, <1>5, <1>6 DEF StackInv

\* The markers that are left when a symbol other than a marker is pushed were
\* there before.
LEMMA MarkersLeft ==
  ASSUME StackInv, NEW below \in 1 .. Height, NEW sym \in Symbols \ Markers,
         NEW name \in Names \cup {NoName}, NEW table \in Nat,
         PushFrom(below, sym, name, table)
  PROVE  /\ Height \in Nat /\ Height' \in Nat
         /\ \A i \in 1 .. Height' :
              IsMarker(i)' => /\ i \in 1 .. below /\ i \in 1 .. Height
                              /\ IsMarker(i)
                              /\ stack'[i].table = stack[i].table
         /\ \A i \in 1 .. below : i \in 1 .. Height' /\ (IsMarker(i)' <=> IsMarker(i))
  <1>1. Height \in Nat
    BY StackType DEF StackInv
  <1>2. /\ Height' = below + 1
        /\ \A i \in 1 .. below : stack'[i] = stack[i]
        /\ stack'[below + 1].sym = sym
    <2>1. /\ Height' = below + 1
          /\ \A i \in 1 .. below : stack'[i] = stack[i]
          /\ stack'[below + 1] = Entry(Goto(stack[below].state, sym), sym, name, table)
      BY PushedStack DEF StackInv
    <2> QED  BY <2>1 DEF Entry
  <1> QED  BY <1>1, <1>2 DEF IsMarker

\* A step that neither pushes a marker nor opens or closes a table keeps the
\* markers in order and their tables open.
LEMMA MarkersStay ==
  ASSUME StackInv, ScopeInv, MarkerInv,
         NEW below \in 1 .. Height, NEW sym \in Symbols \ Markers,
         NEW name \in Names \cup {NoName}, NEW table \in Nat,
         PushFrom(below, sym, name, table),
         Len(scopes_') = Len(scopes_),
         \A p \in 1 .. Len(scopes_) : scopes_'[p].id = scopes_[p].id
  PROVE  MarkerInv'
  <1>1. /\ Height' \in Nat
        /\ \A i \in 1 .. Height' :
             IsMarker(i)' => /\ i \in 1 .. Height
                             /\ IsMarker(i)
                             /\ stack'[i].table = stack[i].table
    BY MarkersLeft
  <1>2. MarkerOrder'
    BY <1>1 DEF MarkerInv, MarkerOrder
  <1>3. Len(scopes_) \in Nat /\ Len(scopes_) >= 1 /\ scopes_[1].id = 0
    BY TableType DEF MarkerInv, EnclosingScopesStayOpen
  <1>4. Len(scopes_') >= 1 /\ scopes_'[1].id = 0
    BY <1>3
  <1>5. ASSUME NEW i \in 1 .. Height', IsMarker(i)'
        PROVE  \E p \in 2 .. Len(scopes_') : scopes_'[p].id = stack'[i].table
    <2>1. PICK p \in 2 .. Len(scopes_) : scopes_[p].id = stack[i].table
      BY <1>1, <1>5 DEF MarkerInv, EnclosingScopesStayOpen
    <2> QED  BY <1>1, <1>3, <1>5, <2>1
  <1> QED  BY <1>2, <1>4, <1>5 DEF MarkerInv, EnclosingScopesStayOpen

\* A reduction takes a whole right-hand side from the stack.
LEMMA ReducibleRule ==
  ASSUME StackInv, NEW r \in Reducible
  PROVE  /\ phase = "parsing"
         /\ r \in RuleNames
         /\ Height - Width(r) \in 1 .. Height
         /\ \A k \in 2 .. Len(Rule[r]) : stack[Height - Len(Rule[r]) + k].sym = Rule[r][k]
         /\ r = "accept" => Height = Len(Rule["accept"])
         /\ Lhs(r) \in Symbols /\ Lhs(r) \notin {"ID", "error"}
  <1>1. phase = "parsing" /\ r \in Completed(Top)
    BY DEF Reducible
  <1>2. stack \in Seq(Entries) /\ Height >= 1 /\ ViablePrefix
    BY DEF StackInv
  <1> QED  BY <1>1, <1>2, CompleteRule, LeftHandSides

\* A reduction keeps the stack well formed: the state it uncovers starts the rule.
LEMMA ReducedStackInv ==
  ASSUME StackInv, NEW r \in Reducible, NEW table \in Nat, Reduce(r, table)
  PROVE  StackInv'
  BY ReducibleRule, PushedStackInv DEF Reduce

\* Opening a scope pushes the newest table and the last marker.
LEMMA MarkerPushed ==
  ASSUME StackInv, ScopeInv, MarkerInv, push,
         NEW r \in Reducible \cap {"open_block", "open_func"}, Reduce(r, FreshTable)
  PROVE  /\ StackInv' /\ MarkerInv'
         /\ Height' = Height + 1 /\ stack'[Height + 1].sym \in Markers
         /\ stack'[Height + 1].table = FreshTable
         /\ \A i \in 1 .. Height : stack'[i] = stack[i]
  <1>1. /\ Height \in Nat /\ FreshTable \in Nat /\ Len(scopes_) \in Nat
        /\ stack \in Seq(Entries)
    BY StackType, TableType DEF StackInv
  <1>2. Width(r) = 0 /\ Lhs(r) \in Markers /\ Lhs(r) \in Symbols /\ Height >= 1
    BY ActionRules, MarkerRules, ReducibleRule DEF Width, StackInv
  <1>3. StackInv'
    BY <1>1, ReducedStackInv
  <1>4. PushFrom(Height, Lhs(r), NoName, FreshTable) /\ Height \in 1 .. Height
    BY <1>1, <1>2 DEF Reduce
  <1>5. /\ Height' = Height + 1
        /\ \A i \in 1 .. Height : stack'[i] = stack[i]
        /\ stack'[Height + 1] = Entry(Goto(Top, Lhs(r)), Lhs(r), NoName, FreshTable)
    BY <1>1, <1>2, <1>4, PushedStack DEF Top
  <1>6. stack'[Height + 1].sym \in Markers /\ stack'[Height + 1].table = FreshTable
    BY <1>2, <1>5 DEF Entry
  <1>7. \A i \in 1 .. Height : IsMarker(i)' <=> IsMarker(i)
    BY <1>5 DEF IsMarker
  <1>8. /\ Len(scopes_') = Len(scopes_) + 1
        /\ \A p \in 1 .. Len(scopes_) : scopes_'[p] = scopes_[p]
        /\ scopes_'[Len(scopes_) + 1].id = FreshTable
        /\ Len(scopes_) >= 1 /\ scopes_[1].id = 0
    BY PushTable DEF MarkerInv, EnclosingScopesStayOpen
  <1>9. ASSUME NEW i \in 1 .. Height, IsMarker(i)
        PROVE  \E p \in 2 .. Len(scopes_) : scopes_[p].id = stack[i].table
    BY <1>9 DEF MarkerInv, EnclosingScopesStayOpen
  <1>10. \A i \in 1 .. Height : IsMarker(i) => stack[i].table < FreshTable
    BY <1>1, <1>9 DEF ScopeInv, TableOrder
  <1>11. MarkerOrder'
    <2> SUFFICES ASSUME NEW i \in 1 .. Height', NEW j \in 1 .. Height',
                        IsMarker(i)', IsMarker(j)', i < j
                 PROVE  stack'[i].table < stack'[j].table
      BY DEF MarkerOrder
    <2>1. i \in 1 .. Height
      BY <1>1, <1>5
    <2>2. CASE j = Height + 1
      BY <1>5, <1>6, <1>7, <1>10, <2>1, <2>2
    <2>3. CASE j # Height + 1
      <3>1. j \in 1 .. Height
        BY <1>1, <1>5, <2>3
      <3>2. IsMarker(i) /\ IsMarker(j)
        BY <1>7, <2>1, <3>1
      <3>3. stack[i].table < stack[j].table
        BY <2>1, <3>1, <3>2 DEF MarkerInv, MarkerOrder
      <3> QED  BY <1>5, <2>1, <3>1, <3>3
    <2> QED  BY <2>2, <2>3
  <1>12. ASSUME NEW i \in 1 .. Height', IsMarker(i)'
         PROVE  \E p \in 2 .. Len(scopes_') : scopes_'[p].id = stack'[i].table
    <2>1. CASE i = Height + 1
      <3>1. Len(scopes_) + 1 \in 2 .. Len(scopes_')
        BY <1>1, <1>8
      <3> QED  BY <1>6, <1>8, <2>1, <3>1
    <2>2. CASE i # Height + 1
      <3>1. i \in 1 .. Height
        BY <1>1, <1>5, <2>2
      <3>2. PICK p \in 2 .. Len(scopes_) : scopes_[p].id = stack[i].table
        BY <1>7, <1>9, <1>12, <3>1
      <3>3. p \in 1 .. Len(scopes_) /\ p \in 2 .. Len(scopes_')
        BY <1>1, <1>8
      <3> QED  BY <1>5, <1>8, <3>1, <3>2, <3>3
    <2> QED  BY <2>1, <2>2
  <1>13. EnclosingScopesStayOpen'
    <2>1. Len(scopes_') >= 1 /\ scopes_'[1].id = 0
      BY <1>1, <1>8
    <2> QED  BY <1>12, <2>1 DEF EnclosingScopesStayOpen
  <1> QED  BY <1>3, <1>5, <1>6, <1>11, <1>13 DEF MarkerInv

\* The right-hand side of a block or function has its own marker and no other.
LEMMA OwnMarker ==
  ASSUME StackInv, NEW r \in Reducible \cap {"block_expr", "func"},
         NEW below \in 1 .. Height, below = Height - Width(r)
  PROVE  /\ below + 2 \in 1 .. Height
         /\ IsMarker(below + 2)
         /\ \A i \in below + 1 .. Height : IsMarker(i) => i = below + 2
  <1> DEFINE n == Len(Rule[r])
  <1>1. /\ n \in {5, 10} /\ Rule[r][3] \in Markers
        /\ Width(r) = n - 1
        /\ Height \in Nat
    BY ActionRules, StackType DEF Width, StackInv
  <1>2. \A k \in 2 .. n : /\ stack[Height - n + k].sym = Rule[r][k]
                          /\ Rule[r][k] \in Markers => k = 3
    BY ReducibleRule, MarkerRules
  <1> HIDE DEF n
  <1>3. below = Height - n + 1
    BY <1>1
  <1>4. below + 2 = Height - n + 3 /\ below + 2 \in 1 .. Height
    BY <1>1, <1>3
  <1>5. IsMarker(below + 2)
    <2>1. 3 \in 2 .. n
      BY <1>1
    <2> QED  BY <1>1, <1>2, <1>4, <2>1 DEF IsMarker
  <1>6. ASSUME NEW i \in below + 1 .. Height, IsMarker(i)
        PROVE  i = below + 2
    <2> DEFINE k == i - Height + n
    <2>1. k \in 2 .. n /\ Height - n + k = i /\ (k = 3 => i = below + 2)
      BY <1>1, <1>3
    <2> HIDE DEF k
    <2> QED  BY <1>2, <1>6, <2>1 DEF IsMarker
  <1> QED  BY <1>4, <1>5, <1>6

\* Closing a scope pops a table that is at least as new as that of the marker
\* it takes from the stack, so the tables of the other markers stay.
LEMMA MarkerPopped ==
  ASSUME StackInv, ScopeInv, MarkerInv, pop,
         NEW r \in Reducible \cap {"block_expr", "func"}, Reduce(r, 0)
  PROVE  StackInv' /\ MarkerInv' /\ Len(scopes_) >= 2
  <1> DEFINE below == Height - Width(r)
             m == below + 2
             n == Len(scopes_)
  <1>1. /\ Height \in Nat /\ n \in Nat
        /\ below \in 1 .. Height
        /\ Lhs(r) \in Symbols \ Markers
        /\ 0 \in Nat /\ NoName \in Names \cup {NoName}
    BY StackType, TableType, ReducibleRule, MarkerRules DEF StackInv
  <1>2. StackInv'
    BY ReducedStackInv
  <1>3. PushFrom(below, Lhs(r), NoName, 0)
    BY DEF Reduce
  <1>4. m \in 1 .. Height /\ IsMarker(m)
    BY <1>1, OwnMarker
  <1>5. /\ Height' \in Nat
        /\ \A i \in 1 .. Height' :
             IsMarker(i)' => /\ i \in 1 .. below /\ i \in 1 .. Height
                             /\ IsMarker(i)
                             /\ stack'[i].table = stack[i].table
    BY <1>1, <1>3, MarkersLeft
  <1> HIDE DEF below
  <1>6. PICK p \in 2 .. n : scopes_[p].id = stack[m].table
    BY <1>4 DEF MarkerInv, EnclosingScopesStayOpen
  <1>7. n >= 2
    BY <1>1, <1>6
  <1>8. /\ Len(scopes_') = n - 1
        /\ \A q \in 1 .. n - 1 : scopes_'[q] = scopes_[q]
        /\ scopes_[1].id = 0
    BY <1>7, PopTable DEF MarkerInv, EnclosingScopesStayOpen
  <1>9. MarkerOrder'
    BY <1>5 DEF MarkerInv, MarkerOrder
  <1>10. ASSUME NEW i \in 1 .. Height', IsMarker(i)'
         PROVE  \E q \in 2 .. Len(scopes_') : scopes_'[q].id = stack'[i].table
    <2>1. i \in 1 .. Height /\ IsMarker(i) /\ stack'[i].table = stack[i].table /\ i < m
      BY <1>1, <1>5, <1>10
    <2>2. PICK q \in 2 .. n : scopes_[q].id = stack[i].table
      BY <2>1 DEF MarkerInv, EnclosingScopesStayOpen
    <2>3. scopes_[q].id < scopes_[p].id
      BY <1>4, <1>6, <2>1, <2>2 DEF MarkerInv, MarkerOrder
    <2>4. q < p
      <3>1. p \in 1 .. n /\ q \in 1 .. n
        BY <1>1
      <3>2. /\ scopes_[p].id \in Nat /\ scopes_[q].id \in Nat
            /\ p < q => scopes_[p].id < scopes_[q].id
        BY <3>1, TableType DEF ScopeInv, TableOrder
      <3>3. p # q /\ ~(p < q)
        BY <2>3, <3>2
      <3> QED  BY <3>1, <3>3
    <2>5. q \in 2 .. n - 1 /\ q \in 1 .. n - 1
      BY <1>1, <2>4
    <2> QED  BY <1>8, <2>1, <2>2, <2>5
  <1>11. Len(scopes_') >= 1 /\ scopes_'[1].id = 0
    <2>1. 1 \in 1 .. n - 1
      BY <1>1, <1>7
    <2> QED  BY <1>1, <1>7, <1>8, <2>1
  <1> QED  BY <1>2, <1>7, <1>9, <1>10, <1>11 DEF MarkerInv, EnclosingScopesStayOpen

\* A reduction by any other rule leaves the tables to the markers below.
LEMMA ReducedMarkersStay ==
  ASSUME StackInv, ScopeInv, MarkerInv,
         NEW r \in Reducible, r \notin {"open_block", "open_func"}, Reduce(r, 0),
         Len(scopes_') = Len(scopes_),
         \A p \in 1 .. Len(scopes_) : scopes_'[p].id = scopes_[p].id
  PROVE  StackInv' /\ MarkerInv'
  <1>1. /\ Height - Width(r) \in 1 .. Height
        /\ Lhs(r) \in Symbols \ Markers
        /\ 0 \in Nat /\ NoName \in Names \cup {NoName}
    BY ReducibleRule, MarkerRules
  <1>2. PushFrom(Height - Width(r), Lhs(r), NoName, 0)
    BY DEF Reduce
  <1> QED  BY <1>1, <1>2, ReducedStackInv, MarkersStay

\* The identifier a semantic action takes from the stack has a name.
LEMMA ActionNames ==
  ASSUME StackInv
  PROVE  /\ Reducible \cap {"param_first", "param_more", "name_some", "variable"} # {}
              => stack[Height].name \in Names
         /\ "assign" \in Reducible => stack[Height - 2].name \in Names
  <1>1. Height \in Nat /\ Height >= 1
    BY StackType DEF StackInv
  <1>2. ASSUME NEW r \in Reducible \cap {"param_first", "param_more", "name_some", "variable"}
        PROVE  stack[Height].name \in Names
    <2> DEFINE n == Len(Rule[r])
    <2>1. n \in {2, 3, 4} /\ Rule[r][n] = "ID"
      BY ActionRules
    <2>2. \A k \in 2 .. n : stack[Height - n + k].sym = Rule[r][k]
      BY ReducibleRule
    <2> HIDE DEF n
    <2>3. n \in 2 .. n /\ Height - n + n = Height /\ Height \in 1 .. Height
      BY <1>1, <2>1
    <2>4. stack[Height].sym = "ID"
      BY <2>1, <2>2, <2>3
    <2> QED  BY <2>3, <2>4 DEF StackInv, NamesOnStack
  <1>3. ASSUME "assign" \in Reducible
        PROVE  stack[Height - 2].name \in Names
    <2>1. /\ Len(Rule["assign"]) = 4 /\ Rule["assign"][2] = "ID"
          /\ Width("assign") = 3
      BY ActionRules DEF Width
    <2>2. /\ Height - 3 \in 1 .. Height
          /\ \A k \in 2 .. 4 : stack[Height - 4 + k].sym = Rule["assign"][k]
      BY <1>3, <2>1, ReducibleRule
    <2>3. Height - 2 \in 1 .. Height /\ Height - 4 + 2 = Height - 2 /\ 2 \in 2 .. 4
      BY <1>1, <2>2
    <2>4. stack[Height - 2].sym = "ID"
      BY <2>1, <2>2, <2>3
    <2> QED  BY <2>3, <2>4 DEF StackInv, NamesOnStack
  <1> QED  BY <1>2, <1>3

\* A step that leaves the parser stack alone keeps its invariant.
LEMMA StackUnchanged ==
  StackInv /\ UNCHANGED stack => StackInv'
  BY DEF StackInv, ViablePrefix, NamesOnStack, Height

\* A step that leaves the symbol table alone keeps its invariant.
LEMMA ScopesUnchanged ==
  ScopeInv /\ UNCHANGED scopeVars => ScopeInv'
  BY DEF ScopeInv, TableOrder, NoShadowing, FreshTable, scopeVars

\* A step that leaves the stack and the table alone keeps every marker's table open.
LEMMA MarkersUnchanged ==
  MarkerInv /\ UNCHANGED <<stack, scopeVars>> => MarkerInv'
  BY DEF MarkerInv, MarkerOrder, EnclosingScopesStayOpen, IsMarker, Height, scopeVars

\* A fresh parser satisfies the invariant.
LEMMA InitInv == Init => IInv
  <1> SUFFICES ASSUME Init PROVE IInv
    OBVIOUS
  <1> DEFINE e == Entry(StartState, "$accept", NoName, 0)
  <1>1. ScopeInv /\ Len(scopes_) = 1
    BY ScopeInitInv DEF Init
  <1>2. StartState \in SUBSET Items /\ "$accept" \in Symbols
    <2>1. "accept" \in RuleNames /\ 1 \in 1 .. Len(Rule["accept"]) /\ Lhs("accept") = "$accept"
      BY ActionRules DEF Lhs
    <2> QED  BY <2>1, ItemForm, LeftHandSides DEF StartState
  <1>3. e \in Entries
    BY <1>2, NewEntry
  <1>4. e.state = StartState /\ e.sym = "$accept"
    BY DEF Entry
  <1>5. stack = <<e>>
    BY DEF Init
  <1> HIDE DEF e
  <1>6. stack \in Seq(Entries) /\ Height = 1 /\ stack[1] = e
    BY <1>3, <1>5 DEF Height
  <1>7. ViablePrefix
    <2>1. /\ <<"accept", 1>>[2] = 1
          /\ \A item : item \in stack[1].state <=> item = <<"accept", 1>>
      BY <1>4, <1>6 DEF StartState
    <2> QED  BY <1>6, <2>1 DEF ViablePrefix
  <1>8. NamesOnStack
    BY <1>4, <1>6 DEF NamesOnStack
  <1>9. MarkerInv
    <2>1. ~IsMarker(1)
      BY <1>4, <1>6 DEF IsMarker, Markers
    <2>2. Len(scopes_) >= 1 /\ scopes_[1].id = 0
      BY <1>1 DEF ScopeInv, TableOrder
    <2> QED  BY <1>6, <2>1, <2>2 DEF MarkerInv, MarkerOrder, EnclosingScopesStayOpen
  <1>10. RegistersOK
    <2>1. MaxTokens \in Nat
      BY ParserAssumption
    <2>2. input \in [read : 0 .. MaxTokens, eof : BOOLEAN, unknown : BOOLEAN]
      BY <2>1 DEF Init
    <2>3. /\ yyla \in {NoToken} \cup [sym : Terminals, name : Names \cup {NoName}]
          /\ yyerrstatus_ \in 0 .. 3
          /\ errors_ \subseteq {"syntax", "undeclared", "unmatched"}
          /\ views \subseteq [table : Nat, name : Names]
          /\ phase \in {"parsing", "accepted", "aborted"} \cup Final
      BY DEF Init
    <2>4. root \in BOOLEAN /\ dropped \in BOOLEAN
      BY Zenon DEF Init
    <2> QED  BY <2>2, <2>3, <2>4, Zenon DEF RegistersOK
  <1>11. yyla.sym # "ID"
    BY DEF Init, NoToken, Token
  <1> QED  BY <1>1, <1>4, <1>6, <1>7, <1>8, <1>9, <1>10, <1>11 DEF IInv, StackInv

\* A token from the lexer is a terminal, and an identifier has a name.
LEMMA Fetched ==
  ASSUME IInv, ReadToken \/ ReadUnknown \/ ReadHuge \/ ReadEof
  PROVE  /\ yyla' \in {NoToken} \cup [sym : Terminals, name : Names \cup {NoName}]
         /\ yyla'.sym = "ID" => yyla'.name \in Names
  <1>1. \A t : Token("EOF", NoName) = t =>
                 /\ t \in [sym : Terminals, name : Names \cup {NoName}]
                 /\ t.sym # "ID"
    BY EofIsTerminal DEF Token
  <1>2. CASE ReadToken
    <2>1. PICK u \in Units \ {"unknown", "huge"} :
             \E n \in IF u = "ID" THEN Names ELSE {NoName} : yyla' = Token(u, n)
      BY <1>2 DEF ReadToken
    <2>2. u \in Terminals
      BY ParserAssumption
    <2> QED  BY <2>1, <2>2 DEF Token
  <1>3. CASE ReadUnknown \/ ReadEof
    BY <1>1, <1>3 DEF ReadUnknown, ReadEof
  <1>4. CASE ReadHuge
    BY <1>4 DEF ReadHuge, IInv, RegistersOK
  <1> QED  BY <1>2, <1>3, <1>4

\* yylex only sets the lookahead, and it is a token.
LEMMA ReadInv ==
  ASSUME IInv, ReadToken \/ ReadUnknown \/ ReadHuge \/ ReadEof
  PROVE  IInv'
  <1>1. UNCHANGED <<scopeVars, stack, yyerrstatus_, errors_, astVars>>
    BY DEF ReadToken, ReadUnknown, ReadHuge, ReadEof, Fetching
  <1>2. StackInv' /\ ScopeInv' /\ MarkerInv'
    BY <1>1, StackUnchanged, ScopesUnchanged, MarkersUnchanged DEF IInv
  <1>3. input' \in [read : 0 .. MaxTokens, eof : BOOLEAN, unknown : BOOLEAN]
    <2>1. /\ MaxTokens \in Nat
          /\ input \in [read : 0 .. MaxTokens, eof : BOOLEAN, unknown : BOOLEAN]
      BY ParserAssumption DEF IInv, RegistersOK
    <2>2. CASE ReadEof
      BY <2>1, <2>2 DEF ReadEof
    <2>3. CASE ReadToken \/ ReadHuge
      <3>1. input' = [input EXCEPT !.read = @ + 1] /\ input.read < MaxTokens
        BY <2>3 DEF ReadToken, ReadHuge, NextUnit
      <3> QED  BY <2>1, <3>1
    <2>4. CASE ReadUnknown
      <3>1. /\ input' = [input EXCEPT !.read = @ + 1, !.unknown = TRUE]
            /\ input.read < MaxTokens
        BY <2>4 DEF ReadUnknown, NextUnit
      <3>2. input' = [read |-> input.read + 1, eof |-> input.eof, unknown |-> TRUE]
        BY <2>1, <3>1
      <3>3. input.read + 1 \in 0 .. MaxTokens /\ input.eof \in BOOLEAN
        BY <2>1, <3>1
      <3> QED  BY <3>2, <3>3
    <2> QED  BY <2>2, <2>3, <2>4
  <1>4. phase' \in {"parsing", "accepted", "aborted"} \cup Final
    BY DEF ReadToken, ReadUnknown, ReadHuge, ReadEof, IInv, RegistersOK, Final
  <1>5. RegistersOK'
    BY <1>1, <1>3, <1>4, Fetched DEF IInv, RegistersOK, astVars
  <1> QED  BY <1>2, <1>5, Fetched DEF IInv

\* Shifting a token opens and closes nothing.
LEMMA ShiftInv ==
  ASSUME IInv, Shift
  PROVE  IInv'
  <1>1. UNCHANGED <<scopeVars, errors_, astVars, input, phase>> /\ yyla' = NoToken
    BY DEF Shift
  <1>2. /\ yyla.sym \in Symbols \ Markers
        /\ yyla.name \in Names \cup {NoName}
        /\ yyla.sym = "ID" => yyla.name \in Names
    <2>1. yyla \in [sym : Terminals, name : Names \cup {NoName}]
      BY DEF Shift, IInv, RegistersOK
    <2> QED  BY <2>1, TerminalSymbols DEF IInv
  <1>3. StackInv /\ Height \in 1 .. Height /\ 0 \in Nat
    BY StackType DEF IInv, StackInv
  <1>4. PushFrom(Height, yyla.sym, yyla.name, 0)
    BY DEF Shift
  <1>5. ScopeInv'
    BY <1>1, ScopesUnchanged DEF IInv
  <1>6. StackInv'
    BY <1>2, <1>3, <1>4, PushedStackInv
  <1>7. MarkerInv'
    BY <1>1, <1>2, <1>3, <1>4, MarkersStay DEF IInv, scopeVars
  <1>8. yyerrstatus_' \in 0 .. 3
    BY DEF Shift, IInv, RegistersOK
  <1>9. RegistersOK'
    BY <1>1, <1>8 DEF IInv, RegistersOK, astVars
  <1>10. yyla'.sym # "ID"
    BY <1>1 DEF NoToken, Token
  <1> QED  BY <1>5, <1>6, <1>7, <1>9, <1>10 DEF IInv

\* The reductions that leave the symbol table alone.
LEMMA NodeInv ==
  ASSUME IInv, UnmatchedBrace \/ RecoverStatement \/ MakeProgram \/ MakeNode
  PROVE  IInv'
  <1>1. PICK r \in Reducible \ {"open_block", "open_func"} : Reduce(r, 0)
    BY DEF UnmatchedBrace, RecoverStatement, MakeProgram, MakeNode, PlainRules, ErrorRules
  <1>2. UNCHANGED <<scopeVars, yyla, input, phase, views>>
    BY <1>1 DEF Reduce, UnmatchedBrace, RecoverStatement, MakeProgram, MakeNode, astVars
  <1>3. ScopeInv' /\ scopes_' = scopes_
    BY <1>2, ScopesUnchanged DEF IInv, scopeVars
  <1>4. StackInv' /\ MarkerInv'
    BY <1>1, <1>3, ReducedMarkersStay DEF IInv
  <1>5. /\ yyerrstatus_' \in 0 .. 3
        /\ errors_' \subseteq {"syntax", "undeclared", "unmatched"}
    <2>1. /\ yyerrstatus_ \in 0 .. 3
          /\ errors_ \subseteq {"syntax", "undeclared", "unmatched"}
      BY DEF IInv, RegistersOK
    <2>2. CASE UnmatchedBrace
      BY <2>1, <2>2 DEF UnmatchedBrace
    <2>3. CASE RecoverStatement
      BY <2>1, <2>3 DEF RecoverStatement
    <2>4. CASE MakeProgram \/ MakeNode
      BY <2>1, <2>4 DEF MakeProgram, MakeNode
    <2> QED  BY <2>2, <2>3, <2>4
  <1>6. root' \in BOOLEAN /\ dropped' \in BOOLEAN
    BY Zenon DEF UnmatchedBrace, RecoverStatement, MakeProgram, MakeNode, astVars,
                 IInv, RegistersOK
  <1>7. RegistersOK'
    BY <1>2, <1>5, <1>6 DEF IInv, RegistersOK
  <1> QED  BY <1>2, <1>3, <1>4, <1>7 DEF IInv

\* The mid-rule actions push a table (parser.y:454, 466), and its marker names it.
LEMMA OpenInv ==
  ASSUME IInv, OpenScope
  PROVE  IInv'
  <1>1. PICK r \in Reducible \cap {"open_block", "open_func"} : Reduce(r, FreshTable)
    BY DEF OpenScope
  <1>2. UNCHANGED <<yyla, input, phase, yyerrstatus_, errors_, astVars>> /\ push
    BY <1>1 DEF Reduce, OpenScope
  <1>3. ScopeInv' /\ StackInv' /\ MarkerInv'
    BY <1>1, <1>2, PushTable, MarkerPushed DEF IInv
  <1>4. RegistersOK'
    BY <1>2 DEF IInv, RegistersOK, astVars
  <1> QED  BY <1>2, <1>3, <1>4 DEF IInv

\* The final actions pop a table (parser.y:460, 474), that of the block or a later one:
\* the markers left on the stack are older than the one that is reduced away.
LEMMA CloseInv ==
  ASSUME IInv, CloseScope
  PROVE  IInv' /\ Len(scopes_) >= 2
  <1>1. PICK r \in Reducible \cap {"block_expr", "func"} : Reduce(r, 0)
    BY DEF CloseScope
  <1>2. UNCHANGED <<yyla, input, phase, yyerrstatus_, errors_, astVars>> /\ pop
    BY <1>1 DEF Reduce, CloseScope
  <1>3. StackInv' /\ MarkerInv' /\ Len(scopes_) >= 2
    BY <1>1, <1>2, MarkerPopped DEF IInv
  <1>4. ScopeInv'
    BY <1>2, <1>3, PopTable DEF IInv
  <1>5. RegistersOK'
    BY <1>2 DEF IInv, RegistersOK, astVars
  <1> QED  BY <1>2, <1>3, <1>4, <1>5 DEF IInv

\* What the actions that declare a name have in common.
Declares(name) ==
  /\ name \in Names
  /\ add_variable(name)
  /\ views' = views \cup {AddedView(name)}
  /\ \E r \in Reducible \ {"open_block", "open_func"} : Reduce(r, 0)
  /\ UNCHANGED <<yyla, input, phase, yyerrstatus_, root, dropped>>
  /\ errors_ \subseteq errors_' /\ errors_' \subseteq errors_ \cup {"undeclared"}

\* What declaring a name does to the table, the views and the markers.
LEMMA Declarers ==
  ASSUME IInv, Declare \/ Assign \/ Use
  PROVE  \E name : Declares(name)
  <1>1. CASE Declare
    <2>1. PICK r \in Reducible \cap {"param_first", "param_more", "name_some"} : Reduce(r, 0)
      BY <1>1 DEF Declare
    <2>2. stack[Height].name \in Names
      BY <2>1, ActionNames DEF IInv
    <2> QED  BY <1>1, <2>1, <2>2 DEF Declare, Declares, Reduce
  <1>2. CASE Assign
    <2>1. "assign" \in Reducible /\ Reduce("assign", 0)
      BY <1>2 DEF Assign
    <2>2. stack[Height - 2].name \in Names
      BY <2>1, ActionNames DEF IInv
    <2> QED  BY <1>2, <2>1, <2>2 DEF Assign, Declares, Reduce
  <1>3. CASE Use
    <2>1. "variable" \in Reducible /\ Reduce("variable", 0)
      BY <1>3 DEF Use
    <2>2. stack[Height].name \in Names
      BY <2>1, ActionNames DEF IInv
    <2> QED  BY <1>3, <2>1, <2>2 DEF Use, Declares, Reduce
  <1> QED  BY <1>1, <1>2, <1>3

\* Parameters, function names, assignments and uses declare an identifier.
LEMMA DeclareInv ==
  ASSUME IInv, Declare \/ Assign \/ Use
  PROVE  IInv'
  <1>1. PICK name : Declares(name)
    BY Declarers
  <1>2. /\ ScopeInv' /\ Len(scopes_') = Len(scopes_)
        /\ \A p \in 1 .. Len(scopes_) : scopes_'[p].id = scopes_[p].id
        /\ AddedView(name) \in [table : Nat, name : Names]
    BY <1>1, AddVariable DEF IInv, Declares
  <1>3. PICK r \in Reducible \ {"open_block", "open_func"} : Reduce(r, 0)
    BY <1>1 DEF Declares
  <1>4. StackInv' /\ MarkerInv'
    BY <1>2, <1>3, ReducedMarkersStay DEF IInv
  <1>5. /\ views' \subseteq [table : Nat, name : Names]
        /\ errors_' \subseteq {"syntax", "undeclared", "unmatched"}
    <2>1. /\ views \subseteq [table : Nat, name : Names]
          /\ errors_ \subseteq {"syntax", "undeclared", "unmatched"}
      BY DEF IInv, RegistersOK
    <2> QED  BY <1>1, <1>2, <2>1 DEF Declares
  <1>6. UNCHANGED <<yyla, input, phase, yyerrstatus_, root, dropped>>
    BY <1>1 DEF Declares
  <1>7. RegistersOK'
    BY <1>5, <1>6 DEF IInv, RegistersOK
  <1> QED  BY <1>2, <1>4, <1>6, <1>7 DEF IInv

\* A recovery cuts the stack and leaves the symbol table alone.
LEMMA RecoverInv ==
  ASSUME IInv, Recover
  PROVE  IInv'
  <1>1. PICK i \in 1 .. Height : PushFrom(i, "error", NoName, 0)
    BY DEF Recover
  <1>2. UNCHANGED <<scopeVars, astVars, input, phase>> /\ yyla' \in {NoToken, yyla}
    BY DEF Recover
  <1>3. "error" \in Symbols \ Markers /\ 0 \in Nat /\ NoName \in Names \cup {NoName}
    BY ErrorIsSymbol DEF Markers
  <1>4. ScopeInv' /\ scopes_' = scopes_
    BY <1>2, ScopesUnchanged DEF IInv, scopeVars
  <1>5. StackInv' /\ MarkerInv'
    BY <1>1, <1>3, <1>4, PushedStackInv, MarkersStay DEF IInv
  <1>6. NoToken.sym # "ID"
    BY DEF NoToken, Token
  <1>7. /\ yyerrstatus_' \in 0 .. 3
        /\ errors_' \subseteq {"syntax", "undeclared", "unmatched"}
    <2>1. errors_ \subseteq {"syntax", "undeclared", "unmatched"}
      BY DEF IInv, RegistersOK
    <2> QED  BY <2>1 DEF Recover, Report
  <1>8. RegistersOK'
    BY <1>2, <1>7 DEF IInv, RegistersOK, astVars
  <1> QED  BY <1>2, <1>4, <1>5, <1>6, <1>8 DEF IInv

\* The end of the parse and what driver() makes of it.
LEMMA EndInv ==
  ASSUME IInv, Accept \/ Abort \/ Driver
  PROVE  IInv'
  <1>1. UNCHANGED <<scopeVars, stack, yyla, yyerrstatus_, astVars, input>>
    BY DEF Accept, Abort, Driver
  <1>2. StackInv' /\ ScopeInv' /\ MarkerInv'
    BY <1>1, StackUnchanged, ScopesUnchanged, MarkersUnchanged DEF IInv
  <1>3. errors_' \subseteq {"syntax", "undeclared", "unmatched"}
    <2>1. errors_ \subseteq {"syntax", "undeclared", "unmatched"}
      BY DEF IInv, RegistersOK
    <2> QED  BY <2>1 DEF Accept, Abort, Driver, Report
  <1>4. phase' \in {"parsing", "accepted", "aborted"} \cup Final
    BY DEF Accept, Abort, Driver, Final
  <1>5. RegistersOK'
    BY <1>1, <1>3, <1>4 DEF IInv, RegistersOK, astVars
  <1> QED  BY <1>1, <1>2, <1>5 DEF IInv

\* A step that changes nothing keeps the invariant.
LEMMA StutterInv ==
  ASSUME IInv, UNCHANGED vars
  PROVE  IInv'
  <1>1. UNCHANGED <<scopeVars, stack, yyla, yyerrstatus_, errors_, astVars, input, phase>>
    BY DEF vars, scopeVars, astVars
  <1>2. StackInv' /\ ScopeInv' /\ MarkerInv'
    BY <1>1, StackUnchanged, ScopesUnchanged, MarkersUnchanged DEF IInv
  <1>3. RegistersOK'
    BY <1>1 DEF IInv, RegistersOK, astVars
  <1> QED  BY <1>1, <1>2, <1>3 DEF IInv

\* IInv holds of every reachable state.
THEOREM Invariance == Spec => []IInv
  <1>1. Init => IInv
    BY InitInv
  <1>2. ASSUME IInv, [Next]_vars PROVE IInv'
    <2>1. CASE ReadToken \/ ReadUnknown \/ ReadHuge \/ ReadEof
      BY <1>2, <2>1, ReadInv
    <2>2. CASE Shift
      BY <1>2, <2>2, ShiftInv
    <2>3. CASE OpenScope
      BY <1>2, <2>3, OpenInv
    <2>4. CASE CloseScope
      BY <1>2, <2>4, CloseInv
    <2>5. CASE Declare \/ Assign \/ Use
      BY <1>2, <2>5, DeclareInv
    <2>6. CASE UnmatchedBrace \/ RecoverStatement \/ MakeProgram \/ MakeNode
      BY <1>2, <2>6, NodeInv
    <2>7. CASE Recover
      BY <1>2, <2>7, RecoverInv
    <2>8. CASE Accept \/ Abort \/ Driver
      BY <1>2, <2>8, EndInv
    <2>9. CASE Done \/ UNCHANGED vars
      BY <1>2, <2>9, StutterInv DEF Done
    <2> QED  BY <1>2, <2>1, <2>2, <2>3, <2>4, <2>5, <2>6, <2>7, <2>8, <2>9 DEF Next
  <1> QED  BY <1>1, <1>2, PTL DEF Spec

----------------------------------------------------------------------------
(***************************************************************************)
(* The theorems.                                                           *)
(***************************************************************************)
\* Every variable has its type: parser.y never takes $1 from an entry without
\* one, and no more than three tokens are ever owed to a recovery.
THEOREM TypeCorrect == Spec => []TypeOK
  <1>1. IInv => TypeOK
    BY DEF IInv, StackInv, ScopeInv, TypeOK
  <1> QED  BY <1>1, Invariance, PTL

\* The pop of a block never takes the table of an enclosing block or the global
\* one, however many tables earlier recoveries have left behind.
THEOREM EnclosingScopes == Spec => []EnclosingScopesStayOpen
  <1>1. IInv => EnclosingScopesStayOpen
    BY DEF IInv, MarkerInv
  <1> QED  BY <1>1, Invariance, PTL

\* add_variable never makes a second declaration of a name that is visible.
THEOREM Shadowless == Spec => []NoShadowing
  <1>1. IInv => NoShadowing
    BY DEF IInv, ScopeInv
  <1> QED  BY <1>1, Invariance, PTL

\* The views in the AST stay alive, as pop archives what it takes.
THEOREM ViewsAlive == Spec => []NoDanglingView
  <1>1. Init => NoDanglingView
    BY DEF Init, NoDanglingView
  <1>2. ASSUME IInv, NoDanglingView, [Next]_vars
        PROVE  NoDanglingView'
    <2> DEFINE Kept == \A v : IsLive(v) => IsLive(v)'
    <2>1. CASE OpenScope
      <3>1. Kept /\ views' = views
        BY <1>2, <2>1, PushTable DEF IInv, OpenScope, astVars
      <3> QED  BY <1>2, <3>1 DEF NoDanglingView
    <2>2. CASE CloseScope
      <3>1. Kept /\ views' = views
        BY <1>2, <2>2, CloseInv, PopTable DEF IInv, CloseScope, astVars
      <3> QED  BY <1>2, <3>1 DEF NoDanglingView
    <2>3. CASE Declare \/ Assign \/ Use
      <3>1. PICK name : Declares(name)
        BY <1>2, <2>3, Declarers
      <3>2. \A v : IsLive(v) \/ v = AddedView(name) => IsLive(v)'
        BY <1>2, <3>1, AddVariable DEF IInv, Declares
      <3> QED  BY <1>2, <3>1, <3>2 DEF NoDanglingView, Declares
    <2>4. CASE UNCHANGED <<scopeVars, views>>
      BY <1>2, <2>4 DEF NoDanglingView, IsLive, LiveTables, TablesIn, scopeVars
    <2>5. \/ OpenScope \/ CloseScope \/ Declare \/ Assign \/ Use
          \/ UNCHANGED <<scopeVars, views>>
      BY <1>2 DEF Next, vars, scopeVars, astVars, ReadToken, ReadUnknown, ReadHuge, ReadEof,
                  Fetching, Shift, Accept, UnmatchedBrace, RecoverStatement, MakeProgram,
                  MakeNode, Recover, Abort, Driver, Done
    <2> QED  BY <2>1, <2>2, <2>3, <2>4, <2>5
  <1> QED  BY <1>1, <1>2, Invariance, PTL DEF Spec

\* The symbol table is a map from names to levels, whatever the text: the
\* parser only enters and leaves levels and mentions names.
THEOREM ImplementsMap == Spec => ImplementsDeclarations
  <1>1. Init => Abstract!Init
    <2> SUFFICES ASSUME Init PROVE Abstract!Init
      OBVIOUS
    <2>1. Len(scopes_) = 1 /\ scopes_ = <<EmptyTable(0)>>
      BY ScopeInitInv DEF Init, ScopeInit
    <2>2. \A name : ~find(name)
      BY <2>1 DEF find, EmptyTable
    <2> QED  BY <2>1, <2>2 DEF Abstract!Init, level
  <1>2. ASSUME IInv, [Next]_vars
        PROVE  [Abstract!Next]_(Abstract!vars)
    <2>1. CASE OpenScope
      BY <1>2, <2>1, PushEnters DEF IInv, OpenScope, Abstract!Next
    <2>2. CASE CloseScope
      BY <1>2, <2>2, CloseInv, PopLeaves DEF IInv, CloseScope, Abstract!Next
    <2>3. CASE Declare \/ Assign \/ Use
      <3>1. PICK name : Declares(name)
        BY <1>2, <2>3, Declarers
      <3> QED  BY <1>2, <3>1, AddMentions DEF IInv, Declares, Abstract!Next
    <2>4. CASE UNCHANGED scopeVars
      BY <2>4 DEF Abstract!vars, level, find, IsInnermost, scopeVars
    <2>5. \/ OpenScope \/ CloseScope \/ Declare \/ Assign \/ Use
          \/ UNCHANGED scopeVars
      BY <1>2 DEF Next, vars, scopeVars, ReadToken, ReadUnknown, ReadHuge, ReadEof,
                  Fetching, Shift, Accept, UnmatchedBrace, RecoverStatement, MakeProgram,
                  MakeNode, Recover, Abort, Driver, Done
    <2> QED  BY <2>1, <2>2, <2>3, <2>4, <2>5
  <1> QED  BY <1>1, <1>2, Invariance, PTL DEF Spec, Abstract!Spec, ImplementsDeclarations
----------------------------------------------------------------------------
(***************************************************************************)
(* The verdict: what driver() does with a parse, and the shape of the      *)
(* programs that are compiled.  Whatever could spoil a program leaves an   *)
(* error behind: a recovery under way, an error token on the stack, a      *)
(* dropped statement, an aborted parse.  Without an error every open table *)
(* but the global one belongs to a marker on the stack, and when the start *)
(* rule is complete the stack has no markers.                              *)
(***************************************************************************)
OnStack(sym) == \E i \in 1 .. Height : stack[i].sym = sym

ErrorInv ==
  yyerrstatus_ # 0 \/ dropped \/ phase = "aborted" \/ OnStack("error") => errors_ # {}

TextInv ==
  errors_ = {} =>
    \A p \in 2 .. Len(scopes_) :
      \E i \in 1 .. Height : IsMarker(i) /\ stack[i].table = scopes_[p].id

PhaseInv ==
  /\ phase # "unknown error"
  /\ phase \in {"accepted", "compiling"} => root /\ (errors_ = {} => Len(scopes_) = 1)
  /\ phase = "compiling" => errors_ = {}

VInv ==
  /\ IInv
  /\ ErrorInv
  /\ TextInv
  /\ OnStack("program") => root
  /\ PhaseInv

\* A symbol of the new stack is the one that was pushed or was there before.
LEMMA SymbolsLeft ==
  ASSUME StackInv, NEW below \in 1 .. Height, NEW sym \in Symbols,
         NEW name \in Names \cup {NoName}, NEW table \in Nat,
         PushFrom(below, sym, name, table)
  PROVE  \A s : OnStack(s)' => s = sym \/ OnStack(s)
  <1>1. /\ Height' = below + 1
        /\ \A i \in 1 .. below : stack'[i] = stack[i]
        /\ stack'[below + 1] = Entry(Goto(stack[below].state, sym), sym, name, table)
    BY PushedStack DEF StackInv
  <1>2. stack'[below + 1].sym = sym
    BY <1>1 DEF Entry
  <1>3. Height \in Nat
    BY StackType DEF StackInv
  <1> QED  BY <1>1, <1>2, <1>3 DEF OnStack

\* Errors are only added.
LEMMA ErrorsGrow ==
  ASSUME IInv, [Next]_vars
  PROVE  errors_ \subseteq errors_'
  <1>1. CASE Declare \/ Assign \/ Use
    BY <1>1, Declarers DEF Declares
  <1>2. CASE UnmatchedBrace \/ Recover \/ Abort
    BY <1>2 DEF UnmatchedBrace, Recover, Abort, Report
  <1>3. CASE UNCHANGED errors_
    BY <1>3
  <1>4. \/ Declare \/ Assign \/ Use
        \/ UnmatchedBrace \/ Recover \/ Abort
        \/ UNCHANGED errors_
    BY DEF Next, vars, ReadToken, ReadUnknown, ReadHuge, ReadEof, Fetching, Shift, Accept,
           OpenScope, CloseScope, RecoverStatement, MakeProgram, MakeNode, Driver, Done
  <1> QED  BY <1>1, <1>2, <1>3, <1>4

\* The right-hand side of a rule that closes no scope has no markers.
LEMMA NoOwnMarker ==
  ASSUME StackInv, NEW r \in Reducible \ {"block_expr", "func"},
         NEW i \in Height - Width(r) + 1 .. Height
  PROVE  ~IsMarker(i)
  <1> DEFINE n == Len(Rule[r])
             k == i - Height + n
  <1>1. n \in 1 .. 10 /\ Height \in Nat /\ Width(r) = n - 1
    BY ReducibleRule, RuleLength, StackType DEF StackInv, Width
  <1>2. \A j \in 2 .. n : /\ stack[Height - n + j].sym = Rule[r][j]
                          /\ Rule[r][j] \notin Markers
    BY ReducibleRule, MarkerRules
  <1> HIDE DEF n
  <1>3. k \in 2 .. n /\ Height - n + k = i
    BY <1>1
  <1> HIDE DEF k
  <1> QED  BY <1>2, <1>3 DEF IsMarker

\* A push that removes no marker, on the tables with the same numbers.
LEMMA TextStays ==
  ASSUME IInv, TextInv, errors_ \subseteq errors_',
         NEW below \in 1 .. Height, NEW sym \in Symbols \ Markers,
         NEW name \in Names \cup {NoName}, NEW table \in Nat,
         PushFrom(below, sym, name, table),
         \A i \in below + 1 .. Height : ~IsMarker(i),
         Len(scopes_') = Len(scopes_),
         \A p \in 1 .. Len(scopes_) : scopes_'[p].id = scopes_[p].id
  PROVE  TextInv'
  <1> SUFFICES ASSUME errors_' = {}, NEW p \in 2 .. Len(scopes_')
               PROVE  \E i \in 1 .. Height' : IsMarker(i)' /\ stack'[i].table = scopes_'[p].id
    BY DEF TextInv
  <1>1. errors_ = {} /\ p \in 2 .. Len(scopes_) /\ p \in 1 .. Len(scopes_)
    BY TableType DEF IInv
  <1>2. PICK i \in 1 .. Height : IsMarker(i) /\ stack[i].table = scopes_[p].id
    BY <1>1 DEF TextInv
  <1>3. i \in 1 .. below
    BY <1>2, StackType DEF IInv, StackInv
  <1>4. i \in 1 .. Height' /\ IsMarker(i)' /\ stack'[i].table = stack[i].table
    BY <1>2, <1>3, MarkersLeft DEF IInv
  <1> QED  BY <1>1, <1>2, <1>4

\* A final action without errors closes the table of its own marker, and the other
\* open tables keep theirs.
LEMMA TextAfterPop ==
  ASSUME IInv, TextInv, errors_ \subseteq errors_', pop,
         NEW r \in Reducible \cap {"block_expr", "func"}, Reduce(r, 0)
  PROVE  TextInv'
  <1> DEFINE below == Height - Width(r)
             m == below + 2
             n == Len(scopes_)
  <1>1. /\ Height \in Nat /\ n \in Nat
        /\ below \in 1 .. Height
        /\ Lhs(r) \in Symbols \ Markers
        /\ 0 \in Nat /\ NoName \in Names \cup {NoName}
    BY StackType, TableType, ReducibleRule, MarkerRules DEF StackInv, IInv
  <1>2. /\ m \in 1 .. Height /\ IsMarker(m)
        /\ \A i \in below + 1 .. Height : IsMarker(i) => i = m
    BY <1>1, OwnMarker DEF IInv
  <1>3. PushFrom(below, Lhs(r), NoName, 0)
    BY DEF Reduce
  <1>4. n >= 2
    BY MarkerPopped DEF IInv
  <1>5. Len(scopes_') = n - 1 /\ \A q \in 1 .. n - 1 : scopes_'[q] = scopes_[q]
    BY <1>4, PopTable DEF IInv
  <1>6. \A i \in 1 .. below :
           IsMarker(i) => i \in 1 .. Height' /\ IsMarker(i)' /\ stack'[i].table = stack[i].table
    BY <1>1, <1>3, MarkersLeft DEF IInv
  <1> HIDE DEF below
  <1> SUFFICES ASSUME errors_' = {}, NEW p \in 2 .. n - 1
               PROVE  \E i \in 1 .. Height' : IsMarker(i)' /\ stack'[i].table = scopes_'[p].id
    BY <1>5 DEF TextInv
  <1>7. errors_ = {} /\ p \in 2 .. n /\ n \in 2 .. n /\ p \in 1 .. n - 1
    BY <1>1, <1>4
  <1>8. PICK i \in 1 .. Height : IsMarker(i) /\ stack[i].table = scopes_[p].id
    BY <1>7 DEF TextInv
  <1>9. PICK j \in 1 .. Height : IsMarker(j) /\ stack[j].table = scopes_[n].id
    BY <1>7 DEF TextInv
  <1>10. scopes_[p].id < scopes_[n].id /\ scopes_[p].id \in Nat /\ scopes_[n].id \in Nat
    <2>1. p \in 1 .. n /\ n \in 1 .. n /\ p < n
      BY <1>1, <1>4
    <2> QED  BY <2>1, TableType DEF IInv, ScopeInv, TableOrder
  <1>11. i # m
    <2> SUFFICES ASSUME i = m PROVE FALSE
      OBVIOUS
    <2>1. j # m
      BY <1>8, <1>9, <1>10
    <2>2. j < m
      BY <1>1, <1>2, <1>9, <2>1
    <2>3. stack[j].table < stack[m].table
      BY <1>2, <1>9, <2>2 DEF IInv, MarkerInv, MarkerOrder
    <2> QED  BY <1>8, <1>9, <1>10, <2>3
  <1>12. i \in 1 .. below
    BY <1>1, <1>2, <1>8, <1>11
  <1> QED  BY <1>5, <1>6, <1>7, <1>8, <1>12

\* A reduction makes no error token, and only one makes the program.
LEMMA ReducedSymbols ==
  ASSUME StackInv, NEW r \in Reducible, NEW table \in Nat, Reduce(r, table)
  PROVE  /\ OnStack("error")' => OnStack("error")
         /\ OnStack("program")' => r = "program" \/ OnStack("program")
  <1>1. /\ Height - Width(r) \in 1 .. Height
        /\ Lhs(r) \in Symbols /\ Lhs(r) # "error" /\ (Lhs(r) = "program" => r = "program")
        /\ NoName \in Names \cup {NoName}
    BY ReducibleRule, LeftHandSides
  <1>2. PushFrom(Height - Width(r), Lhs(r), NoName, table)
    BY DEF Reduce
  <1>3. \A s : OnStack(s)' => s = Lhs(r) \/ OnStack(s)
    BY <1>1, <1>2, SymbolsLeft
  <1> QED  BY <1>1, <1>3

\* A step that leaves the stack and the tables alone leaves every marker in place.
LEMMA SameStack ==
  UNCHANGED <<stack, scopeVars>> /\ TextInv /\ errors_ \subseteq errors_'
    => TextInv' /\ \A s : OnStack(s)' <=> OnStack(s)
  BY DEF TextInv, OnStack, IsMarker, Height, scopeVars

\* At the start there is no error, no error token and no open table but the global one.
LEMMA InitVerdict == Init => VInv
  <1> SUFFICES ASSUME Init PROVE VInv
    OBVIOUS
  <1>1. IInv /\ Len(scopes_) = 1
    BY InitInv, ScopeInitInv DEF Init
  <1>2. Height = 1 /\ stack[1].sym = "$accept"
    BY <1>1 DEF Init, Height, IInv, StackInv
  <1>3. ~OnStack("error") /\ ~OnStack("program")
    BY <1>2 DEF OnStack
  <1>4. ErrorInv /\ PhaseInv
    BY <1>3, Zenon DEF Init, ErrorInv, PhaseInv
  <1>5. TextInv
    BY <1>1 DEF TextInv
  <1> QED  BY <1>1, <1>3, <1>4, <1>5 DEF VInv

\* Reading a token touches neither the tables nor the errors.
LEMMA ReadVerdict ==
  ASSUME VInv, ReadToken \/ ReadUnknown \/ ReadHuge \/ ReadEof
  PROVE  VInv'
  <1>1. /\ UNCHANGED <<scopeVars, stack, yyerrstatus_, errors_, root, dropped>>
        /\ phase' \in {"parsing", "exception"}
    BY DEF ReadToken, ReadUnknown, ReadHuge, ReadEof, Fetching, astVars
  <1>2. IInv' /\ TextInv' /\ \A s : OnStack(s)' <=> OnStack(s)
    BY <1>1, ReadInv, SameStack DEF VInv
  <1>3. ErrorInv' /\ PhaseInv'
    BY <1>1, <1>2 DEF VInv, ErrorInv, PhaseInv
  <1> QED  BY <1>1, <1>2, <1>3 DEF VInv

\* Shifting touches neither the tables nor the errors, and shifts no marker.
LEMMA ShiftVerdict ==
  ASSUME VInv, Shift
  PROVE  VInv'
  <1>1. UNCHANGED <<scopes_, errors_, root, dropped, phase>> /\ phase = "parsing"
    BY DEF Shift, scopeVars, astVars
  <1>2. /\ yyla.sym \in Symbols \ (Markers \cup {"error", "program"})
        /\ yyla.name \in Names \cup {NoName}
    <2>1. yyla \in [sym : Terminals, name : Names \cup {NoName}]
      BY DEF Shift, VInv, IInv, RegistersOK
    <2> QED  BY <2>1, TerminalSymbols
  <1>3. Height \in 1 .. Height /\ 0 \in Nat /\ StackInv /\ IInv /\ Height \in Nat
    BY StackType DEF VInv, IInv, StackInv
  <1>4. PushFrom(Height, yyla.sym, yyla.name, 0)
    BY DEF Shift
  <1>5. IInv'
    BY <1>3, ShiftInv
  <1>6. \A s : OnStack(s)' => s = yyla.sym \/ OnStack(s)
    BY <1>2, <1>3, <1>4, SymbolsLeft
  <1>7. TextInv'
    <2>1. \A i \in Height + 1 .. Height : ~IsMarker(i)
      BY <1>3
    <2> QED  BY <1>1, <1>2, <1>3, <1>4, <2>1, TextStays DEF VInv
  <1>8. yyerrstatus_' # 0 => yyerrstatus_ # 0
    BY DEF Shift
  <1>9. ErrorInv' /\ (OnStack("program")' => root')
    BY <1>1, <1>2, <1>6, <1>8 DEF VInv, ErrorInv
  <1>10. PhaseInv'
    BY <1>1 DEF PhaseInv
  <1> QED  BY <1>5, <1>7, <1>9, <1>10 DEF VInv

\* The reductions: what they have in common, and what they do to the tables.
LEMMA ReduceVerdict ==
  ASSUME VInv, IInv', NEW r \in Reducible, NEW table \in Nat, Reduce(r, table),
         errors_ \subseteq errors_', TextInv',
         yyerrstatus_' \in {0, yyerrstatus_},
         dropped' => dropped \/ errors_' # {},
         root \/ r = "program" => root'
  PROVE  VInv'
  <1>1. phase = "parsing" /\ phase' = "parsing"
    BY ReducibleRule DEF Reduce, VInv, IInv
  <1>2. /\ OnStack("error")' => OnStack("error")
        /\ OnStack("program")' => r = "program" \/ OnStack("program")
    BY ReducedSymbols DEF VInv, IInv
  <1>3. ErrorInv'
    BY <1>1, <1>2 DEF VInv, ErrorInv
  <1>4. PhaseInv'
    BY <1>1 DEF PhaseInv
  <1>5. OnStack("program")' => root'
    BY <1>2 DEF VInv
  <1> QED  BY <1>3, <1>4, <1>5 DEF VInv

\* A reduction that opens and closes nothing takes no marker off the stack.
LEMMA TextReduced ==
  ASSUME VInv, NEW r \in Reducible \ {"open_block", "open_func", "block_expr", "func"},
         Reduce(r, 0), errors_ \subseteq errors_',
         Len(scopes_') = Len(scopes_),
         \A p \in 1 .. Len(scopes_) : scopes_'[p].id = scopes_[p].id
  PROVE  TextInv'
  <1> DEFINE below == Height - Width(r)
  <1>1. /\ below \in 1 .. Height
        /\ Lhs(r) \in Symbols \ Markers
        /\ 0 \in Nat /\ NoName \in Names \cup {NoName}
    BY ReducibleRule, MarkerRules DEF VInv, IInv
  <1>2. PushFrom(below, Lhs(r), NoName, 0)
    BY DEF Reduce
  <1>3. \A i \in below + 1 .. Height : ~IsMarker(i)
    BY NoOwnMarker DEF VInv, IInv
  <1> QED  BY <1>1, <1>2, <1>3, TextStays DEF VInv

\* A mid-rule action pushes a marker and a table with the same number.
LEMMA OpenVerdict ==
  ASSUME VInv, OpenScope
  PROVE  VInv'
  <1>1. PICK r \in Reducible \cap {"open_block", "open_func"} : Reduce(r, FreshTable)
    BY DEF OpenScope
  <1>2. push /\ UNCHANGED <<yyerrstatus_, errors_, root, dropped>>
    BY DEF OpenScope, astVars
  <1>3. /\ Height' = Height + 1 /\ stack'[Height + 1].sym \in Markers
        /\ stack'[Height + 1].table = FreshTable
        /\ \A i \in 1 .. Height : stack'[i] = stack[i]
    BY <1>1, <1>2, MarkerPushed DEF VInv, IInv
  <1>4. /\ Len(scopes_') = Len(scopes_) + 1
        /\ \A p \in 1 .. Len(scopes_) : scopes_'[p] = scopes_[p]
        /\ scopes_'[Len(scopes_) + 1].id = FreshTable
    BY <1>2, PushTable DEF VInv, IInv
  <1>5. Height \in Nat /\ Len(scopes_) \in Nat /\ FreshTable \in Nat
    BY StackType, TableType DEF VInv, IInv, StackInv
  <1>6. TextInv'
    <2> SUFFICES ASSUME errors_' = {}, NEW p \in 2 .. Len(scopes_) + 1
                 PROVE  \E i \in 1 .. Height + 1 :
                           stack'[i].sym \in Markers /\ stack'[i].table = scopes_'[p].id
      BY <1>3, <1>4 DEF TextInv, IsMarker
    <2>1. CASE p = Len(scopes_) + 1
      <3>1. Height + 1 \in 1 .. Height + 1
        BY <1>5
      <3> QED  BY <1>3, <1>4, <2>1, <3>1
    <2>2. CASE p # Len(scopes_) + 1
      <3>1. p \in 2 .. Len(scopes_) /\ p \in 1 .. Len(scopes_)
        BY <1>5, <2>2
      <3>2. PICK i \in 1 .. Height : IsMarker(i) /\ stack[i].table = scopes_[p].id
        BY <1>2, <3>1 DEF VInv, TextInv
      <3>3. i \in 1 .. Height + 1
        BY <1>5
      <3> QED  BY <1>3, <1>4, <3>1, <3>2, <3>3 DEF IsMarker
    <2> QED  BY <2>1, <2>2
  <1>7. IInv'
    BY OpenInv DEF VInv
  <1>8. r # "program" /\ r \in Reducible
    OBVIOUS
  <1> QED  BY <1>1, <1>2, <1>5, <1>6, <1>7, <1>8, ReduceVerdict

\* A final action takes a marker off the stack and, without errors, its own table.
LEMMA CloseVerdict ==
  ASSUME VInv, CloseScope
  PROVE  VInv'
  <1>1. PICK r \in Reducible \cap {"block_expr", "func"} : Reduce(r, 0)
    BY DEF CloseScope
  <1>2. pop /\ UNCHANGED <<yyerrstatus_, errors_, root, dropped>>
    BY DEF CloseScope, astVars
  <1>3. TextInv'
    BY <1>1, <1>2, TextAfterPop DEF VInv
  <1>4. IInv'
    BY CloseInv DEF VInv
  <1>5. r # "program" /\ r \in Reducible /\ 0 \in Nat
    OBVIOUS
  <1> QED  BY <1>1, <1>2, <1>3, <1>4, <1>5, ReduceVerdict

\* Declaring a name keeps the numbers of the open tables.
LEMMA DeclareVerdict ==
  ASSUME VInv, Declare \/ Assign \/ Use
  PROVE  VInv'
  <1>1. IInv' /\ IInv
    BY DeclareInv DEF VInv
  <1>2. PICK name : Declares(name)
    BY <1>1, Declarers
  <1>3. PICK r \in Reducible \cap {"param_first", "param_more", "name_some", "assign", "variable"} :
           Reduce(r, 0)
    BY DEF Declare, Assign, Use
  <1>4. /\ Len(scopes_') = Len(scopes_)
        /\ \A p \in 1 .. Len(scopes_) : scopes_'[p].id = scopes_[p].id
    BY <1>1, <1>2, AddVariable DEF IInv, Declares
  <1>5. UNCHANGED <<yyerrstatus_, root, dropped>> /\ errors_ \subseteq errors_'
    BY <1>2 DEF Declares
  <1>6. TextInv'
    BY <1>3, <1>4, <1>5, TextReduced
  <1>7. r # "program" /\ r \in Reducible /\ 0 \in Nat
    OBVIOUS
  <1> QED  BY <1>1, <1>3, <1>5, <1>6, <1>7, ReduceVerdict

\* A recovery was reported, when its error token was pushed at the latest.
LEMMA RecoveredError ==
  ASSUME VInv, NEW r \in Reducible \cap ErrorRules
  PROVE  errors_ # {}
  <1>1. PICK k \in 2 .. Len(Rule[r]) : Rule[r][k] = "error"
    BY ErrorRulesHaveError
  <1>2. /\ Len(Rule[r]) \in 1 .. 10 /\ Height \in Nat /\ Width(r) = Len(Rule[r]) - 1
        /\ Height - Width(r) \in 1 .. Height
        /\ stack[Height - Len(Rule[r]) + k].sym = "error"
    BY <1>1, ReducibleRule, RuleLength, StackType DEF VInv, IInv, StackInv, Width
  <1>3. Height - Len(Rule[r]) + k \in 1 .. Height
    <2> DEFINE n == Len(Rule[r])
    <2>1. n \in 1 .. 10 /\ k \in 2 .. n /\ Height - n + 1 \in 1 .. Height /\ Height \in Nat
      BY <1>2
    <2> HIDE DEF n
    <2>2. Height - n + k \in 1 .. Height
      BY <2>1
    <2> QED  BY <2>2 DEF n
  <1> QED  BY <1>2, <1>3 DEF VInv, ErrorInv, OnStack

\* A rule that only makes a node touches neither tables nor errors.
LEMMA NodeVerdict ==
  ASSUME VInv, UnmatchedBrace \/ RecoverStatement \/ MakeProgram \/ MakeNode
  PROVE  VInv'
  <1>1. IInv' /\ errors_ \subseteq errors_'
    BY NodeInv DEF VInv, UnmatchedBrace, RecoverStatement, MakeProgram, MakeNode
  <1>2. PICK r \in Reducible \ {"open_block", "open_func", "block_expr", "func"} :
           /\ Reduce(r, 0)
           /\ r = "program" => MakeProgram
           /\ RecoverStatement => r \in ErrorRules
    <2>1. CASE UnmatchedBrace
      BY <2>1 DEF UnmatchedBrace, RecoverStatement, ErrorRules
    <2>2. CASE RecoverStatement
      BY <2>2 DEF RecoverStatement, ErrorRules
    <2>3. CASE MakeProgram /\ ~RecoverStatement
      BY <2>3 DEF MakeProgram
    <2>4. CASE MakeNode /\ ~RecoverStatement
      BY <2>4 DEF MakeNode, PlainRules
    <2> QED  BY <2>1, <2>2, <2>3, <2>4
  <1>3. scopes_' = scopes_
    BY DEF UnmatchedBrace, RecoverStatement, MakeProgram, MakeNode, scopeVars
  <1>4. TextInv'
    BY <1>1, <1>2, <1>3, TextReduced
  <1>5. yyerrstatus_' \in {0, yyerrstatus_}
    BY DEF UnmatchedBrace, RecoverStatement, MakeProgram, MakeNode
  <1>6. dropped' => dropped \/ errors_' # {}
    <2>1. CASE RecoverStatement
      BY <1>1, <1>2, <2>1, RecoveredError
    <2>2. CASE UnmatchedBrace
      BY <2>2 DEF UnmatchedBrace
    <2>3. CASE MakeProgram \/ MakeNode
      BY <2>3 DEF MakeProgram, MakeNode, astVars
    <2> QED  BY <2>1, <2>2, <2>3
  <1>7. root \/ r = "program" => root'
    BY <1>2 DEF UnmatchedBrace, RecoverStatement, MakeProgram, MakeNode, astVars
  <1>8. 0 \in Nat /\ r \in Reducible
    OBVIOUS
  <1> QED  BY <1>1, <1>2, <1>4, <1>5, <1>6, <1>7, <1>8, ReduceVerdict

\* A recovery is reported, or goes on behind an error that was.
LEMMA RecoverVerdict ==
  ASSUME VInv, Recover
  PROVE  VInv'
  <1>1. /\ UNCHANGED <<root, dropped, phase>> /\ phase = "parsing"
        /\ errors_' # {}
    BY DEF Recover, Stuck, Report, astVars, VInv, ErrorInv
  <1>2. IInv'
    BY RecoverInv DEF VInv
  <1>3. PICK i \in 1 .. Height : PushFrom(i, "error", NoName, 0)
    BY DEF Recover
  <1>4. \A s : OnStack(s)' => s = "error" \/ OnStack(s)
    BY <1>3, SymbolsLeft, ErrorIsSymbol DEF VInv, IInv
  <1>5. ErrorInv' /\ TextInv' /\ PhaseInv'
    BY <1>1 DEF ErrorInv, TextInv, PhaseInv
  <1>6. OnStack("program")' => root'
    BY <1>1, <1>4 DEF VInv
  <1> QED  BY <1>2, <1>5, <1>6 DEF VInv

\* When the start rule is complete the stack is $accept program EOF.
LEMMA AcceptedStack ==
  ASSUME VInv, "accept" \in Reducible
  PROVE  root /\ (errors_ = {} => Len(scopes_) = 1) /\ OnStack("EOF")
  <1>1. /\ Height = 3
        /\ \A k \in 2 .. 3 : stack[k].sym = Rule["accept"][k]
    <2>1. Rule["accept"] = <<"$accept", "program", "EOF">> /\ Len(Rule["accept"]) = 3
      BY ActionRules
    <2>2. Height = 3 /\ \A k \in 2 .. 3 : stack[Height - 3 + k].sym = Rule["accept"][k]
      BY <2>1, ReducibleRule DEF VInv, IInv
    <2>3. \A k \in 2 .. 3 : 3 - 3 + k = k
      OBVIOUS
    <2> QED  BY <2>2, <2>3
  <1>2. stack[1].sym = "$accept" /\ stack[2].sym = "program" /\ stack[3].sym = "EOF"
    BY <1>1, ActionRules DEF VInv, IInv, StackInv
  <1>3. root
    BY <1>1, <1>2 DEF VInv, OnStack
  <1>4. \A i \in 1 .. Height : ~IsMarker(i)
    BY <1>1, <1>2 DEF IsMarker, Markers
  <1>5. Len(scopes_) \in Nat /\ Len(scopes_) >= 1
    BY TableType DEF VInv, IInv, ScopeInv, TableOrder
  <1>6. errors_ = {} => Len(scopes_) = 1
    <2> SUFFICES ASSUME errors_ = {}, Len(scopes_) # 1 PROVE FALSE
      OBVIOUS
    <2>1. \A n \in Nat : n >= 1 /\ n # 1 => 2 \in 2 .. n
      OBVIOUS
    <2>2. 2 \in 2 .. Len(scopes_)
      BY <1>5, <2>1, Zenon
    <2> QED  BY <1>4, <2>2 DEF VInv, TextInv
  <1>7. OnStack("EOF")
    BY <1>1, <1>2 DEF OnStack
  <1> QED  BY <1>3, <1>6, <1>7

\* Accepting, aborting and driver() only move the phase on.
LEMMA EndVerdict ==
  ASSUME VInv, Accept \/ Abort \/ Driver
  PROVE  VInv'
  <1>1. /\ UNCHANGED <<scopeVars, stack, yyerrstatus_, root, dropped>>
        /\ errors_ \subseteq errors_'
    BY DEF Accept, Abort, Driver, Report, astVars
  <1>2. IInv' /\ TextInv' /\ \A s : OnStack(s)' <=> OnStack(s)
    BY <1>1, EndInv, SameStack DEF VInv
  <1>3. CASE Accept
    <2>1. /\ phase' = "accepted" /\ UNCHANGED <<errors_, scopes_, root>>
          /\ root /\ (errors_ = {} => Len(scopes_) = 1)
      BY <1>3, AcceptedStack DEF Accept, scopeVars, astVars
    <2>2. ErrorInv'
      <3>1. yyerrstatus_ # 0 \/ dropped \/ OnStack("error") => errors_ # {}
        BY DEF VInv, ErrorInv
      <3>2. phase' # "aborted" /\ (OnStack("error")' <=> OnStack("error"))
        BY <1>2, <2>1
      <3> QED  BY <1>1, <2>1, <3>1, <3>2, Zenon DEF ErrorInv
    <2>3. phase' # "unknown error" /\ phase' # "compiling"
      BY <2>1
    <2>4. PhaseInv'
      BY <2>1, <2>3, Zenon DEF PhaseInv
    <2> QED  BY <1>1, <1>2, <2>2, <2>4 DEF VInv
  <1>4. CASE Abort
    <2>1. phase' = "aborted" /\ errors_' # {}
      BY <1>4 DEF Abort, Report, VInv, ErrorInv
    <2>2. ErrorInv' /\ PhaseInv'
      BY <2>1 DEF ErrorInv, PhaseInv
    <2> QED  BY <1>1, <1>2, <2>2 DEF VInv
  <1>5. CASE Driver
    <2>1. /\ phase \in {"accepted", "aborted"} /\ UNCHANGED <<errors_, scopes_, root>>
          /\ phase' = IF errors_ # {} THEN "failed"
                      ELSE IF phase = "aborted" THEN "unknown error" ELSE "compiling"
      BY <1>5 DEF Driver, scopeVars, astVars
    <2>2. phase = "aborted" => errors_ # {}
      BY DEF VInv, ErrorInv
    <2>3. phase = "accepted" => root /\ (errors_ = {} => Len(scopes_) = 1)
      BY DEF VInv, PhaseInv
    <2>4. \/ phase' = "failed"
          \/ phase' = "compiling" /\ errors_ = {} /\ root /\ Len(scopes_) = 1
      BY <2>1, <2>2, <2>3
    <2>5. ErrorInv'
      <3>1. yyerrstatus_ # 0 \/ dropped \/ OnStack("error") => errors_ # {}
        BY DEF VInv, ErrorInv
      <3>2. phase' # "aborted" /\ (OnStack("error")' <=> OnStack("error"))
        BY <1>2, <2>4
      <3> QED  BY <1>1, <2>1, <3>1, <3>2, Zenon DEF ErrorInv
    <2>6. phase' # "unknown error" /\ (phase' \in {"accepted", "compiling"} => phase' = "compiling")
      BY <2>4
    <2>7. phase' = "compiling" => errors_' = {} /\ root' /\ Len(scopes_') = 1
      <3>1. "failed" # "compiling"
        OBVIOUS
      <3> QED  BY <2>1, <2>4, <3>1, Zenon
    <2>8. PhaseInv'
      BY <2>6, <2>7, Zenon DEF PhaseInv
    <2> QED  BY <1>1, <1>2, <2>5, <2>8 DEF VInv
  <1> QED  BY <1>3, <1>4, <1>5

\* A step that changes nothing keeps the verdict invariant.
LEMMA StutterVerdict ==
  ASSUME VInv, UNCHANGED vars
  PROVE  VInv'
  <1>1. UNCHANGED <<scopeVars, stack, yyerrstatus_, errors_, root, dropped, phase>>
    BY DEF vars, scopeVars
  <1>2. IInv' /\ TextInv' /\ \A s : OnStack(s)' <=> OnStack(s)
    BY <1>1, StutterInv, SameStack DEF VInv
  <1>3. ErrorInv' /\ PhaseInv'
    BY <1>1, <1>2 DEF VInv, ErrorInv, PhaseInv, scopeVars
  <1> QED  BY <1>1, <1>2, <1>3 DEF VInv

\* The strengthening of WholePrograms, Reported and ScopesFollow: the three are no
\* inductive facts, since they depend on what a reported error says of the stack.
THEOREM VerdictInvariance == Spec => []VInv
  <1>1. Init => VInv
    BY InitVerdict
  <1>2. ASSUME VInv, [Next]_vars PROVE VInv'
    <2>1. CASE ReadToken \/ ReadUnknown \/ ReadHuge \/ ReadEof
      BY <1>2, <2>1, ReadVerdict
    <2>2. CASE Shift
      BY <1>2, <2>2, ShiftVerdict
    <2>3. CASE OpenScope
      BY <1>2, <2>3, OpenVerdict
    <2>4. CASE CloseScope
      BY <1>2, <2>4, CloseVerdict
    <2>5. CASE Declare \/ Assign \/ Use
      BY <1>2, <2>5, DeclareVerdict
    <2>6. CASE UnmatchedBrace \/ RecoverStatement \/ MakeProgram \/ MakeNode
      BY <1>2, <2>6, NodeVerdict
    <2>7. CASE Recover
      BY <1>2, <2>7, RecoverVerdict
    <2>8. CASE Accept \/ Abort \/ Driver
      BY <1>2, <2>8, EndVerdict
    <2>9. CASE Done \/ UNCHANGED vars
      BY <1>2, <2>9, StutterVerdict DEF Done
    <2> QED  BY <1>2, <2>1, <2>2, <2>3, <2>4, <2>5, <2>6, <2>7, <2>8, <2>9 DEF Next
  <1> QED  BY <1>1, <1>2, PTL DEF Spec

\* A program that is compiled was accepted without an error: its Program node
\* is there, none of its statements was dropped, and no scope is left open.
THEOREM WholePrograms == Spec => []CompilesWholePrograms
  <1>1. VInv => CompilesWholePrograms
    BY DEF VInv, PhaseInv, ErrorInv, CompilesWholePrograms
  <1> QED  BY <1>1, VerdictInvariance, PTL

\* parse() never fails without a diagnostic for driver() to print.
THEOREM Reported == Spec => []RejectionsAreReported
  <1>1. VInv => RejectionsAreReported
    BY DEF VInv, PhaseInv, ErrorInv, RejectionsAreReported
  <1> QED  BY <1>1, VerdictInvariance, PTL

\* Until the first error, the open tables are those of the blocks and functions
\* under way, and the global one.
THEOREM ScopesFollow == Spec => []ScopesFollowText
  <1>1. VInv => ScopesFollowText
    <2> SUFFICES ASSUME VInv, errors_ = {}
                 PROVE  {scopes_[p].id : p \in 1 .. Len(scopes_)} =
                        {0} \cup {stack[i].table : i \in {j \in 1 .. Height : IsMarker(j)}}
      BY DEF ScopesFollowText
    <2>1. Len(scopes_) \in Nat /\ Len(scopes_) >= 1 /\ scopes_[1].id = 0
      BY TableType DEF VInv, IInv, ScopeInv, TableOrder
    <2>2. \A p \in 2 .. Len(scopes_) :
            \E i \in 1 .. Height : IsMarker(i) /\ stack[i].table = scopes_[p].id
      BY DEF VInv, TextInv
    <2>3. \A i \in 1 .. Height : IsMarker(i) =>
            \E p \in 2 .. Len(scopes_) : scopes_[p].id = stack[i].table
      BY DEF VInv, IInv, MarkerInv, EnclosingScopesStayOpen
    <2>4. \A p \in 1 .. Len(scopes_) : p = 1 \/ p \in 2 .. Len(scopes_)
      BY <2>1
    <2>5. \A p \in 2 .. Len(scopes_) : p \in 1 .. Len(scopes_)
      OBVIOUS
    <2>6. 1 \in 1 .. Len(scopes_)
      BY <2>1
    <2> DEFINE ids == {scopes_[p].id : p \in 1 .. Len(scopes_)}
               marked == {stack[i].table : i \in {j \in 1 .. Height : IsMarker(j)}}
    <2>7. ASSUME NEW p \in 1 .. Len(scopes_)
          PROVE  scopes_[p].id \in {0} \cup marked
      BY <2>1, <2>2, <2>4
    <2>8. 0 \in ids
      BY <2>1, <2>6
    <2>9. ASSUME NEW i \in 1 .. Height, IsMarker(i)
          PROVE  stack[i].table \in ids
      BY <2>3, <2>5, <2>9
    <2> QED  BY <2>7, <2>8, <2>9
  <1> QED  BY <1>1, VerdictInvariance, PTL

\* Without an error the last table is that of the last marker on the stack, which is
\* the one of the block or function that ends.
LEMMA LastIsOwn ==
  ASSUME VInv, errors_ = {}, NEW r \in Reducible \cap {"block_expr", "func"}
  PROVE  scopes_[Len(scopes_)].id = ScopeOf(r)
  <1> DEFINE below == Height - Width(r)
             m == below + 2
             n == Len(scopes_)
  <1>1. below \in 1 .. Height /\ Height \in Nat
    BY ReducibleRule, StackType DEF VInv, IInv, StackInv
  <1>2. Width(r) = IF r = "func" THEN 9 ELSE 4
    <2>1. Len(Rule["func"]) = 10 /\ Len(Rule["block_expr"]) = 5 /\ r \in {"block_expr", "func"}
      BY ActionRules
    <2>2. CASE r = "func"
      BY <2>1, <2>2 DEF Width
    <2>3. CASE r = "block_expr"
      BY <2>1, <2>3 DEF Width
    <2> QED  BY <2>1, <2>2, <2>3
  <1>3. m \in 1 .. Height /\ IsMarker(m) /\ \A i \in below + 1 .. Height : IsMarker(i) => i = m
    BY <1>1, OwnMarker DEF VInv, IInv
  <1>4. ScopeOf(r) = stack[m].table
    BY <1>1, <1>2 DEF ScopeOf
  <1> HIDE DEF below, m
  <1>5. n \in Nat /\ \A p \in 1 .. n : scopes_[p].id \in Nat
    BY TableType DEF VInv, IInv
  <1>6. PICK p \in 2 .. n : scopes_[p].id = stack[m].table
    BY <1>3 DEF VInv, IInv, MarkerInv, EnclosingScopesStayOpen
  <1>7. n \in 2 .. n /\ n \in 1 .. n /\ p \in 1 .. n
    BY <1>5, <1>6
  <1>8. PICK i \in 1 .. Height : IsMarker(i) /\ stack[i].table = scopes_[n].id
    BY <1>7 DEF VInv, TextInv
  <1>9. p < n => scopes_[p].id < scopes_[n].id
    BY <1>7 DEF VInv, IInv, ScopeInv, TableOrder
  <1>10. i < m => stack[i].table < stack[m].table
    BY <1>3, <1>8 DEF VInv, IInv, MarkerInv, MarkerOrder
  <1>11. i <= m
    BY <1>1, <1>3, <1>8 DEF m
  <1>12. p = n
    <2>1. ~(p < n)
      <3>1. CASE i = m
        BY <1>5, <1>6, <1>7, <1>8, <1>9, <3>1
      <3>2. CASE i < m
        BY <1>5, <1>6, <1>7, <1>8, <1>9, <1>10, <3>2
      <3> QED  BY <1>1, <1>3, <1>11, <3>1, <3>2
    <2> QED  BY <1>5, <1>6, <2>1
  <1> QED  BY <1>4, <1>6, <1>12

\* Until the first error pop closes the scope of the block or function that ends
\* there, for every text.
THEOREM OwnScopesClose == Spec => ClosesItsScopeUntilError
  <1>1. VInv /\ [Next]_vars => [errors_ = {} => ClosesOwnScope]_vars
    BY LastIsOwn DEF ClosesOwnScope
  <1> QED  BY <1>1, VerdictInvariance, PTL DEF Spec, ClosesItsScopeUntilError
\* An end of file, read or on the stack, was that of the text or an unknown
\* character; what is accepted ends in one.
EndSeen ==
  yyla.sym = "EOF" \/ OnStack("EOF") \/ phase \in {"accepted", "compiling"}
    => input.eof \/ input.unknown

\* A push on top of what is left makes no end of file but from the lookahead.
LEMMA EndStays ==
  ASSUME VInv, EndSeen, NEW below \in 1 .. Height, NEW sym \in Symbols,
         NEW name \in Names \cup {NoName}, NEW table \in Nat,
         PushFrom(below, sym, name, table),
         sym = "EOF" => yyla.sym = "EOF",
         yyla' \in {NoToken, yyla}, UNCHANGED <<input, phase>>
  PROVE  EndSeen'
  <1>1. OnStack("EOF")' => sym = "EOF" \/ OnStack("EOF")
    BY SymbolsLeft DEF VInv, IInv
  <1>2. yyla'.sym = "EOF" => yyla.sym = "EOF"
    BY DEF NoToken, Token
  <1> QED  BY <1>1, <1>2 DEF EndSeen

\* A reduction pushes a nonterminal.
LEMMA ReduceEnd ==
  ASSUME VInv, EndSeen, NEW r \in Reducible, NEW table \in Nat, Reduce(r, table)
  PROVE  EndSeen'
  <1>1. /\ Height - Width(r) \in 1 .. Height /\ Lhs(r) \in Symbols /\ r \in RuleNames
        /\ NoName \in Names \cup {NoName}
    BY ReducibleRule DEF VInv, IInv
  <1>2. Lhs(r) # "EOF"
    BY <1>1, EofIsTerminal DEF Terminals, Nonterminals
  <1>3. PushFrom(Height - Width(r), Lhs(r), NoName, table) /\ UNCHANGED <<yyla, input, phase>>
    BY DEF Reduce
  <1> QED  BY <1>1, <1>2, <1>3, EndStays

\* A token of the text is no end of file, and what is known of the text stays known.
LEMMA ReadEnd ==
  ASSUME VInv, EndSeen, ReadToken \/ ReadUnknown \/ ReadHuge \/ ReadEof
  PROVE  EndSeen'
  <1>1. /\ OnStack("EOF")' <=> OnStack("EOF")
        /\ phase = "parsing" /\ phase' \in {"parsing", "exception"}
        /\ input \in [read : 0 .. MaxTokens, eof : BOOLEAN, unknown : BOOLEAN]
    BY DEF ReadToken, ReadUnknown, ReadHuge, ReadEof, Fetching, OnStack, Height,
           VInv, IInv, RegistersOK
  <1>2. CASE ReadToken
    <2>1. PICK u \in Units \ {"unknown", "huge"}, n \in Names \cup {NoName} : yyla' = Token(u, n)
      BY <1>2 DEF ReadToken
    <2>2. yyla'.sym # "EOF"
      BY <2>1, ParserAssumption DEF Token
    <2>3. input'.eof = input.eof /\ input'.unknown = input.unknown
      BY <1>1, <1>2 DEF ReadToken
    <2> QED  BY <1>1, <2>2, <2>3 DEF EndSeen
  <1>3. CASE ReadHuge
    <2>1. UNCHANGED yyla /\ input'.eof = input.eof /\ input'.unknown = input.unknown
      BY <1>1, <1>3 DEF ReadHuge
    <2> QED  BY <1>1, <2>1 DEF EndSeen
  <1>4. CASE ReadUnknown
    <2>1. input'.unknown
      BY <1>1, <1>4 DEF ReadUnknown
    <2> QED  BY <2>1 DEF EndSeen
  <1>5. CASE ReadEof
    <2>1. input'.eof
      BY <1>1, <1>5 DEF ReadEof
    <2> QED  BY <2>1 DEF EndSeen
  <1> QED  BY <1>2, <1>3, <1>4, <1>5

\* Without an unknown character in it, a text is compiled when all of it was read.
THEOREM ReadToTheEnd == Spec => []OnlyUnknownEndsEarly
  <1>1. Init => EndSeen
    <2> SUFFICES ASSUME Init PROVE EndSeen
      OBVIOUS
    <2>1. Height = 1 /\ stack[1].sym = "$accept" /\ yyla.sym = "none" /\ phase = "parsing"
      BY DEF Init, Height, Entry, NoToken, Token
    <2> QED  BY <2>1 DEF EndSeen, OnStack
  <1>2. ASSUME VInv, EndSeen, [Next]_vars PROVE EndSeen'
    <2>1. CASE ReadToken \/ ReadUnknown \/ ReadHuge \/ ReadEof
      BY <1>2, <2>1, ReadEnd
    <2>2. CASE Shift
      <3>1. /\ yyla.sym \in Symbols /\ yyla.name \in Names \cup {NoName}
            /\ Height \in 1 .. Height /\ 0 \in Nat
        <4>1. yyla \in [sym : Terminals, name : Names \cup {NoName}]
          BY <1>2, <2>2 DEF Shift, VInv, IInv, RegistersOK
        <4> QED  BY <1>2, <4>1, TerminalSymbols, StackType DEF VInv, IInv, StackInv
      <3>2. PushFrom(Height, yyla.sym, yyla.name, 0) /\ yyla' = NoToken /\ UNCHANGED <<input, phase>>
        BY <2>2 DEF Shift
      <3> QED  BY <1>2, <3>1, <3>2, EndStays
    <2>3. CASE Recover
      <3>1. PICK i \in 1 .. Height : PushFrom(i, "error", NoName, 0)
        BY <2>3 DEF Recover
      <3>2. yyla' \in {NoToken, yyla} /\ UNCHANGED <<input, phase>>
        BY <2>3 DEF Recover
      <3>3. "error" \in Symbols /\ NoName \in Names \cup {NoName} /\ 0 \in Nat
        BY ErrorIsSymbol
      <3> QED  BY <1>2, <3>1, <3>2, <3>3, EndStays
    <2>4. CASE OpenScope
      <3>1. PICK r \in Reducible : Reduce(r, FreshTable)
        BY <2>4 DEF OpenScope
      <3>2. FreshTable \in Nat
        BY <1>2, TableType DEF VInv, IInv
      <3> QED  BY <1>2, <3>1, <3>2, ReduceEnd
    <2>5. CASE \/ CloseScope \/ Declare \/ Assign \/ Use
               \/ UnmatchedBrace \/ RecoverStatement \/ MakeProgram \/ MakeNode
      <3>1. PICK r \in Reducible : Reduce(r, 0)
        BY <2>5 DEF CloseScope, Declare, Assign, Use, UnmatchedBrace, RecoverStatement,
                    MakeProgram, MakeNode
      <3> QED  BY <1>2, <3>1, ReduceEnd
    <2>6. CASE Accept
      <3>1. OnStack("EOF")
        BY <1>2, <2>6, AcceptedStack DEF Accept
      <3>2. UNCHANGED input
        BY <2>6 DEF Accept
      <3> QED  BY <1>2, <3>1, <3>2 DEF EndSeen
    <2>7. CASE Abort
      <3>1. UNCHANGED <<stack, yyla, input>> /\ phase' = "aborted"
        BY <2>7 DEF Abort
      <3> QED  BY <1>2, <3>1 DEF EndSeen, OnStack, Height
    <2>8. CASE Driver
      <3>1. UNCHANGED <<stack, yyla, input>> /\ (phase' = "compiling" => phase = "accepted")
        BY <2>8 DEF Driver
      <3>2. phase' # "accepted"
        BY <2>8 DEF Driver
      <3> QED  BY <1>2, <3>1, <3>2 DEF EndSeen, OnStack, Height
    <2>9. CASE Done \/ UNCHANGED vars
      BY <1>2, <2>9 DEF Done, vars, EndSeen, OnStack, Height
    <2> QED  BY <1>2, <2>1, <2>2, <2>3, <2>4, <2>5, <2>6, <2>7, <2>8, <2>9 DEF Next
  <1>3. EndSeen => OnlyUnknownEndsEarly
    BY DEF EndSeen, OnlyUnknownEndsEarly
  <1> QED  BY <1>1, <1>2, <1>3, VerdictInvariance, PTL DEF Spec
----------------------------------------------------------------------------
(***************************************************************************)
(* Recoveries.  While one waits for a token that fits, the error token is  *)
(* on top of the stack, and behind it nothing can be reduced.              *)
(***************************************************************************)
WaitInv ==
  phase = "parsing" /\ yyerrstatus_ = 3 =>
    \E K \in SUBSET Items : Top = Goto(K, "error")

\* Behind an error token the machine does not reduce.
LEMMA NothingReduced ==
  ASSUME WaitInv, yyerrstatus_ = 3
  PROVE  Reducible = {}
  BY ErrorGotos DEF WaitInv, Reducible

\* A token of the text is not the empty lookahead.
LEMMA TokenRead ==
  ASSUME IInv, ReadToken \/ ReadUnknown \/ ReadEof
  PROVE  yyla = NoToken /\ yyla' # NoToken
  <1>1. "none" \notin Terminals /\ "EOF" # "none"
    BY NoneIsNoSymbol, TerminalSymbols
  <1>2. CASE ReadToken
    <2>1. PICK u \in Units \ {"unknown", "huge"}, n \in Names \cup {NoName} : yyla' = Token(u, n)
      BY <1>2 DEF ReadToken
    <2>2. yyla'.sym # "none"
      BY <1>1, <2>1, ParserAssumption DEF Token
    <2> QED  BY <1>2, <2>2 DEF ReadToken, Fetching, NoToken, Token
  <1>3. CASE ReadUnknown \/ ReadEof
    BY <1>1, <1>3 DEF ReadUnknown, ReadEof, Fetching, NoToken, Token
  <1> QED  BY <1>2, <1>3

\* A recovery puts the error token on top; a shift counts down from 3.
LEMMA NextWaits ==
  ASSUME IInv, WaitInv, [Next]_vars
  PROVE  WaitInv'
  <1> SUFFICES ASSUME phase' = "parsing", yyerrstatus_' = 3
               PROVE  \E K \in SUBSET Items : Top' = Goto(K, "error")
    BY DEF WaitInv
  <1>1. CASE UNCHANGED <<stack, yyerrstatus_>> /\ phase = "parsing"
    BY <1>1 DEF WaitInv, Top, Height
  <1>2. CASE Shift
    BY <1>2 DEF Shift, IInv, RegistersOK
  <1>3. CASE yyerrstatus_' \in {0, yyerrstatus_} /\ Reducible # {}
    BY <1>3, NothingReduced
  <1>4. CASE Recover
    <2>1. PICK i \in 1 .. Height : PushFrom(i, "error", NoName, 0)
      BY <1>4 DEF Recover
    <2>2. /\ Height' = i + 1
          /\ stack'[i + 1] = Entry(Goto(stack[i].state, "error"), "error", NoName, 0)
      <3>1. stack \in Seq(Entries)
        BY DEF IInv, StackInv
      <3> QED  BY <2>1, <3>1, PushedStack, ErrorIsSymbol
    <2>3. Top' = Goto(stack[i].state, "error")
      BY <2>2 DEF Top, Entry
    <2>4. stack[i].state \in SUBSET Items
      BY StackType, EntryType DEF IInv, StackInv
    <2> QED  BY <2>3, <2>4
  <1>5. CASE \/ OpenScope \/ CloseScope \/ Declare \/ Assign \/ Use
             \/ UnmatchedBrace \/ RecoverStatement \/ MakeProgram \/ MakeNode
    <2>1. Reducible # {}
      BY <1>5 DEF OpenScope, CloseScope, Declare, Assign, Use, UnmatchedBrace,
                  RecoverStatement, MakeProgram, MakeNode
    <2>2. yyerrstatus_' \in {0, yyerrstatus_}
      BY <1>5 DEF OpenScope, CloseScope, Declare, Assign, Use, UnmatchedBrace,
                  RecoverStatement, MakeProgram, MakeNode
    <2> QED  BY <1>3, <2>1, <2>2
  <1>6. CASE ReadToken \/ ReadUnknown \/ ReadHuge \/ ReadEof
    BY <1>1, <1>6 DEF ReadToken, ReadUnknown, ReadHuge, ReadEof, Fetching
  <1>7. CASE Accept \/ Abort \/ Driver
    BY <1>7 DEF Accept, Abort, Driver
  <1>8. CASE Done \/ UNCHANGED vars
    BY <1>1, <1>8 DEF Done, vars
  <1> QED  BY <1>2, <1>4, <1>5, <1>6, <1>7, <1>8 DEF Next

\* Every step of a recovery that waits reads a token or uses one up.  So only as
\* many follow each other as there are tokens, which is what Termination needs of
\* the rules with an error token.
THEOREM RecoveriesProgress == Spec => RecoveryUsesTokens
  <1>1. Init => WaitInv
    BY DEF Init, WaitInv
  <1>2. IInv /\ WaitInv /\ [Next]_vars => WaitInv'
    BY NextWaits
  <1>3. IInv /\ WaitInv /\ [Next]_vars
          => [yyerrstatus_ = 3 /\ phase' = "parsing" => (yyla = NoToken <=> yyla' # NoToken)]_vars
    <2> SUFFICES ASSUME IInv, WaitInv, Next, yyerrstatus_ = 3, phase' = "parsing", ~UNCHANGED vars
                 PROVE  yyla = NoToken <=> yyla' # NoToken
      OBVIOUS
    <2>1. Reducible = {}
      BY NothingReduced
    <2>2. CASE ReadToken \/ ReadUnknown \/ ReadEof
      BY <2>2, TokenRead
    <2>3. CASE Shift
      BY <2>3 DEF Shift
    <2>4. CASE Recover
      BY <2>4 DEF Recover, Stuck
    <2>5. CASE \/ OpenScope \/ CloseScope \/ Declare \/ Assign \/ Use
               \/ UnmatchedBrace \/ RecoverStatement \/ MakeProgram \/ MakeNode
      BY <2>1, <2>5 DEF OpenScope, CloseScope, Declare, Assign, Use, UnmatchedBrace,
                        RecoverStatement, MakeProgram, MakeNode
    <2>6. ~(ReadHuge \/ Accept \/ Abort \/ Driver \/ Done)
      BY DEF ReadHuge, Accept, Abort, Driver, Done
    <2> QED  BY <2>2, <2>3, <2>4, <2>5, <2>6 DEF Next
  <1> QED  BY <1>1, <1>2, <1>3, Invariance, PTL DEF Spec, RecoveryUsesTokens
==================================================================================
