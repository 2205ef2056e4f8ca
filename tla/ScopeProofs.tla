--------------------------------- MODULE ScopeProofs ---------------------------------
(***************************************************************************)
(* What the operations of the symbol table do, whoever calls them.         *)
(***************************************************************************)
EXTENDS Scope, SequenceTheorems, TLAPS

\* Tables are numbered in the order of their creation, which is the order of
\* the open ones; the global table is always open.
TableOrder ==
  /\ Len(scopes_) >= 1 /\ scopes_[1].id = 0
  /\ \A p, q \in 1 .. Len(scopes_) : p < q => scopes_[p].id < scopes_[q].id
  /\ \A p \in 1 .. Len(scopes_) : scopes_[p].id < FreshTable

ScopeInv ==
  /\ scopes_ \in Seq(Tables)
  /\ archived_ \in Seq(Tables)
  /\ TableOrder
  /\ NoShadowing

\* A table of a sequence of tables has a number and a set of names.
LEMMA TableType ==
  ASSUME ScopeInv
  PROVE  /\ Len(scopes_) \in Nat /\ DOMAIN scopes_ = 1 .. Len(scopes_)
         /\ Len(archived_) \in Nat /\ DOMAIN archived_ = 1 .. Len(archived_)
         /\ FreshTable \in Nat
         /\ \A p \in 1 .. Len(scopes_) : /\ scopes_[p] \in Tables
                                         /\ scopes_[p].id \in Nat
                                         /\ scopes_[p].names \in SUBSET Names
  <1>1. \A t \in Tables : t.id \in Nat /\ t.names \in SUBSET Names
    BY DEF Tables
  <1>2. /\ Len(scopes_) \in Nat /\ DOMAIN scopes_ = 1 .. Len(scopes_)
        /\ Len(archived_) \in Nat /\ DOMAIN archived_ = 1 .. Len(archived_)
        /\ \A p \in 1 .. Len(scopes_) : scopes_[p] \in Tables
    BY DEF ScopeInv
  <1> QED  BY <1>1, <1>2 DEF FreshTable

\* The constructor establishes the invariant.
LEMMA ScopeInitInv ==
  ScopeInit => ScopeInv /\ Len(scopes_) = 1
  <1> SUFFICES ASSUME ScopeInit PROVE ScopeInv /\ Len(scopes_) = 1
    OBVIOUS
  <1> DEFINE global == EmptyTable(0)
  <1>1. global \in Tables /\ global.id = 0
    BY DEF EmptyTable, Tables
  <1>2. scopes_ = <<global>> /\ archived_ = <<>>
    BY DEF ScopeInit
  <1> HIDE DEF global
  <1>3. /\ scopes_ \in Seq(Tables) /\ Len(scopes_) = 1 /\ scopes_[1] = global
        /\ archived_ \in Seq(Tables) /\ Len(archived_) = 0
        /\ DOMAIN scopes_ = 1 .. 1
    BY <1>1, <1>2
  <1> QED  BY <1>1, <1>3 DEF ScopeInv, TableOrder, NoShadowing, FreshTable

\* push opens an empty table with a new number.
LEMMA PushTable ==
  ASSUME ScopeInv, push
  PROVE  /\ ScopeInv'
         /\ Len(scopes_') = Len(scopes_) + 1
         /\ \A p \in 1 .. Len(scopes_) : scopes_'[p] = scopes_[p]
         /\ scopes_'[Len(scopes_) + 1].id = FreshTable
         /\ scopes_'[Len(scopes_) + 1].names = {}
         /\ \A v : IsLive(v) => IsLive(v)'
  <1> DEFINE n == Len(scopes_)
             t == EmptyTable(FreshTable)
  <1>1. n \in Nat /\ DOMAIN scopes_ = 1 .. n /\ FreshTable \in Nat /\ Len(archived_) \in Nat
    BY TableType
  <1>2. t \in Tables /\ t.id = FreshTable /\ t.names = {}
    BY <1>1 DEF EmptyTable, Tables
  <1>3. scopes_' = Append(scopes_, t) /\ archived_' = archived_
    BY DEF push
  <1>4. scopes_ \in Seq(Tables) /\ archived_ \in Seq(Tables)
    BY DEF ScopeInv
  <1> HIDE DEF t
  <1>5. /\ scopes_' \in Seq(Tables) /\ Len(scopes_') = n + 1
        /\ \A p \in 1 .. n : scopes_'[p] = scopes_[p]
        /\ scopes_'[n + 1] = t
        /\ DOMAIN scopes_' = 1 .. n + 1
    BY <1>2, <1>3, <1>4
  <1>6. FreshTable' = FreshTable + 1
    BY <1>1, <1>3, <1>5 DEF FreshTable
  <1>7. TableOrder'
    <2>1. n >= 1 /\ scopes_[1].id = 0
      BY DEF ScopeInv, TableOrder
    <2>2. \A p, q \in 1 .. n : p < q => scopes_'[p].id < scopes_'[q].id
      BY <1>5 DEF ScopeInv, TableOrder
    <2>3. \A p \in 1 .. n : scopes_'[p].id \in Nat /\ scopes_'[p].id < FreshTable
      BY <1>5, TableType DEF ScopeInv, TableOrder
    <2>4. scopes_'[n + 1].id = FreshTable
      BY <1>2, <1>5
    <2>5. \A p, q \in 1 .. n + 1 : p < q => scopes_'[p].id < scopes_'[q].id
      BY <1>1, <2>2, <2>3, <2>4
    <2>6. \A p \in 1 .. n + 1 : scopes_'[p].id < FreshTable + 1
      BY <1>1, <2>3, <2>4
    <2> QED  BY <1>1, <1>5, <1>6, <2>1, <2>5, <2>6 DEF TableOrder
  <1>8. NoShadowing'
    <2>1. \A i, j \in 1 .. n : scopes_'[i].names \cap scopes_'[j].names # {} => i = j
      BY <1>1, <1>5 DEF ScopeInv, NoShadowing
    <2> QED  BY <1>1, <1>2, <1>5, <2>1 DEF NoShadowing
  <1>9. ASSUME NEW v, IsLive(v) PROVE IsLive(v)'
    <2>1. LiveTables \subseteq LiveTables'
      <3>1. \A p \in DOMAIN scopes_ : p \in DOMAIN scopes_' /\ scopes_'[p] = scopes_[p]
        BY <1>1, <1>5
      <3> QED  BY <1>3, <3>1 DEF LiveTables, TablesIn
    <2> QED  BY <1>9, <2>1 DEF IsLive
  <1> QED  BY <1>2, <1>3, <1>4, <1>5, <1>7, <1>8, <1>9 DEF ScopeInv

\* pop archives the innermost table; every other table and every view stays.
LEMMA PopTable ==
  ASSUME ScopeInv, Len(scopes_) >= 2, pop
  PROVE  /\ ScopeInv'
         /\ Len(scopes_') = Len(scopes_) - 1
         /\ \A p \in 1 .. Len(scopes_) - 1 : scopes_'[p] = scopes_[p]
         /\ FreshTable' = FreshTable
         /\ \A v : IsLive(v) => IsLive(v)'
  <1> DEFINE n == Len(scopes_)
             t == scopes_[n]
  <1>1. /\ n \in Nat /\ DOMAIN scopes_ = 1 .. n /\ FreshTable \in Nat
        /\ Len(archived_) \in Nat /\ DOMAIN archived_ = 1 .. Len(archived_)
        /\ t \in Tables
    BY TableType
  <1>2. archived_' = Append(archived_, t) /\ scopes_' = SubSeq(scopes_, 1, n - 1)
    BY DEF pop
  <1>3. scopes_ \in Seq(Tables) /\ archived_ \in Seq(Tables)
    BY DEF ScopeInv
  <1>4. /\ scopes_' \in Seq(Tables) /\ Len(scopes_') = n - 1
        /\ \A p \in 1 .. n - 1 : scopes_'[p] = scopes_[p]
        /\ DOMAIN scopes_' = 1 .. n - 1
    BY <1>1, <1>2, <1>3
  <1>5. /\ archived_' \in Seq(Tables) /\ Len(archived_') = Len(archived_) + 1
        /\ \A p \in 1 .. Len(archived_) : archived_'[p] = archived_[p]
        /\ archived_'[Len(archived_) + 1] = t
        /\ DOMAIN archived_' = 1 .. Len(archived_) + 1
    <2> HIDE DEF t
    <2> QED  BY <1>1, <1>2, <1>3
  <1>6. FreshTable' = FreshTable
    BY <1>1, <1>4, <1>5 DEF FreshTable
  <1>7. TableOrder'
    <2>1. scopes_[1].id = 0
      BY DEF ScopeInv, TableOrder
    <2>2. \A p, q \in 1 .. n - 1 : p < q => scopes_'[p].id < scopes_'[q].id
      BY <1>1, <1>4 DEF ScopeInv, TableOrder
    <2>3. \A p \in 1 .. n - 1 : scopes_'[p].id < FreshTable
      BY <1>1, <1>4 DEF ScopeInv, TableOrder
    <2> QED  BY <1>1, <1>4, <1>6, <2>1, <2>2, <2>3 DEF TableOrder
  <1>8. NoShadowing'
    <2>1. \A p \in DOMAIN scopes_' : p \in DOMAIN scopes_ /\ scopes_'[p] = scopes_[p]
      BY <1>1, <1>4
    <2> QED  BY <2>1 DEF ScopeInv, NoShadowing
  <1>9. ASSUME NEW v, IsLive(v) PROVE IsLive(v)'
    <2>1. \A p \in DOMAIN scopes_ :
             \/ p \in DOMAIN scopes_' /\ scopes_'[p] = scopes_[p]
             \/ scopes_[p] = archived_'[Len(archived_) + 1]
      BY <1>1, <1>4, <1>5
    <2>2. /\ \A p \in DOMAIN archived_ : p \in DOMAIN archived_' /\ archived_'[p] = archived_[p]
          /\ Len(archived_) + 1 \in DOMAIN archived_'
      BY <1>1, <1>5
    <2>3. LiveTables \subseteq LiveTables'
      BY <2>1, <2>2 DEF LiveTables, TablesIn
    <2> QED  BY <1>9, <2>3 DEF IsLive
  <1> QED  BY <1>3, <1>4, <1>5, <1>6, <1>7, <1>8, <1>9 DEF ScopeInv

\* A search that stops at the first hit finds the only table with the name.
LEMMA FoundOnce ==
  ScopeInv =>
    \A name : \A i \in 1 .. Len(scopes_) :
       name \in scopes_[i].names =>
         /\ find(name)
         /\ (CHOOSE j \in DOMAIN scopes_ : IsInnermost(j, name)) = i
  <1> SUFFICES ASSUME ScopeInv, NEW name, NEW i \in 1 .. Len(scopes_),
                      name \in scopes_[i].names
               PROVE  /\ find(name)
                      /\ (CHOOSE j \in DOMAIN scopes_ : IsInnermost(j, name)) = i
    OBVIOUS
  <1>1. DOMAIN scopes_ = 1 .. Len(scopes_) /\ Len(scopes_) \in Nat
    BY TableType
  <1>2. \A j \in DOMAIN scopes_ : name \in scopes_[j].names => j = i
    BY <1>1 DEF ScopeInv, NoShadowing
  <1>3. IsInnermost(i, name)
    BY <1>1, <1>2 DEF IsInnermost
  <1>4. \A j \in DOMAIN scopes_ : IsInnermost(j, name) => j = i
    BY <1>2 DEF IsInnermost
  <1> QED  BY <1>1, <1>3, <1>4 DEF find

\* add_variable keeps every table open and its number, and returns a view that
\* is alive afterwards, whether it found the name or made it.
LEMMA AddVariable ==
  ASSUME NEW name \in Names, ScopeInv, add_variable(name)
  PROVE  /\ ScopeInv'
         /\ Len(scopes_') = Len(scopes_)
         /\ \A p \in 1 .. Len(scopes_) : scopes_'[p].id = scopes_[p].id
         /\ FreshTable' = FreshTable
         /\ AddedView(name) \in [table : Nat, name : Names]
         /\ \A v : IsLive(v) \/ v = AddedView(name) => IsLive(v)'
  <1> DEFINE n == Len(scopes_)
  <1>1. /\ n \in Nat /\ DOMAIN scopes_ = 1 .. n /\ FreshTable \in Nat
        /\ scopes_ \in Seq(Tables) /\ archived_ \in Seq(Tables) /\ n \in 1 .. n
        /\ \A p \in 1 .. n : scopes_[p] \in Tables
    BY TableType DEF ScopeInv, TableOrder
  <1>2. CASE find(name)
    <2>1. UNCHANGED scopeVars
      BY <1>2 DEF add_variable, scopeVars
    <2>2. ScopeInv' /\ FreshTable' = FreshTable /\ scopes_' = scopes_
      BY <2>1 DEF ScopeInv, TableOrder, NoShadowing, FreshTable, scopeVars
    <2>3. \A v : IsLive(v) => IsLive(v)'
      BY <2>1 DEF IsLive, LiveTables, TablesIn, scopeVars
    <2>4. PICK i \in 1 .. n : name \in scopes_[i].names
      BY <1>1, <1>2 DEF find
    <2>5. AddedView(name) = [table |-> scopes_[i].id, name |-> name]
      BY <1>2, <2>4, FoundOnce DEF AddedView, lookup, View
    <2>6. AddedView(name) \in [table : Nat, name : Names] /\ IsLive(AddedView(name))
      BY <1>1, <2>4, <2>5, TableType DEF IsLive, LiveTables, TablesIn
    <2> QED  BY <2>2, <2>3, <2>6
  <1>3. CASE ~find(name)
    <2> DEFINE t == [scopes_[n] EXCEPT !.names = @ \cup {name}]
    <2>1. scopes_' = [scopes_ EXCEPT ![n] = t] /\ archived_' = archived_
      BY <1>3 DEF add_variable, DeclareIn
    <2>2. t \in Tables /\ t.id = scopes_[n].id /\ t.names = scopes_[n].names \cup {name}
      <3>1. \A u \in Tables : LET w == [u EXCEPT !.names = @ \cup {name}]
                              IN  w \in Tables /\ w.id = u.id /\ w.names = u.names \cup {name}
        BY DEF Tables
      <3>2. scopes_[n] \in Tables
        BY <1>1
      <3> QED  BY <3>1, <3>2
    <2> HIDE DEF t
    <2>3. /\ scopes_' \in Seq(Tables) /\ Len(scopes_') = n /\ DOMAIN scopes_' = 1 .. n
          /\ \A p \in 1 .. n : p # n => scopes_'[p] = scopes_[p]
          /\ scopes_'[n] = t
      BY <1>1, <2>1, <2>2, ExceptSeq
    <2>4. \A p \in 1 .. n : /\ scopes_'[p].id = scopes_[p].id
                            /\ scopes_[p].names \subseteq scopes_'[p].names
      BY <2>2, <2>3
    <2>5. FreshTable' = FreshTable
      BY <2>1, <2>3 DEF FreshTable
    <2>6. TableOrder'
      <3>1. /\ n >= 1 /\ scopes_[1].id = 0
            /\ \A p, q \in 1 .. n : p < q => scopes_[p].id < scopes_[q].id
            /\ \A p \in 1 .. n : scopes_[p].id < FreshTable
        BY DEF ScopeInv, TableOrder
      <3>2. 1 \in 1 .. n
        BY <1>1
      <3> QED  BY <2>3, <2>4, <2>5, <3>1, <3>2 DEF TableOrder
    <2>7. NoShadowing'
      <3>1. \A p \in 1 .. n :
               /\ name \notin scopes_[p].names
               /\ scopes_'[p].names = scopes_[p].names \cup (IF p = n THEN {name} ELSE {})
        BY <1>1, <1>3, <2>2, <2>3 DEF find
      <3>2. \A p, q \in 1 .. n : scopes_[p].names \cap scopes_[q].names # {} => p = q
        BY <1>1 DEF ScopeInv, NoShadowing
      <3>3. \A p, q \in 1 .. n : scopes_'[p].names \cap scopes_'[q].names # {} => p = q
        BY <3>1, <3>2
      <3> QED  BY <2>3, <3>3 DEF NoShadowing
    <2>8. AddedView(name) = [table |-> t.id, name |-> name]
      BY <1>3, <2>2 DEF AddedView, View
    <2>9. AddedView(name) \in [table : Nat, name : Names]
      <3>1. t.id \in Nat
        BY <1>1, <2>2, TableType
      <3> QED  BY <2>8, <3>1
    <2>10. ASSUME NEW v, IsLive(v) \/ v = AddedView(name)
           PROVE  IsLive(v)'
      <3>1. \A p \in 1 .. n : scopes_'[p] \in LiveTables'
        BY <2>3 DEF LiveTables, TablesIn
      <3>2. CASE v = AddedView(name)
        <4>1. v.table = t.id /\ v.name \in t.names
          BY <2>2, <2>8, <3>2
        <4> QED  BY <1>1, <2>3, <3>1, <4>1 DEF IsLive
      <3>3. CASE IsLive(v)
        <4>1. PICK u \in LiveTables : u.id = v.table /\ v.name \in u.names
          BY <3>3 DEF IsLive
        <4>2. CASE u \in TablesIn(archived_)
          <5>1. u \in LiveTables'
            BY <2>1, <4>2 DEF LiveTables, TablesIn
          <5> QED  BY <4>1, <5>1 DEF IsLive
        <4>3. CASE u \in TablesIn(scopes_)
          <5>1. PICK p \in 1 .. n : u = scopes_[p]
            BY <1>1, <4>3 DEF TablesIn
          <5>2. scopes_'[p].id = v.table /\ v.name \in scopes_'[p].names
            BY <2>4, <4>1, <5>1
          <5> QED  BY <3>1, <5>2 DEF IsLive
        <4> QED  BY <4>1, <4>2, <4>3 DEF LiveTables
      <3> QED  BY <2>10, <3>2, <3>3
    <2> QED  BY <1>1, <2>1, <2>3, <2>4, <2>5, <2>6, <2>7, <2>9, <2>10 DEF ScopeInv
  <1> QED  BY <1>2, <1>3

----------------------------------------------------------------------------
(***************************************************************************)
(* The operations implement those of Declarations.                         *)
(***************************************************************************)
\* The level of a name is the place of the table that has it.
LevelIsPlace ==
  \A name \in Names :
    /\ level[name] = 0 \/ level[name] \in 1 .. Len(scopes_)
    /\ \A i \in 1 .. Len(scopes_) : level[name] = i <=> name \in scopes_[i].names

\* A name has the level of the only table that has it.
LEMMA LevelOf == ScopeInv => LevelIsPlace
  <1> SUFFICES ASSUME ScopeInv, NEW name \in Names
               PROVE  /\ level[name] = 0 \/ level[name] \in 1 .. Len(scopes_)
                      /\ \A i \in 1 .. Len(scopes_) :
                            level[name] = i <=> name \in scopes_[i].names
    BY DEF LevelIsPlace
  <1>1. DOMAIN scopes_ = 1 .. Len(scopes_) /\ Len(scopes_) \in Nat
    BY TableType
  <1>2. ASSUME NEW i \in 1 .. Len(scopes_), name \in scopes_[i].names
        PROVE  level[name] = i
    BY <1>2, FoundOnce DEF level
  <1>3. CASE find(name)
    BY <1>1, <1>2, <1>3 DEF find
  <1>4. CASE ~find(name)
    <2>1. level[name] = 0 /\ \A i \in 1 .. Len(scopes_) : name \notin scopes_[i].names
      BY <1>1, <1>4 DEF find, level
    <2> QED  BY <1>1, <2>1
  <1> QED  BY <1>3, <1>4

\* The levels are those of a map in which each name occurs once, so a change of
\* the tables is a change of the map.
LEMMA SameLevel ==
  ASSUME ScopeInv, ScopeInv', NEW name \in Names, NEW m \in Nat,
         \A i \in 1 .. Len(scopes_') : name \in scopes_'[i].names <=> i = m,
         m = 0 \/ m \in 1 .. Len(scopes_')
  PROVE  level'[name] = m
  <1>1. /\ level'[name] = 0 \/ level'[name] \in 1 .. Len(scopes_')
        /\ \A i \in 1 .. Len(scopes_') : level'[name] = i <=> name \in scopes_'[i].names
    <2>1. (ScopeInv => LevelIsPlace)'
      BY LevelOf, PTL
    <2> QED  BY <2>1 DEF LevelIsPlace
  <1>2. CASE m = 0
    BY <1>1, <1>2
  <1>3. CASE m \in 1 .. Len(scopes_')
    BY <1>1, <1>3
  <1> QED  BY <1>2, <1>3

\* The level is a function on the names, before a step and behind it.
LEMMA LevelForm ==
  /\ level = [name \in Names |-> level[name]]
  /\ level' = [name \in Names |-> level'[name]]
  BY DEF level

\* Scope::push enters a level and declares nothing.
LEMMA PushEnters ==
  ASSUME ScopeInv, push
  PROVE  Abstract!Enter
  <1>1. /\ ScopeInv' /\ Len(scopes_') = Len(scopes_) + 1 /\ Len(scopes_) \in Nat
        /\ \A i \in 1 .. Len(scopes_) : scopes_'[i] = scopes_[i]
        /\ scopes_'[Len(scopes_) + 1].names = {}
    BY PushTable, TableType
  <1>2. ASSUME NEW name \in Names
        PROVE  level'[name] = level[name]
    <2>1. level[name] = 0 \/ level[name] \in 1 .. Len(scopes_)
      BY LevelOf DEF LevelIsPlace
    <2>2. \A i \in 1 .. Len(scopes_) : level[name] = i <=> name \in scopes_'[i].names
      BY <1>1, LevelOf DEF LevelIsPlace
    <2>3. \A i \in 1 .. Len(scopes_') : name \in scopes_'[i].names <=> i = level[name]
      BY <1>1, <2>1, <2>2
    <2>4. level[name] \in Nat /\ (level[name] = 0 \/ level[name] \in 1 .. Len(scopes_'))
      BY <1>1, <2>1
    <2> QED  BY <1>1, <2>3, <2>4, SameLevel
  <1>3. level' = level
    BY <1>2, LevelForm
  <1> QED  BY <1>1, <1>3 DEF Abstract!Enter

\* Scope::pop leaves a level and forgets exactly its names.
LEMMA PopLeaves ==
  ASSUME ScopeInv, Len(scopes_) >= 2, pop
  PROVE  Abstract!Leave
  <1>1. /\ ScopeInv' /\ Len(scopes_') = Len(scopes_) - 1 /\ Len(scopes_) \in Nat
        /\ \A i \in 1 .. Len(scopes_) - 1 : scopes_'[i] = scopes_[i]
    BY PopTable, TableType
  <1>2. ASSUME NEW name \in Names
        PROVE  level'[name] = IF level[name] = Len(scopes_) THEN 0 ELSE level[name]
    <2> DEFINE m == IF level[name] = Len(scopes_) THEN 0 ELSE level[name]
    <2>1. level[name] = 0 \/ level[name] \in 1 .. Len(scopes_)
      BY LevelOf DEF LevelIsPlace
    <2>2. \A i \in 1 .. Len(scopes_) - 1 : level[name] = i <=> name \in scopes_'[i].names
      BY <1>1, LevelOf DEF LevelIsPlace
    <2>3. \A i \in 1 .. Len(scopes_') : name \in scopes_'[i].names <=> i = m
      BY <1>1, <2>1, <2>2
    <2>4. m \in Nat /\ (m = 0 \/ m \in 1 .. Len(scopes_'))
      BY <1>1, <2>1
    <2> HIDE DEF m
    <2>5. level'[name] = m
      BY <1>1, <2>3, <2>4, SameLevel
    <2> QED  BY <2>5 DEF m
  <1>3. level' = [name \in Names |-> IF level[name] = Len(scopes_) THEN 0 ELSE level[name]]
    BY <1>2, LevelForm
  <1> QED  BY <1>1, <1>3 DEF Abstract!Leave

\* Scope::add_variable declares a name only when no open table has it.
LEMMA AddMentions ==
  ASSUME NEW name \in Names, ScopeInv, add_variable(name)
  PROVE  Abstract!Mention(name)
  <1> DEFINE n == Len(scopes_)
  <1>1. /\ ScopeInv' /\ Len(scopes_') = n /\ n \in Nat /\ n \in 1 .. n
        /\ DOMAIN scopes_ = 1 .. n
    BY AddVariable, TableType DEF ScopeInv, TableOrder
  <1>2. ASSUME NEW other \in Names
        PROVE  level'[other] = IF other = name /\ level[other] = 0 THEN n ELSE level[other]
    <2> DEFINE m == IF other = name /\ level[other] = 0 THEN n ELSE level[other]
    <2>1. level[other] = 0 \/ level[other] \in 1 .. n
      BY LevelOf DEF LevelIsPlace
    <2>2. \A i \in 1 .. n : level[other] = i <=> other \in scopes_[i].names
      BY LevelOf DEF LevelIsPlace
    <2>3. \A i \in 1 .. n : other \in scopes_'[i].names <=> i = m
      <3>1. CASE find(name)
        <4>1. scopes_' = scopes_
          BY <3>1 DEF add_variable
        <4>2. other = name => level[other] # 0
          BY <1>1, <2>2, <3>1 DEF find
        <4> QED  BY <1>1, <2>2, <4>1, <4>2
      <3>2. CASE ~find(name)
        <4>1. scopes_' = [scopes_ EXCEPT ![n] = [scopes_[n] EXCEPT !.names = @ \cup {name}]]
          BY <3>2 DEF add_variable, DeclareIn
        <4>2. \A t \in Tables : [t EXCEPT !.names = @ \cup {name}].names = t.names \cup {name}
          BY DEF Tables
        <4>3. \A i \in 1 .. n : scopes_'[i].names = scopes_[i].names \cup
                                                   (IF i = n THEN {name} ELSE {})
          BY <1>1, <4>1, <4>2, TableType
        <4>4. \A i \in 1 .. n : name \notin scopes_[i].names
          BY <1>1, <3>2 DEF find
        <4>5. other = name => level[other] = 0
          BY <2>1, <2>2, <4>4
        <4>6. CASE other = name
          BY <1>1, <4>3, <4>4, <4>5, <4>6
        <4>7. CASE other # name
          BY <1>1, <2>2, <4>3, <4>7
        <4> QED  BY <4>6, <4>7
      <3> QED  BY <3>1, <3>2
    <2>4. m \in Nat /\ (m = 0 \/ m \in 1 .. n)
      BY <1>1, <2>1
    <2> HIDE DEF m
    <2>5. level'[other] = m
      BY <1>1, <2>3, <2>4, SameLevel
    <2> QED  BY <2>5 DEF m
  <1>3. level' = [other \in Names |->
                    IF other = name /\ level[other] = 0 THEN n ELSE level[other]]
    BY <1>2, LevelForm
  <1>4. level' = [level EXCEPT ![name] = IF @ = 0 THEN n ELSE @]
    BY <1>3, LevelForm
  <1> QED  BY <1>1, <1>4 DEF Abstract!Mention
==================================================================================
