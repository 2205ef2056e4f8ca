---------------------------------- MODULE Scope ----------------------------------
(***************************************************************************)
(* The symbol table of the frontend: class Scope of                        *)
(* frontend/include/parser/scope.hpp.                                      *)
(*                                                                         *)
(* scopes_ is the vector of open name tables, the global one first;        *)
(* archived_ keeps every popped table alive, because the AST nodes hold    *)
(* string_views into the tables and no copies of the names.  A table is    *)
(* an unordered_set<string>: its nodes do not move when it grows or when   *)
(* the table itself is moved, so a view is identified by the table and     *)
(* the name.  Tables are numbered in the order in which they are pushed.   *)
(***************************************************************************)
EXTENDS Integers, Sequences

CONSTANT Names    \* the identifiers a program may use

VARIABLES
  scopes_,     \* vector<nametable_t> scopes_: the open tables
  archived_    \* vector<nametable_t> archived_: the popped tables

scopeVars == <<scopes_, archived_>>

EmptyTable(n) == [id |-> n, names |-> {}]

\* The constructor pushes the global table.
ScopeInit == scopes_ = <<EmptyTable(0)>> /\ archived_ = <<>>

FreshTable == Len(scopes_) + Len(archived_)

push == /\ scopes_' = Append(scopes_, EmptyTable(FreshTable))
        /\ UNCHANGED archived_

\* A faulty variant: the popped table is destroyed.
pop_unarchived == /\ scopes_' = SubSeq(scopes_, 1, Len(scopes_) - 1)
                  /\ UNCHANGED archived_

\* The branch that throws on an empty stack is never taken: see
\* EnclosingScopesStayOpen in module Parser.
pop == /\ archived_' = Append(archived_, scopes_[Len(scopes_)])
       /\ scopes_'   = SubSeq(scopes_, 1, Len(scopes_) - 1)

----------------------------------------------------------------------------
(***************************************************************************)
(* lookup searches from the innermost table outwards and returns a view    *)
(* into the table it hits; find is its Boolean form.                       *)
(***************************************************************************)
find(name) == \E i \in DOMAIN scopes_ : name \in scopes_[i].names

IsInnermost(i, name) ==
  /\ name \in scopes_[i].names
  /\ \A j \in DOMAIN scopes_ : name \in scopes_[j].names => j <= i

View(table, name) == [table |-> table.id, name |-> name]

lookup(name) ==
  View(scopes_[CHOOSE i \in DOMAIN scopes_ : IsInnermost(i, name)], name)

\* add_variable declares a name in the innermost table, unless an open
\* table has it already, and returns a view of it (AddedView).
AddedView(name) ==
  IF find(name) THEN lookup(name) ELSE View(scopes_[Len(scopes_)], name)

DeclareIn(i, name) == [scopes_ EXCEPT ![i].names = @ \cup {name}]

\* Faulty variants: only the innermost table is searched; the name is declared
\* in the global table.
add_variable_shadowing(name) ==
  scopes_' = DeclareIn(Len(scopes_), name) /\ UNCHANGED archived_

add_variable_global(name) ==
  /\ scopes_' = IF find(name) THEN scopes_ ELSE DeclareIn(1, name)
  /\ UNCHANGED archived_

add_variable(name) ==
  /\ scopes_' = IF find(name) THEN scopes_ ELSE DeclareIn(Len(scopes_), name)
  /\ UNCHANGED archived_

----------------------------------------------------------------------------
\* A view is alive while its table is open or archived and has the name.
TablesIn(tables) == {tables[i] : i \in DOMAIN tables}

LiveTables == TablesIn(scopes_) \cup TablesIn(archived_)

IsLive(view) ==
  \E t \in LiveTables : t.id = view.table /\ view.name \in t.names

----------------------------------------------------------------------------
(***************************************************************************)
(* The table as its users see it.                                          *)
(***************************************************************************)
Tables == [id : Nat, names : SUBSET Names]

\* A name is in at most one open table: there is no shadowing, and every
\* search that stops at the first hit is exact (scope.hpp:43-46, 59-61).
NoShadowing ==
  \A i, j \in DOMAIN scopes_ :
     scopes_[i].names \cap scopes_[j].names # {} => i = j

\* The level of a table is its place in scopes_, that of a name the level of
\* the table it is found in.
level == [n \in Names |-> IF find(n) THEN CHOOSE i \in DOMAIN scopes_ : IsInnermost(i, n)
                                     ELSE 0]

Abstract == INSTANCE Declarations WITH depth <- Len(scopes_), level <- level
==================================================================================
