------------------------------- MODULE OptionsProofs -------------------------------
(***************************************************************************)
(* Proofs about the option parser: what it has stored argument by argument *)
(* is what the command line says when it is read as a whole.               *)
(*                                                                         *)
(* Role is a recursive function.  That there is one such function and only *)
(* one is part of the invariant, and shown again for each argument.        *)
(***************************************************************************)
EXTENDS Options, SequenceTheorems, TLAPS

\* What an argument is behind one of role r and form f.
RoleBehind(r, f) ==
  IF r = "behind" \/ (r = "own" /\ f = "--") THEN "behind"
  ELSE IF r = "own" /\ f \in {"-o", "-O"} THEN "value"
  ELSE "own"

IsRole(role, args) ==
  role = [k \in 1 .. Len(args) |-> IF k = 1 THEN "own" ELSE RoleBehind(role[k - 1], args[k - 1].form)]

RoleInv == \E role : IsRole(role, argv) /\ \A other : IsRole(other, argv) => other = role

\* The role of the argument that is read next.
NextRole == IF argv = <<>> THEN "own" ELSE RoleBehind(Role[Len(argv)], argv[Len(argv)].form)

\* The name of the option that the next argument is the value of.
Pending == argv[Len(argv)].form

AwaitInv ==
  /\ awaiting = "option" <=> NextRole = "own"
  /\ awaiting = "file" <=> NextRole = "behind"
  /\ awaiting = "output" <=> NextRole = "value" /\ Pending = "-o"
  /\ awaiting = "level" <=> NextRole = "value" /\ Pending = "-O"

InputInv ==
  IF input_file_ = NoText THEN Named = {}
  ELSE \E k \in Named : argv[k].text = input_file_ /\ Named = {k} /\ \A l \in Files : l <= k

OutputInv ==
  /\ \A k \in DOMAIN Outputs : Outputs[k] # NoText
  /\ output_name_ = LastGiven(Outputs)

LevelInv ==
  /\ \A k \in DOMAIN Chosen : Chosen[k] \in Levels
  /\ {optimization_level_} = IF DOMAIN Chosen = {} THEN {DefaultLevel} ELSE LastGiven(Chosen)

KnownInv == \A k \in Places : ~(Role[k] = "own" /\ argv[k].form = "unknown")

OInv ==
  /\ argv \in Seq(Arguments)
  /\ options = "parsing" => RoleInv /\ AwaitInv /\ InputInv /\ OutputInv /\ LevelInv /\ KnownInv
  /\ options \in {"parsed", "failed"} => OptionsAreAsGiven

----------------------------------------------------------------------------
LEMMA RoleIs == Role = CHOOSE role : IsRole(role, argv)
  BY DEF Role, IsRole, RoleBehind, Places

LEMMA RoleIsNext == Role' = CHOOSE role : IsRole(role, argv')
  BY DEF Role, IsRole, RoleBehind, Places

LEMMA RoleDefined ==
  ASSUME RoleInv
  PROVE  IsRole(Role, argv) /\ \A other : IsRole(other, argv) => other = Role
  BY RoleIs DEF RoleInv

\* The next argument and its role.
Reads(arg) ==
  /\ argv \in Seq(Arguments) /\ arg \in Arguments
  /\ RoleInv /\ argv' = Append(argv, arg)

LEMMA ArgvGrows ==
  ASSUME NEW arg, Reads(arg)
  PROVE  /\ Len(argv) \in Nat /\ Len(argv') = Len(argv) + 1 /\ argv' \in Seq(Arguments)
         /\ \A k \in 1 .. Len(argv) : argv'[k] = argv[k]
         /\ argv'[Len(argv) + 1] = arg
         /\ argv = <<>> <=> Len(argv) = 0
  BY EmptySeq, AppendProperties DEF Reads

LEMMA RoleGrows ==
  ASSUME NEW arg, Reads(arg)
  PROVE  /\ RoleInv'
         /\ \A k \in 1 .. Len(argv) : Role'[k] = Role[k]
         /\ Role'[Len(argv) + 1] = NextRole
  <1> DEFINE n   == Len(argv)
             new == [k \in 1 .. n + 1 |-> IF k <= n THEN Role[k] ELSE NextRole]
  <1>1. /\ n \in Nat /\ Len(argv') = n + 1 /\ \A k \in 1 .. n : argv'[k] = argv[k]
        /\ argv = <<>> <=> n = 0
    BY ArgvGrows
  <1>2. IsRole(Role, argv) /\ \A other : IsRole(other, argv) => other = Role
    BY RoleDefined DEF Reads
  <1>3. \A k \in 1 .. n : Role[k] = IF k = 1 THEN "own" ELSE RoleBehind(Role[k - 1], argv[k - 1].form)
    BY <1>2 DEF IsRole
  <1>4. NextRole = IF n = 0 THEN "own" ELSE RoleBehind(Role[n], argv[n].form)
    BY <1>1 DEF NextRole
  <1> HIDE DEF n
  <1>5. DOMAIN new = 1 .. n + 1 /\ (\A k \in 1 .. n : new[k] = Role[k]) /\ new[n + 1] = NextRole
    BY <1>1
  <1>6. IsRole(new, argv')
    <2> DEFINE body == [k \in 1 .. Len(argv') |->
                          IF k = 1 THEN "own" ELSE RoleBehind(new[k - 1], argv'[k - 1].form)]
    <2>1. ASSUME NEW k \in 1 .. n + 1 PROVE new[k] = body[k]
      <3>1. CASE k = 1
        BY <1>1, <1>3, <1>4, <1>5, <3>1
      <3>2. CASE k # 1
        <4>1. k - 1 \in 1 .. n /\ new[k - 1] = Role[k - 1] /\ argv'[k - 1] = argv[k - 1]
          BY <1>1, <1>5, <3>2
        <4>2. new[k] = RoleBehind(Role[k - 1], argv[k - 1].form)
          <5>1. CASE k \in 1 .. n
            BY <1>3, <1>5, <3>2, <5>1
          <5>2. CASE k = n + 1
            BY <1>1, <1>4, <1>5, <4>1, <5>2
          <5> QED  BY <1>1, <5>1, <5>2
        <4> QED  BY <1>1, <3>2, <4>1, <4>2
      <3> QED  BY <3>1, <3>2
    <2>2. new = body
      BY <1>1, <1>5, <2>1
    <2> QED  BY <2>2 DEF IsRole
  <1>7. ASSUME NEW other, IsRole(other, argv') PROVE other = new
    <2> DEFINE rest == [k \in 1 .. n |-> other[k]]
    <2>1. /\ other = [k \in 1 .. n + 1 |-> other[k]]
          /\ \A k \in 1 .. n + 1 :
               other[k] = IF k = 1 THEN "own" ELSE RoleBehind(other[k - 1], argv'[k - 1].form)
      BY <1>1, <1>7 DEF IsRole
    <2>2. IsRole(rest, argv)
      <3> DEFINE body == [k \in 1 .. n |->
                            IF k = 1 THEN "own" ELSE RoleBehind(rest[k - 1], argv[k - 1].form)]
      <3>1. ASSUME NEW k \in 1 .. n PROVE rest[k] = body[k]
        <4>1. k \in 1 .. n + 1 /\ rest[k] = other[k]
          BY <1>1
        <4>2. other[k] = IF k = 1 THEN "own" ELSE RoleBehind(other[k - 1], argv'[k - 1].form)
          BY <2>1, <4>1
        <4>3. CASE k = 1
          BY <4>1, <4>2, <4>3
        <4>4. CASE k # 1
          <5>1. k - 1 \in 1 .. n
            BY <1>1, <4>4
          <5>2. rest[k - 1] = other[k - 1] /\ argv'[k - 1] = argv[k - 1]
            BY <1>1, <5>1
          <5> QED  BY <4>1, <4>2, <4>4, <5>2
        <4> QED  BY <4>3, <4>4
      <3>2. rest = body
        BY <3>1
      <3> QED  BY <3>2 DEF IsRole, n
    <2>3. \A k \in 1 .. n : other[k] = Role[k]
      <3>1. rest = Role
        BY <1>2, <2>2
      <3> QED  BY <3>1
    <2>4. other[n + 1] = NextRole
      <3>1. n + 1 \in 1 .. n + 1 /\ (n + 1) - 1 = n /\ (n # 0 => n \in 1 .. n /\ n + 1 # 1)
        BY <1>1
      <3>2. n # 0 => other[n] = Role[n] /\ argv'[n] = argv[n]
        BY <1>1, <2>3, <3>1
      <3>3. other[n + 1] = IF n + 1 = 1 THEN "own" ELSE RoleBehind(other[n], argv'[n].form)
        BY <2>1, <3>1
      <3> QED  BY <1>1, <1>4, <3>1, <3>2, <3>3
    <2>5. \A k \in 1 .. n + 1 : other[k] = new[k]
      BY <1>1, <1>5, <2>3, <2>4
    <2> QED  BY <2>1, <2>5
  <1> HIDE DEF new
  <1>8. RoleInv'
    BY <1>6, <1>7 DEF RoleInv
  <1>9. Role' = new
    BY <1>6, <1>7, RoleIsNext
  <1> QED  BY <1>5, <1>8, <1>9 DEF n

LEMMA RolesAre ==
  ASSUME argv \in Seq(Arguments), RoleInv
  PROVE  /\ \A k \in 1 .. Len(argv) : Role[k] \in {"own", "behind", "value"}
         /\ Len(argv) >= 1 => Role[1] = "own"
         /\ NextRole \in {"own", "behind", "value"}
         /\ NextRole = "value" => argv # <<>>
  <1>1. \A k \in 1 .. Len(argv) :
           Role[k] = IF k = 1 THEN "own" ELSE RoleBehind(Role[k - 1], argv[k - 1].form)
    BY RoleDefined DEF IsRole
  <1>2. Len(argv) \in Nat
    OBVIOUS
  <1> QED  BY <1>1, <1>2 DEF RoleBehind, NextRole

\* The role behind the argument that is read.
LEMMA NextRoleGrows ==
  ASSUME NEW arg, Reads(arg)
  PROVE  NextRole' = RoleBehind(NextRole, arg.form) /\ Pending' = arg.form
  <1>1. argv' # <<>> /\ Role'[Len(argv')] = NextRole /\ argv'[Len(argv')] = arg
    BY ArgvGrows, RoleGrows
  <1> QED  BY <1>1 DEF NextRole, Pending

----------------------------------------------------------------------------
\* Whether an argument of role r is a file, and whether it gives the value of an
\* option, behind one of form before.
IsFile(r, arg) == r = "behind" \/ (r = "own" /\ arg.form = "file")

Gives(r, before, arg, form, attached) ==
  (r = "value" /\ before = form) \/ (r = "own" /\ arg.form = attached)

LEMMA FilesGrow ==
  ASSUME NEW arg, Reads(arg)
  PROVE  /\ Files \subseteq 1 .. Len(argv) /\ Named \subseteq Files
         /\ Files' = Files \cup (IF IsFile(NextRole, arg) THEN {Len(argv) + 1} ELSE {})
         /\ Named' = Named \cup (IF IsFile(NextRole, arg) /\ arg.text # NoText
                                 THEN {Len(argv) + 1} ELSE {})
  <1> DEFINE n == Len(argv)
  <1>1. /\ n \in Nat /\ Len(argv') = n + 1 /\ \A k \in 1 .. n : argv'[k] = argv[k]
        /\ argv'[n + 1] = arg
    BY ArgvGrows
  <1>2. (\A k \in 1 .. n : Role'[k] = Role[k]) /\ Role'[n + 1] = NextRole
    BY RoleGrows
  <1>3. \A k : k \in Files <=> k \in 1 .. n /\ IsFile(Role[k], argv[k])
    BY DEF Files, Places, IsFile
  <1>4. \A k : k \in Files' <=> k \in 1 .. Len(argv') /\ IsFile(Role'[k], argv'[k])
    BY DEF Files, Places, IsFile
  <1> HIDE DEF n
  <1>5. \A k : k \in 1 .. n + 1 <=> k \in 1 .. n \/ k = n + 1
    BY <1>1
  <1>6. n + 1 \notin 1 .. n
    BY <1>1
  <1>7. \A k : k \in Files' <=> k \in Files \/ (k = n + 1 /\ IsFile(NextRole, arg))
    BY <1>1, <1>2, <1>3, <1>4, <1>5
  <1>8. Files \subseteq 1 .. n /\ Named \subseteq Files
    BY <1>3 DEF Named
  <1>9. \A k : k \in Named' <=> k \in Files' /\ argv'[k].text # NoText
    BY DEF Named
  <1>10. \A k : k \in Named <=> k \in Files /\ argv[k].text # NoText
    BY DEF Named
  <1>11. \A k : k \in Named' <=> k \in Named \/ (k = n + 1 /\ IsFile(NextRole, arg) /\ arg.text # NoText)
    BY <1>1, <1>3, <1>6, <1>7, <1>9, <1>10
  <1> QED  BY <1>7, <1>8, <1>11 DEF n

\* The values of an option: a value is added, and then the last is that one, or
\* they are as before.
LEMMA GivenGrows ==
  ASSUME NEW arg, Reads(arg), NEW form, NEW attached
  PROVE  IF Gives(NextRole, Pending, arg, form, attached)
         THEN LET v == IF NextRole = "value" THEN arg.text ELSE arg.behind
              IN  /\ DOMAIN Given(form, attached)' = DOMAIN Given(form, attached) \cup {Len(argv) + 1}
                  /\ Given(form, attached)'[Len(argv) + 1] = v
                  /\ \A k \in DOMAIN Given(form, attached) :
                        Given(form, attached)'[k] = Given(form, attached)[k]
                  /\ LastGiven(Given(form, attached)') = {v}
         ELSE Given(form, attached)' = Given(form, attached)
  <1> DEFINE n == Len(argv)
             g == Given(form, attached)
             h == Given(form, attached)'
             Has(k) == \/ Role[k] = "value" /\ argv[k - 1].form = form
                       \/ Role[k] = "own" /\ argv[k].form = attached
             HasNext(k) == \/ Role'[k] = "value" /\ argv'[k - 1].form = form
                           \/ Role'[k] = "own" /\ argv'[k].form = attached
             v == IF NextRole = "value" THEN arg.text ELSE arg.behind
             gives == Gives(NextRole, Pending, arg, form, attached)
  <1>1. /\ n \in Nat /\ Len(argv') = n + 1 /\ \A k \in 1 .. n : argv'[k] = argv[k]
        /\ argv'[n + 1] = arg /\ (argv = <<>> <=> n = 0)
    BY ArgvGrows
  <1>2. (\A k \in 1 .. n : Role'[k] = Role[k]) /\ Role'[n + 1] = NextRole
    BY RoleGrows
  <1>3. g = [k \in {k \in 1 .. n : Has(k)} |-> IF Role[k] = "value" THEN argv[k].text ELSE argv[k].behind]
    BY DEF Given, Places
  <1>4. h = [k \in {k \in 1 .. n + 1 : HasNext(k)} |->
               IF Role'[k] = "value" THEN argv'[k].text ELSE argv'[k].behind]
    BY <1>1 DEF Given, Places
  <1>5. ASSUME NEW k \in 1 .. n PROVE Has(k) <=> HasNext(k)
    <2>1. Role[k] = "value" => k # 1
      BY <1>1, RolesAre DEF Reads
    <2>2. k # 1 => k - 1 \in 1 .. n
      BY <1>1
    <2>3. Role[k] = "value" => argv'[k - 1] = argv[k - 1]
      BY <1>1, <2>1, <2>2
    <2> QED  BY <1>1, <1>2, <2>3
  <1>6. HasNext(n + 1) <=> gives
    <2>1. NextRole = "value" => n # 0
      BY <1>1, RolesAre DEF Reads
    <2>2. n # 0 => argv'[n] = argv[n]
      BY <1>1
    <2>3. (n + 1) - 1 = n
      BY <1>1
    <2>4. HasNext(n + 1) <=> \/ NextRole = "value" /\ argv'[n].form = form
                             \/ NextRole = "own" /\ arg.form = attached
      BY <1>1, <1>2, <2>3
    <2> QED  BY <2>1, <2>2, <2>4 DEF Gives, Pending
  <1> HIDE DEF Has, HasNext, gives, n, g, h
  <1>7. \A k : k \in 1 .. n + 1 <=> k \in 1 .. n \/ k = n + 1
    BY <1>1
  <1>8. DOMAIN g = {k \in 1 .. n : Has(k)} /\ DOMAIN h = {k \in 1 .. n + 1 : HasNext(k)}
    BY <1>3, <1>4
  <1>9. DOMAIN h = DOMAIN g \cup (IF gives THEN {n + 1} ELSE {})
    BY <1>5, <1>6, <1>7, <1>8
  <1>10. \A k \in DOMAIN g : k \in DOMAIN h /\ h[k] = g[k]
    <2> SUFFICES ASSUME NEW k \in DOMAIN g PROVE k \in DOMAIN h /\ h[k] = g[k]
      OBVIOUS
    <2>1. k \in 1 .. n /\ k \in DOMAIN h
      BY <1>8, <1>9
    <2>2. Role'[k] = Role[k] /\ argv'[k] = argv[k]
      BY <1>1, <1>2, <2>1
    <2> QED  BY <1>3, <1>4, <1>8, <2>1, <2>2
  <1>11. CASE gives
    <2>1. n + 1 \in DOMAIN h /\ DOMAIN h = DOMAIN g \cup {n + 1}
      BY <1>9, <1>11
    <2>2. h[n + 1] = v
      BY <1>1, <1>2, <1>4, <1>8, <2>1
    <2>3. \A k \in DOMAIN h : k <= n + 1 /\ (k = n + 1 \/ ~(n + 1 <= k))
      BY <1>1, <1>8, <2>1
    <2>4. {k \in DOMAIN h : \A l \in DOMAIN h : l <= k} = {n + 1}
      BY <2>1, <2>3
    <2> HIDE DEF v
    <2>5. LastGiven(h) = {v}
      BY <2>2, <2>4 DEF LastGiven
    <2> QED  BY <1>10, <1>11, <2>1, <2>2, <2>5 DEF gives, v, g, h, n
  <1>12. CASE ~gives
    <2>1. DOMAIN h = DOMAIN g
      BY <1>9, <1>12
    <2>2. h = [k \in DOMAIN h |-> h[k]] /\ g = [k \in DOMAIN g |-> g[k]]
      BY <1>3, <1>4, <1>8
    <2>3. h = g
      BY <1>10, <2>1, <2>2
    <2> QED  BY <1>12, <2>3 DEF gives, g, h
  <1> QED  BY <1>11, <1>12

----------------------------------------------------------------------------
\* An argument that is no file, gives no value or is known changes nothing of what
\* is said of these.
LEMMA InputStays ==
  ASSUME NEW arg, Reads(arg), ~IsFile(NextRole, arg), InputInv, UNCHANGED input_file_
  PROVE  InputInv'
  <1>1. Files' = Files /\ Named' = Named /\ Named \subseteq 1 .. Len(argv)
    BY FilesGrow
  <1>2. \A k \in 1 .. Len(argv) : argv'[k] = argv[k]
    BY ArgvGrows
  <1> QED  BY <1>1, <1>2 DEF InputInv

LEMMA OutputStays ==
  ASSUME NEW arg, Reads(arg), ~Gives(NextRole, Pending, arg, "-o", "-o="), OutputInv,
         UNCHANGED output_name_
  PROVE  OutputInv'
  <1>1. Given("-o", "-o=")' = Given("-o", "-o=")
    BY GivenGrows
  <1>2. Outputs' = Outputs
    BY <1>1 DEF Outputs
  <1> QED  BY <1>2 DEF OutputInv, LastGiven

LEMMA LevelStays ==
  ASSUME NEW arg, Reads(arg), ~Gives(NextRole, Pending, arg, "-O", "-O="), LevelInv,
         UNCHANGED optimization_level_
  PROVE  LevelInv'
  <1>1. Given("-O", "-O=")' = Given("-O", "-O=")
    BY GivenGrows
  <1>2. Chosen' = Chosen
    BY <1>1 DEF Chosen
  <1> QED  BY <1>2 DEF LevelInv, LastGiven

LEMMA KnownStays ==
  ASSUME NEW arg, Reads(arg), ~(NextRole = "own" /\ arg.form = "unknown"), KnownInv
  PROVE  KnownInv'
  <1>1. /\ Len(argv) \in Nat /\ Len(argv') = Len(argv) + 1
        /\ \A k \in 1 .. Len(argv) : argv'[k] = argv[k] /\ Role'[k] = Role[k]
        /\ argv'[Len(argv) + 1] = arg /\ Role'[Len(argv) + 1] = NextRole
    BY ArgvGrows, RoleGrows
  <1>2. \A k \in Places' : k \in Places \/ k = Len(argv) + 1
    BY <1>1 DEF Places
  <1> QED  BY <1>1, <1>2 DEF KnownInv, Places

----------------------------------------------------------------------------
\* The arguments that are files and values.
LEMMA InputRead ==
  ASSUME NEW arg, Reads(arg), IsFile(NextRole, arg), InputInv, options = "parsing",
         SetInput(arg)
  PROVE  (options' = "parsing" /\ InputInv') \/ (options' = "failed" /\ WrongCommandLine')
  <1>1. /\ Len(argv) \in Nat /\ argv'[Len(argv) + 1] = arg
        /\ Files \subseteq 1 .. Len(argv) /\ Named \subseteq Files
        /\ Files' = Files \cup {Len(argv) + 1}
        /\ Named' = Named \cup (IF arg.text # NoText THEN {Len(argv) + 1} ELSE {})
    BY ArgvGrows, FilesGrow
  <1>2. CASE input_file_ = NoText
    <2>1. Named = {} /\ options' = "parsing" /\ input_file_' = arg.text
      BY <1>2 DEF InputInv, SetInput, FailUnless
    <2>2. arg.text = NoText => Named' = {}
      BY <1>1, <2>1
    <2>3. arg.text # NoText => Named' = {Len(argv) + 1}
      BY <1>1, <2>1
    <2>4. \A l \in Files' : l <= Len(argv) + 1
      BY <1>1
    <2>5. InputInv'
      BY <1>1, <2>1, <2>2, <2>3, <2>4 DEF InputInv
    <2> QED  BY <2>1, <2>5
  <1>3. CASE input_file_ # NoText
    <2>1. PICK k : k \in Named
      BY <1>3 DEF InputInv
    <2>2. k \in Named' /\ Len(argv) + 1 \in Files' /\ k < Len(argv) + 1
      BY <1>1, <2>1
    <2>3. WrongCommandLine'
      BY <2>2 DEF WrongCommandLine
    <2> QED  BY <1>3, <2>3 DEF SetInput, FailUnless
  <1> QED  BY <1>2, <1>3

LEMMA OutputRead ==
  ASSUME NEW arg, Reads(arg), Gives(NextRole, Pending, arg, "-o", "-o="), OutputInv,
         options = "parsing", SetOutput(IF NextRole = "value" THEN arg.text ELSE arg.behind)
  PROVE  (options' = "parsing" /\ OutputInv') \/ (options' = "failed" /\ WrongCommandLine')
  <1> DEFINE v == IF NextRole = "value" THEN arg.text ELSE arg.behind
             n == Len(argv) + 1
  <1>1. /\ DOMAIN Outputs' = DOMAIN Outputs \cup {n} /\ Outputs'[n] = v
        /\ \A k \in DOMAIN Outputs : Outputs'[k] = Outputs[k]
        /\ LastGiven(Outputs') = {v}
    <2>1. /\ DOMAIN Given("-o", "-o=")' = DOMAIN Given("-o", "-o=") \cup {n}
          /\ Given("-o", "-o=")'[n] = v
          /\ \A k \in DOMAIN Given("-o", "-o=") : Given("-o", "-o=")'[k] = Given("-o", "-o=")[k]
          /\ LastGiven(Given("-o", "-o=")') = {v}
      BY GivenGrows
    <2> QED  BY <2>1 DEF Outputs
  <1>2. SetOutput(v)
    OBVIOUS
  <1> HIDE DEF v, n
  <1>3. LastGiven(Outputs)' = {v}
    BY <1>1 DEF LastGiven
  <1>4. CASE v # NoText
    <2>1. options' = "parsing" /\ output_name_' = {v}
      BY <1>2, <1>4 DEF SetOutput, FailUnless
    <2>2. OutputInv'
      BY <1>1, <1>3, <1>4, <2>1 DEF OutputInv
    <2> QED  BY <2>1, <2>2
  <1>5. CASE v = NoText
    <2>1. WrongCommandLine'
      BY <1>1, <1>5 DEF WrongCommandLine
    <2> QED  BY <1>2, <1>5, <2>1 DEF SetOutput, FailUnless
  <1> QED  BY <1>4, <1>5

LEMMA LevelRead ==
  ASSUME NEW arg, Reads(arg), Gives(NextRole, Pending, arg, "-O", "-O="), LevelInv,
         options = "parsing", SetLevel(IF NextRole = "value" THEN arg.text ELSE arg.behind)
  PROVE  (options' = "parsing" /\ LevelInv') \/ (options' = "failed" /\ WrongCommandLine')
  <1> DEFINE v == IF NextRole = "value" THEN arg.text ELSE arg.behind
             n == Len(argv) + 1
  <1>1. /\ DOMAIN Chosen' = DOMAIN Chosen \cup {n} /\ Chosen'[n] = v
        /\ \A k \in DOMAIN Chosen : Chosen'[k] = Chosen[k]
        /\ LastGiven(Chosen') = {v}
    <2>1. /\ DOMAIN Given("-O", "-O=")' = DOMAIN Given("-O", "-O=") \cup {n}
          /\ Given("-O", "-O=")'[n] = v
          /\ \A k \in DOMAIN Given("-O", "-O=") : Given("-O", "-O=")'[k] = Given("-O", "-O=")[k]
          /\ LastGiven(Given("-O", "-O=")') = {v}
      BY GivenGrows
    <2> QED  BY <2>1 DEF Chosen
  <1>2. SetLevel(v)
    OBVIOUS
  <1> HIDE DEF v, n
  <1>3. LastGiven(Chosen)' = {v}
    BY <1>1 DEF LastGiven
  <1>4. CASE v \in Levels
    <2>1. options' = "parsing" /\ optimization_level_' = v
      BY <1>2, <1>4 DEF SetLevel, FailUnless
    <2>2. LevelInv'
      BY <1>1, <1>3, <1>4, <2>1 DEF LevelInv
    <2> QED  BY <2>1, <2>2
  <1>5. CASE v \notin Levels
    <2>1. WrongCommandLine'
      BY <1>1, <1>5 DEF WrongCommandLine
    <2> QED  BY <1>2, <1>5, <2>1 DEF SetLevel, FailUnless
  <1> QED  BY <1>4, <1>5

----------------------------------------------------------------------------
\* The arguments that are options and nothing else.
LEMMA OptionRead ==
  ASSUME OInv, NEW arg \in Arguments,
         EndOfOptions(arg) \/ OptionOutput(arg) \/ OptionLevel(arg)
  PROVE  OInv'
  <1> USE DEF EndOfOptions, OptionOutput, OptionLevel, TakeOption, Take, Await
  <1>1. /\ options = "parsing" /\ options' = "parsing" /\ awaiting = "option"
        /\ UNCHANGED <<input_file_, output_name_, optimization_level_>>
        /\ arg.form \in {"--", "-o", "-O"}
        /\ awaiting' = CASE arg.form = "--" -> "file" [] arg.form = "-o" -> "output"
                         [] arg.form = "-O" -> "level"
    OBVIOUS
  <1>2. Reads(arg) /\ AwaitInv /\ InputInv /\ OutputInv /\ LevelInv /\ KnownInv
    BY <1>1 DEF OInv, Reads
  <1>3. NextRole = "own"
    BY <1>1, <1>2 DEF AwaitInv
  <1>4. NextRole' = RoleBehind("own", arg.form) /\ Pending' = arg.form
    BY <1>2, <1>3, NextRoleGrows
  <1>5. AwaitInv'
    BY <1>1, <1>4 DEF AwaitInv, RoleBehind
  <1>6. /\ ~IsFile(NextRole, arg) /\ ~Gives(NextRole, Pending, arg, "-o", "-o=")
        /\ ~Gives(NextRole, Pending, arg, "-O", "-O=") /\ arg.form # "unknown"
    BY <1>1, <1>3 DEF IsFile, Gives
  <1>7. InputInv' /\ OutputInv' /\ LevelInv' /\ KnownInv'
    BY <1>1, <1>2, <1>6, InputStays, OutputStays, LevelStays, KnownStays
  <1> QED  BY <1>1, <1>2, <1>5, <1>7, ArgvGrows, RoleGrows DEF OInv

\* Files, be they behind "--" or not.
LEMMA FileRead ==
  ASSUME OInv, NEW arg \in Arguments, InputFile(arg) \/ FileBehind(arg)
  PROVE  OInv'
  <1> USE DEF InputFile, FileBehind, TakeOption, Take
  <1>1. /\ options = "parsing" /\ SetInput(arg)
        /\ UNCHANGED <<awaiting, output_name_, optimization_level_>>
        /\ (awaiting = "option" /\ arg.form = "file") \/ awaiting = "file"
    BY DEF SetInput
  <1>2. Reads(arg) /\ AwaitInv /\ InputInv /\ OutputInv /\ LevelInv /\ KnownInv
    BY <1>1 DEF OInv, Reads
  <1>3. (NextRole = "own" /\ arg.form = "file") \/ NextRole = "behind"
    BY <1>1, <1>2 DEF AwaitInv
  <1>4. NextRole' = NextRole
    BY <1>2, <1>3, NextRoleGrows DEF RoleBehind
  <1>5. AwaitInv'
    BY <1>1, <1>2, <1>3, <1>4 DEF AwaitInv
  <1>6. /\ IsFile(NextRole, arg) /\ ~Gives(NextRole, Pending, arg, "-o", "-o=")
        /\ ~Gives(NextRole, Pending, arg, "-O", "-O=")
        /\ ~(NextRole = "own" /\ arg.form = "unknown")
    BY <1>3 DEF IsFile, Gives
  <1>7. OutputInv' /\ LevelInv' /\ KnownInv'
    BY <1>1, <1>2, <1>6, OutputStays, LevelStays, KnownStays
  <1>8. (options' = "parsing" /\ InputInv') \/ (options' = "failed" /\ WrongCommandLine')
    BY <1>1, <1>2, <1>6, InputRead
  <1>9. options' = "failed" /\ WrongCommandLine' => OptionsAreAsGiven'
    BY DEF OptionsAreAsGiven
  <1> QED  BY <1>2, <1>5, <1>7, <1>8, <1>9, ArgvGrows, RoleGrows DEF OInv

\* The values of -o, behind it or in the same argument.
LEMMA OutputGiven ==
  ASSUME OInv, NEW arg \in Arguments, AttachedOutput(arg) \/ OutputValue(arg)
  PROVE  OInv'
  <1> USE DEF AttachedOutput, OutputValue, TakeOption, Take
  <1>1. /\ options = "parsing"
        /\ UNCHANGED <<input_file_, optimization_level_>> /\ awaiting' = "option"
        /\ \/ awaiting = "option" /\ arg.form = "-o=" /\ SetOutput(arg.behind)
           \/ awaiting = "output" /\ SetOutput(arg.text)
    BY DEF SetOutput
  <1>2. Reads(arg) /\ AwaitInv /\ InputInv /\ OutputInv /\ LevelInv /\ KnownInv
    BY <1>1 DEF OInv, Reads
  <1>3. /\ (NextRole = "own" /\ arg.form = "-o=") \/ (NextRole = "value" /\ Pending = "-o")
        /\ SetOutput(IF NextRole = "value" THEN arg.text ELSE arg.behind)
    BY <1>1, <1>2 DEF AwaitInv
  <1>4. NextRole' = "own"
    BY <1>2, <1>3, NextRoleGrows DEF RoleBehind
  <1>5. AwaitInv'
    BY <1>1, <1>4 DEF AwaitInv
  <1>6. /\ ~IsFile(NextRole, arg) /\ Gives(NextRole, Pending, arg, "-o", "-o=")
        /\ ~Gives(NextRole, Pending, arg, "-O", "-O=")
        /\ ~(NextRole = "own" /\ arg.form = "unknown")
    BY <1>3 DEF IsFile, Gives
  <1>7. InputInv' /\ LevelInv' /\ KnownInv'
    BY <1>1, <1>2, <1>6, InputStays, LevelStays, KnownStays
  <1>8. (options' = "parsing" /\ OutputInv') \/ (options' = "failed" /\ WrongCommandLine')
    BY <1>1, <1>2, <1>3, <1>6, OutputRead
  <1>9. options' = "failed" /\ WrongCommandLine' => OptionsAreAsGiven'
    BY DEF OptionsAreAsGiven
  <1> QED  BY <1>2, <1>5, <1>7, <1>8, <1>9, ArgvGrows, RoleGrows DEF OInv

LEMMA LevelGiven ==
  ASSUME OInv, NEW arg \in Arguments, AttachedLevel(arg) \/ LevelValue(arg)
  PROVE  OInv'
  <1> USE DEF AttachedLevel, LevelValue, TakeOption, Take
  <1>1. /\ options = "parsing"
        /\ UNCHANGED <<input_file_, output_name_>> /\ awaiting' = "option"
        /\ \/ awaiting = "option" /\ arg.form = "-O=" /\ SetLevel(arg.behind)
           \/ awaiting = "level" /\ SetLevel(arg.text)
    BY DEF SetLevel
  <1>2. Reads(arg) /\ AwaitInv /\ InputInv /\ OutputInv /\ LevelInv /\ KnownInv
    BY <1>1 DEF OInv, Reads
  <1>3. /\ (NextRole = "own" /\ arg.form = "-O=") \/ (NextRole = "value" /\ Pending = "-O")
        /\ SetLevel(IF NextRole = "value" THEN arg.text ELSE arg.behind)
    BY <1>1, <1>2 DEF AwaitInv
  <1>4. NextRole' = "own"
    BY <1>2, <1>3, NextRoleGrows DEF RoleBehind
  <1>5. AwaitInv'
    BY <1>1, <1>4 DEF AwaitInv
  <1>6. /\ ~IsFile(NextRole, arg) /\ Gives(NextRole, Pending, arg, "-O", "-O=")
        /\ ~Gives(NextRole, Pending, arg, "-o", "-o=")
        /\ ~(NextRole = "own" /\ arg.form = "unknown")
    BY <1>3 DEF IsFile, Gives
  <1>7. InputInv' /\ OutputInv' /\ KnownInv'
    BY <1>1, <1>2, <1>6, InputStays, OutputStays, KnownStays
  <1>8. (options' = "parsing" /\ LevelInv') \/ (options' = "failed" /\ WrongCommandLine')
    BY <1>1, <1>2, <1>3, <1>6, LevelRead
  <1>9. options' = "failed" /\ WrongCommandLine' => OptionsAreAsGiven'
    BY DEF OptionsAreAsGiven
  <1> QED  BY <1>2, <1>5, <1>7, <1>8, <1>9, ArgvGrows, RoleGrows DEF OInv

LEMMA UnknownRead ==
  ASSUME OInv, NEW arg \in Arguments, UnknownOption(arg)
  PROVE  OInv'
  <1>1. /\ options = "parsing" /\ awaiting = "option" /\ arg.form = "unknown"
        /\ options' = "failed"
    BY DEF UnknownOption, TakeOption, Take
  <1>2. Reads(arg) /\ NextRole = "own"
    BY <1>1 DEF OInv, Reads, AwaitInv, UnknownOption, TakeOption, Take
  <1>3. /\ Len(argv) + 1 \in Places' /\ Role'[Len(argv) + 1] = "own"
        /\ argv'[Len(argv) + 1].form = "unknown"
    BY <1>1, <1>2, ArgvGrows, RoleGrows DEF Places
  <1>4. WrongCommandLine'
    BY <1>3 DEF WrongCommandLine
  <1> QED  BY <1>1, <1>2, <1>4, ArgvGrows DEF OInv, OptionsAreAsGiven

\* The end of the command line.
LEMMA EndRead ==
  ASSUME OInv, EndOfArguments
  PROVE  OInv'
  <1>1. /\ options = "parsing"
        /\ options' = IF awaiting \in {"output", "level"} \/ input_file_ = NoText
                      THEN "failed" ELSE "parsed"
        /\ UNCHANGED <<argv, awaiting, input_file_, output_name_, optimization_level_>>
    BY DEF EndOfArguments
  <1>2. /\ argv \in Seq(Arguments) /\ RoleInv
        /\ AwaitInv /\ InputInv /\ OutputInv /\ LevelInv /\ KnownInv
    BY <1>1 DEF OInv
  <1>3. NextRole = "value" <=> /\ argv # <<>> /\ Role[Len(argv)] = "own"
                               /\ argv[Len(argv)].form \in {"-o", "-O"}
    BY DEF NextRole, RoleBehind
  <1>4. awaiting \in {"output", "level"} <=> NextRole = "value"
    <2>1. NextRole = "value" => Pending \in {"-o", "-O"}
      BY <1>3 DEF Pending
    <2> QED  BY <1>2, <2>1 DEF AwaitInv
  <1>5. WrongCommandLine <=> awaiting \in {"output", "level"} \/ input_file_ = NoText
    <2>1. ASSUME input_file_ # NoText PROVE Named # {} /\ ~\E k \in Named, l \in Files : k < l
      <3>1. PICK k \in Named : Named = {k} /\ \A l \in Files : l <= k
        BY <1>2, <2>1 DEF InputInv
      <3>2. Named \subseteq Nat /\ Files \subseteq Nat
        BY <1>2 DEF Named, Files, Places
      <3> QED  BY <3>1, <3>2
    <2>2. input_file_ = NoText => Named = {}
      BY <1>2 DEF InputInv
    <2> QED  BY <1>2, <1>3, <1>4, <2>1, <2>2 DEF WrongCommandLine, OutputInv, LevelInv, KnownInv
  <1>6. OptionsAreAsGiven'
    <2>1. UNCHANGED WrongCommandLine
      BY <1>1 DEF WrongCommandLine, Named, Files, Outputs, Chosen, Given, Role, Places
    <2>2. options' = "failed" => WrongCommandLine'
      BY <1>1, <1>5, <2>1
    <2>3. ASSUME options' = "parsed"
          PROVE  /\ ~WrongCommandLine' /\ \A k \in Named : input_file_ = argv[k].text
                 /\ output_name_ = LastGiven(Outputs)
                 /\ {optimization_level_} = IF DOMAIN Chosen = {} THEN {DefaultLevel} ELSE LastGiven(Chosen)
      <3>1. input_file_ # NoText
        BY <1>1, <2>3
      <3> QED  BY <1>1, <1>2, <1>5, <2>1, <2>3, <3>1 DEF InputInv, OutputInv, LevelInv
    <2>4. UNCHANGED <<Named, LastGiven(Outputs), Chosen, LastGiven(Chosen)>>
      BY <1>1 DEF Named, Files, Outputs, Chosen, Given, Role, Places, LastGiven
    <2> QED  BY <1>1, <2>2, <2>3, <2>4 DEF OptionsAreAsGiven
  <1> QED  BY <1>1, <1>2, <1>6 DEF OInv

----------------------------------------------------------------------------
LEMMA OptionsStart ==
  OptionsInit => OInv
  <1> SUFFICES ASSUME OptionsInit PROVE OInv
    OBVIOUS
  <1>1. /\ argv = <<>> /\ Len(argv) = 0 /\ Places = {} /\ awaiting = "option" /\ options = "parsing"
        /\ input_file_ = NoText /\ output_name_ = {} /\ optimization_level_ = DefaultLevel
    BY DEF OptionsInit, Places
  <1>2. RoleInv
    <2>1. \A role : IsRole(role, argv) <=>
            role = [k \in {} |-> IF k = 1 THEN "own" ELSE RoleBehind(role[k - 1], argv[k - 1].form)]
      BY <1>1 DEF IsRole, Places
    <2>2. \A f, g : [k \in {} |-> f[k]] = [k \in {} |-> g[k]]
      OBVIOUS
    <2>3. \E role : IsRole(role, argv)
      <3> DEFINE none == [k \in {} |-> "own"]
      <3>1. IsRole(none, argv)
        BY <2>1
      <3> QED  BY <3>1
    <2>4. \A role, other : IsRole(role, argv) /\ IsRole(other, argv) => other = role
      BY <2>1
    <2> QED  BY <2>3, <2>4 DEF RoleInv
  <1>3. AwaitInv
    BY <1>1 DEF AwaitInv, NextRole
  <1>4. InputInv /\ KnownInv
    BY <1>1 DEF InputInv, KnownInv, Named, Files
  <1>5. OutputInv /\ LevelInv
    <2>1. DOMAIN Outputs = {} /\ DOMAIN Chosen = {}
      BY <1>1 DEF Outputs, Chosen, Given
    <2>2. LastGiven(Outputs) = {}
      BY <2>1 DEF LastGiven
    <2> QED  BY <1>1, <2>1, <2>2 DEF OutputInv, LevelInv
  <1> QED  BY <1>1, <1>2, <1>3, <1>4, <1>5 DEF OInv

\* Every argument and the end of the command line keep the invariant.
LEMMA OptionsStep ==
  ASSUME OInv, OptionsNext
  PROVE  OInv'
  <1>1. CASE EndOfArguments
    BY <1>1, EndRead
  <1>2. ASSUME NEW arg \in Arguments,
               \/ EndOfOptions(arg) \/ OptionOutput(arg) \/ OptionLevel(arg)
               \/ AttachedOutput(arg) \/ AttachedLevel(arg) \/ InputFile(arg) \/ UnknownOption(arg)
               \/ OutputValue(arg) \/ LevelValue(arg) \/ FileBehind(arg)
        PROVE  OInv'
    BY <1>2, OptionRead, FileRead, OutputGiven, LevelGiven, UnknownRead
  <1> QED  BY <1>1, <1>2 DEF OptionsNext

LEMMA OptionsStay ==
  ASSUME OInv, UNCHANGED optionVars
  PROVE  OInv'
  <1>1. UNCHANGED <<argv, awaiting, input_file_, output_name_, optimization_level_, options>>
    BY DEF optionVars
  <1>2. UNCHANGED <<Places, Role>>
    BY <1>1 DEF Places, Role
  <1>3. UNCHANGED <<Files, Named>>
    BY <1>1, <1>2 DEF Files, Named
  <1>4. UNCHANGED <<Outputs, Chosen>>
    BY <1>1, <1>2 DEF Outputs, Chosen, Given
  <1>5. UNCHANGED <<LastGiven(Outputs), LastGiven(Chosen)>>
    BY <1>4 DEF LastGiven
  <1>6. UNCHANGED <<NextRole, Pending>>
    BY <1>1, <1>2 DEF NextRole, Pending
  <1>7. RoleInv => RoleInv'
    BY <1>1 DEF RoleInv, IsRole
  <1>8. AwaitInv => AwaitInv'
    BY <1>1, <1>6 DEF AwaitInv
  <1>9. InputInv => InputInv'
    BY <1>1, <1>3 DEF InputInv
  <1>10. OutputInv => OutputInv'
    BY <1>1, <1>4, <1>5 DEF OutputInv
  <1>11. LevelInv => LevelInv'
    BY <1>1, <1>4, <1>5 DEF LevelInv
  <1>12. KnownInv => KnownInv'
    BY <1>1, <1>2 DEF KnownInv
  <1>13. UNCHANGED WrongCommandLine
    BY <1>1, <1>2, <1>3, <1>4 DEF WrongCommandLine
  <1>14. OptionsAreAsGiven => OptionsAreAsGiven'
    BY <1>1, <1>3, <1>4, <1>5, <1>13 DEF OptionsAreAsGiven
  <1> QED  BY <1>1, <1>7, <1>8, <1>9, <1>10, <1>11, <1>12, <1>14 DEF OInv

\* What the parser of the options has when the command line is read is what it says.
\* Main has the theorem for the whole program (OptionsGiven).
THEOREM OptionsAreRead == OptionsInit /\ [][OptionsNext]_optionVars => []OptionsAreAsGiven
  <1>1. OInv /\ [OptionsNext]_optionVars => OInv'
    BY OptionsStep, OptionsStay
  <1>2. OInv => OptionsAreAsGiven
    BY DEF OInv, OptionsAreAsGiven
  <1> QED  BY <1>1, <1>2, OptionsStart, PTL
==================================================================================
