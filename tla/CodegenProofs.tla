------------------------------ MODULE CodegenProofs ------------------------------
(***************************************************************************)
(* Proofs about the code generator, for every tree the parser accepts: a   *)
(* name is always found, and what is made goes to the function under way.  *)
(*                                                                         *)
(* The invariant looks ahead along work.  The context of a step is what    *)
(* will be open when it is done: the function under way, and how many      *)
(* tables of the parser and of the generator.  It is known beforehand,     *)
(* because what a step opens the steps that take its place close again.    *)
(***************************************************************************)
EXTENDS Codegen, ScopeProofs, FiniteSetTheorems

BlockType  == [func : Nat, ends : Nat, open : BOOLEAN]
AllocaType == [name : Names \cup {InputVar}, func : Nat]

PlainOps == {"expr", "stmts", "block", "params", "args", "emit", "fold", "return",
             "loop", "end_block", "end_program"}

Steps == [op : PlainOps] \cup [op : {"if"}, els : BOOLEAN]
         \cup [op : {"assign"}, name : Names] \cup [op : {"name"}, name : Names \cup {InputVar}]
         \cup [op : {"join", "repeat"}, block : Nat]
         \cup [op : {"end_func"}, func : Nat, block : Nat]

TypeInv ==
  /\ work \in Seq(Steps)
  /\ ScopeInv
  /\ scope_stack_ \in Seq(SUBSET AllocaType)
  /\ functions_ \in [Names -> Nat]
  /\ current_function_ \in Nat
  /\ blocks \in Seq(BlockType) /\ builder_ \in 1 .. Len(blocks)

----------------------------------------------------------------------------
Context == [func : Nat, tables : Nat \ {0}, allocas : Nat \ {0}]

Now == [func |-> current_function_, tables |-> Len(scopes_), allocas |-> Len(scope_stack_)]

\* The context behind a step that is done in context c.
Behind(s, c) ==
  IF s.op = "end_func"
  THEN [func |-> s.func, tables |-> c.tables - 1, allocas |-> c.allocas - 1]
  ELSE IF s.op = "end_block"
  THEN [func |-> c.func, tables |-> c.tables - 1, allocas |-> c.allocas]
  ELSE c

\* The insert block that a step moves to is one of the function that is under way
\* behind it, and a function that is still to be declared has its name.
Placed(s, c, bs, fs) ==
  /\ s.op \in {"join", "repeat"} => s.block \in 1 .. Len(bs) /\ bs[s.block].func = c.func
  /\ s.op = "end_func" => s.block \in 1 .. Len(bs) /\ bs[s.block].func = s.func
  /\ s.op = "name" /\ s.name # InputVar => fs[s.name] # 0

\* What the parser finds in context c the generator finds, too.
Resolves(c, fs, sc, ss) ==
  \A q \in 1 .. c.tables : \A n \in sc[q].names :
     fs[n] # 0 \/ \E k \in 1 .. c.allocas : \E a \in ss[k] : a.name = n

\* Tables are closed from the top, and those of the generator with one of the
\* parser's.
Within(d, c) ==
  d.tables <= c.tables /\ d.allocas <= c.allocas /\ (d.tables = c.tables => d.allocas = c.allocas)

\* ctx are the contexts along w.
Along(w, ctx, c, bs, fs) ==
  /\ ctx \in [1 .. Len(w) + 1 -> Context]
  /\ ctx[1] = c
  /\ \A i \in 1 .. Len(w) : ctx[i + 1] = Behind(w[i], ctx[i]) /\ Placed(w[i], ctx[i], bs, fs)

Good(ctx, c, fs, sc, ss) ==
  \A i \in DOMAIN ctx : Within(ctx[i], c) /\ Resolves(ctx[i], fs, sc, ss)

\* Every context along w is within those before it.
Ordered(ctx) == \A i, j \in DOMAIN ctx : i <= j => Within(ctx[j], ctx[i])

Chain(w, c, bs, fs, sc, ss) ==
  \E ctx : Along(w, ctx, c, bs, fs) /\ Ordered(ctx) /\ Good(ctx, c, fs, sc, ss)

CInv ==
  /\ TypeInv
  /\ thrown.what # "undeclared"
  /\ blocks[builder_].func = current_function_
  /\ Chain(work, Now, blocks, functions_, scopes_, scope_stack_)

----------------------------------------------------------------------------
\* The first step of a chain done, the rest is one.
LEMMA Consume ==
  ASSUME NEW w \in Seq(Steps), w # <<>>, NEW c, NEW bs, NEW fs, NEW sc, NEW ss,
         Chain(w, c, bs, fs, sc, ss)
  PROVE  /\ Chain(Tail(w), Behind(Head(w), c), bs, fs, sc, ss)
         /\ Placed(Head(w), c, bs, fs)
         /\ c \in Context /\ Behind(Head(w), c) \in Context
         /\ Resolves(c, fs, sc, ss)
  <1>1. PICK ctx : Along(w, ctx, c, bs, fs) /\ Ordered(ctx) /\ Good(ctx, c, fs, sc, ss)
    BY DEF Chain
  <1>2. Len(w) \in Nat \ {0} /\ Head(w) = w[1] /\ Tail(w) \in Seq(Steps)
        /\ Len(Tail(w)) = Len(w) - 1 /\ \A i \in 1 .. Len(w) - 1 : Tail(w)[i] = w[i + 1]
    BY EmptySeq, HeadTailProperties
  <1> DEFINE rest == [i \in 1 .. Len(w) |-> ctx[i + 1]]
             d    == Behind(Head(w), c)
  <1>3. c \in Context /\ Placed(Head(w), c, bs, fs) /\ d = ctx[2] /\ d \in Context
    BY <1>1, <1>2 DEF Along
  <1>4. Resolves(c, fs, sc, ss)
    BY <1>1, <1>2 DEF Good, Along
  <1>5. Along(Tail(w), rest, d, bs, fs)
    <2>1. rest \in [1 .. Len(Tail(w)) + 1 -> Context] /\ rest[1] = d
      BY <1>1, <1>2, <1>3 DEF Along
    <2>2. ASSUME NEW i \in 1 .. Len(Tail(w))
          PROVE  rest[i + 1] = Behind(Tail(w)[i], rest[i]) /\ Placed(Tail(w)[i], rest[i], bs, fs)
      <3>1. i + 1 \in 1 .. Len(w) /\ Tail(w)[i] = w[i + 1] /\ rest[i] = ctx[i + 1]
            /\ rest[i + 1] = ctx[(i + 1) + 1]
        BY <1>2
      <3> QED  BY <3>1, <1>1 DEF Along
    <2> QED  BY <2>1, <2>2 DEF Along
  <1>6. Ordered(rest) /\ Good(rest, d, fs, sc, ss)
    <2>1. DOMAIN ctx = 1 .. Len(w) + 1 /\ DOMAIN rest = 1 .. Len(w)
      BY <1>1 DEF Along
    <2>2. \A i \in DOMAIN rest : i + 1 \in DOMAIN ctx /\ 2 <= i + 1 /\ rest[i] = ctx[i + 1]
      BY <2>1, <1>2
    <2>3. Ordered(rest)
      <3> SUFFICES ASSUME NEW i \in DOMAIN rest, NEW j \in DOMAIN rest, i <= j
                   PROVE  Within(rest[j], rest[i])
        BY DEF Ordered
      <3>1. i + 1 <= j + 1
        BY <2>1
      <3> QED  BY <3>1, <2>2, <1>1 DEF Ordered
    <2>4. Good(rest, d, fs, sc, ss)
      <3>1. 2 \in DOMAIN ctx
        BY <2>1, <1>2
      <3> QED  BY <3>1, <2>2, <1>1, <1>3 DEF Good, Ordered
    <2> QED  BY <2>3, <2>4
  <1> HIDE DEF rest, d
  <1> QED  BY <1>3, <1>4, <1>5, <1>6 DEF Chain, d

\* A step before a chain.
LEMMA PrependEnd ==
  ASSUME NEW t \in Seq(Steps), NEW s \in Steps, NEW c \in Context,
         NEW bs, NEW fs, NEW sc, NEW ss,
         Chain(t, Behind(s, c), bs, fs, sc, ss), Placed(s, c, bs, fs), Resolves(c, fs, sc, ss)
  PROVE  Chain(<<s>> \o t, c, bs, fs, sc, ss)
  <1> DEFINE d == Behind(s, c)
             w == <<s>> \o t
  <1>1. PICK ctx : Along(t, ctx, d, bs, fs) /\ Ordered(ctx) /\ Good(ctx, d, fs, sc, ss)
    BY DEF Chain
  <1>2. Len(t) \in Nat /\ Len(w) = Len(t) + 1 /\ w[1] = s /\ \A i \in 1 .. Len(t) : w[i + 1] = t[i]
    OBVIOUS
  <1> DEFINE all == [i \in 1 .. Len(w) + 1 |-> IF i = 1 THEN c ELSE ctx[i - 1]]
  <1>3. d \in Context /\ ctx[1] = d /\ DOMAIN ctx = 1 .. Len(t) + 1
    BY <1>1, <1>2 DEF Along
  <1>4. Within(d, c) /\ Within(c, c)
    BY <1>3 DEF Within, Context, Behind
  <1>5. all[1] = c /\ DOMAIN all = 1 .. Len(t) + 2
        /\ \A i \in 1 .. Len(t) + 1 : all[i + 1] = ctx[i]
    BY <1>2
  <1>6. Along(w, all, c, bs, fs)
    <2>1. all \in [1 .. Len(w) + 1 -> Context]
      BY <1>1, <1>2 DEF Along
    <2>2. ASSUME NEW i \in 1 .. Len(w)
          PROVE  all[i + 1] = Behind(w[i], all[i]) /\ Placed(w[i], all[i], bs, fs)
      <3>1. CASE i = 1
        BY <3>1, <1>2, <1>3, <1>5
      <3>2. CASE i # 1
        <4>1. PICK k \in 1 .. Len(t) : i = k + 1
          BY <3>2, <1>2
        <4>2. w[i] = t[k] /\ all[i] = ctx[k] /\ all[i + 1] = ctx[k + 1]
          BY <4>1, <1>2, <1>5
        <4> QED  BY <4>2, <1>1 DEF Along
      <3> QED  BY <3>1, <3>2
    <2> QED  BY <2>1, <2>2, <1>5 DEF Along
  <1>7. \A i \in DOMAIN all : i = 1 \/ \E k \in DOMAIN ctx : i = k + 1 /\ all[i] = ctx[k]
    <2> SUFFICES ASSUME NEW i \in DOMAIN all, i # 1
                 PROVE  \E k \in DOMAIN ctx : i = k + 1 /\ all[i] = ctx[k]
      OBVIOUS
    <2>1. i - 1 \in DOMAIN ctx /\ i = (i - 1) + 1
      BY <1>3, <1>5, <1>2
    <2> QED  BY <2>1, <1>3, <1>5
  <1>8. ctx \in [1 .. Len(t) + 1 -> Context]
    BY <1>1 DEF Along
  <1>9. \A k \in DOMAIN ctx : Within(ctx[k], c) /\ Resolves(ctx[k], fs, sc, ss)
    <2> SUFFICES ASSUME NEW k \in DOMAIN ctx PROVE Within(ctx[k], c) /\ Resolves(ctx[k], fs, sc, ss)
      OBVIOUS
    <2>1. Within(ctx[k], d) /\ Resolves(ctx[k], fs, sc, ss)
      BY <1>1 DEF Good
    <2>2. ctx[k] \in Context
      BY <1>8
    <2>3. Within(ctx[k], c)
      BY <2>1, <2>2, <1>4, <1>3 DEF Within, Context
    <2> QED  BY <2>1, <2>3
  <1>10. Good(all, c, fs, sc, ss)
    BY <1>4, <1>5, <1>7, <1>9 DEF Good
  <1>11. Ordered(all)
    <2> SUFFICES ASSUME NEW i \in DOMAIN all, NEW j \in DOMAIN all, i <= j
                 PROVE  Within(all[j], all[i])
      BY DEF Ordered
    <2>1. CASE i = 1
      BY <2>1, <1>10, <1>5 DEF Good
    <2>2. CASE i # 1
      <3>1. PICK k \in DOMAIN ctx : i = k + 1 /\ all[i] = ctx[k]
        BY <2>2, <1>7
      <3>2. j # 1
        BY <3>1, <2>2, <1>3, <1>5
      <3>3. PICK l \in DOMAIN ctx : j = l + 1 /\ all[j] = ctx[l]
        BY <3>2, <1>7
      <3>4. k <= l
        BY <3>1, <3>3, <1>3
      <3> QED  BY <3>1, <3>3, <3>4, <1>1 DEF Ordered
    <2> QED  BY <2>1, <2>2
  <1> HIDE DEF all, w
  <1> QED  BY <1>6, <1>10, <1>11 DEF Chain, w

\* Steps that change no context before a chain.
LEMMA PrependSame ==
  ASSUME NEW t \in Seq(Steps), NEW steps \in Seq(Steps), NEW c \in Context,
         NEW bs, NEW fs, NEW sc, NEW ss,
         Chain(t, c, bs, fs, sc, ss), Resolves(c, fs, sc, ss),
         \A i \in 1 .. Len(steps) : Behind(steps[i], c) = c /\ Placed(steps[i], c, bs, fs)
  PROVE  Chain(steps \o t, c, bs, fs, sc, ss)
  <1> DEFINE w == steps \o t
             m == Len(steps)
  <1>1. PICK ctx : Along(t, ctx, c, bs, fs) /\ Ordered(ctx) /\ Good(ctx, c, fs, sc, ss)
    BY DEF Chain
  <1>2. /\ m \in Nat /\ Len(t) \in Nat /\ Len(w) = m + Len(t)
        /\ \A i \in 1 .. m : w[i] = steps[i]
        /\ \A i \in 1 .. Len(t) : w[m + i] = t[i]
    OBVIOUS
  <1> DEFINE all == [i \in 1 .. Len(w) + 1 |-> IF i <= m THEN c ELSE ctx[i - m]]
  <1>3. ctx \in [1 .. Len(t) + 1 -> Context] /\ ctx[1] = c /\ DOMAIN ctx = 1 .. Len(t) + 1
    BY <1>1 DEF Along
  <1> HIDE DEF w, m
  <1>4. /\ DOMAIN all = 1 .. m + Len(t) + 1
        /\ \A i \in 1 .. m + 1 : all[i] = c
        /\ \A k \in 1 .. Len(t) + 1 : all[m + k] = ctx[k]
    BY <1>2, <1>3
  <1>5. \A i \in DOMAIN all : i \in 1 .. m \/ \E k \in DOMAIN ctx : i = m + k /\ all[i] = ctx[k]
    <2> SUFFICES ASSUME NEW i \in DOMAIN all, i \notin 1 .. m
                 PROVE  \E k \in DOMAIN ctx : i = m + k /\ all[i] = ctx[k]
      OBVIOUS
    <2>1. i - m \in DOMAIN ctx /\ i = m + (i - m)
      BY <1>2, <1>3, <1>4
    <2> QED  BY <2>1, <1>3, <1>4
  <1>6. Within(c, c)
    BY DEF Within, Context
  <1>7. Along(w, all, c, bs, fs)
    <2>1. all \in [1 .. Len(w) + 1 -> Context]
      BY <1>2, <1>3
    <2>2. all[1] = c
      BY <1>2, <1>4
    <2>3. ASSUME NEW i \in 1 .. Len(w)
          PROVE  all[i + 1] = Behind(w[i], all[i]) /\ Placed(w[i], all[i], bs, fs)
      <3>1. CASE i \in 1 .. m
        <4>1. i + 1 \in 1 .. m + 1 /\ i \in 1 .. m + 1
          BY <3>1, <1>2
        <4>2. all[i] = c /\ all[i + 1] = c /\ w[i] = steps[i]
          BY <4>1, <3>1, <1>2, <1>4
        <4> QED  BY <4>2, <3>1 DEF m
      <3>2. CASE i \notin 1 .. m
        <4>1. PICK k \in 1 .. Len(t) : i = m + k
          <5>1. i - m \in 1 .. Len(t) /\ i = m + (i - m)
            BY <3>2, <1>2
          <5> QED  BY <5>1
        <4>2. k \in 1 .. Len(t) + 1 /\ k + 1 \in 1 .. Len(t) + 1 /\ i + 1 = m + (k + 1)
          BY <4>1, <1>2
        <4> HIDE DEF all
        <4>3. w[i] = t[k] /\ all[i] = ctx[k] /\ all[i + 1] = ctx[k + 1]
          BY <4>1, <4>2, <1>2, <1>4
        <4> QED  BY <4>1, <4>3, <1>1 DEF Along
      <3> QED  BY <3>1, <3>2
    <2> QED  BY <2>1, <2>2, <2>3 DEF Along
  <1> HIDE DEF all
  <1>8. Good(all, c, fs, sc, ss)
    <2> SUFFICES ASSUME NEW i \in DOMAIN all PROVE Within(all[i], c) /\ Resolves(all[i], fs, sc, ss)
      BY DEF Good
    <2>1. CASE i \in 1 .. m
      <3>1. all[i] = c
        BY <2>1, <1>2, <1>4
      <3> QED  BY <3>1, <1>6
    <2>2. CASE i \notin 1 .. m
      BY <2>2, <1>5, <1>1 DEF Good
    <2> QED  BY <2>1, <2>2
  <1>9. Ordered(all)
    <2> SUFFICES ASSUME NEW i \in DOMAIN all, NEW j \in DOMAIN all, i <= j
                 PROVE  Within(all[j], all[i])
      BY DEF Ordered
    <2>1. CASE i \in 1 .. m
      <3>1. all[i] = c
        BY <2>1, <1>2, <1>4
      <3> QED  BY <3>1, <1>8 DEF Good
    <2>2. CASE i \notin 1 .. m
      <3>1. PICK k \in DOMAIN ctx : i = m + k /\ all[i] = ctx[k]
        BY <2>2, <1>5
      <3>2. j \notin 1 .. m
        BY <3>1, <1>2, <1>3
      <3>3. PICK l \in DOMAIN ctx : j = m + l /\ all[j] = ctx[l]
        BY <3>2, <1>5
      <3>4. k <= l
        BY <3>1, <3>3, <1>2, <1>3
      <3> QED  BY <3>1, <3>3, <3>4, <1>1 DEF Ordered
    <2> QED  BY <2>1, <2>2
  <1> QED  BY <1>7, <1>8, <1>9 DEF Chain, w

\* A chain stays one when blocks and functions are added, and tables change as
\* far as its contexts allow.
LEMMA Keep ==
  ASSUME NEW w, NEW c, NEW bs, NEW fs, NEW sc, NEW ss, NEW bs2, NEW fs2, NEW sc2, NEW ss2,
         Chain(w, c, bs, fs, sc, ss),
         \A b \in 1 .. Len(bs) : b \in 1 .. Len(bs2) /\ bs2[b].func = bs[b].func,
         \A n \in Names : fs[n] # 0 => fs2[n] # 0,
         w \in Seq(Steps),
         \A d \in Context : Within(d, c) /\ Resolves(d, fs, sc, ss) => Resolves(d, fs2, sc2, ss2)
  PROVE  Chain(w, c, bs2, fs2, sc2, ss2)
  <1>1. PICK ctx : Along(w, ctx, c, bs, fs) /\ Ordered(ctx) /\ Good(ctx, c, fs, sc, ss)
    BY DEF Chain
  <1>2. ctx \in [1 .. Len(w) + 1 -> Context]
    BY <1>1 DEF Along
  <1>3. Good(ctx, c, fs2, sc2, ss2)
    BY <1>1, <1>2 DEF Good
  <1>4. \A i \in 1 .. Len(w) : w[i].op = "name" => w[i].name \in Names \cup {InputVar}
    BY DEF Steps, PlainOps
  <1>5. Along(w, ctx, c, bs2, fs2)
    BY <1>1, <1>4 DEF Along, Placed
  <1> QED  BY <1>1, <1>3, <1>5 DEF Chain

----------------------------------------------------------------------------
\* bs2 is bs with terminators, instructions and further blocks.
Extends(bs, bs2) ==
  /\ bs2 \in Seq(BlockType)
  /\ \A b \in 1 .. Len(bs) : b \in 1 .. Len(bs2) /\ bs2[b].func = bs[b].func

LEMMA Joined ==
  ASSUME NEW S, NEW s \in Seq(S), NEW t \in Seq(S)
  PROVE  /\ s \o t \in Seq(S) /\ Len(s \o t) = Len(s) + Len(t)
         /\ \A i \in 1 .. Len(s) : (s \o t)[i] = s[i]
         /\ \A i \in 1 .. Len(t) : (s \o t)[Len(s) + i] = t[i]
  <1>1. Len(s) \in Nat /\ Len(t) \in Nat
    OBVIOUS
  <1>2. \A i \in 1 .. Len(s) : (s \o t)[i] = s[i]
    BY <1>1, ConcatProperties
  <1>3. ASSUME NEW i \in 1 .. Len(t) PROVE (s \o t)[Len(s) + i] = t[i]
    <2>1. Len(s) + i \in 1 .. Len(s) + Len(t) /\ ~(Len(s) + i <= Len(s)) /\ (Len(s) + i) - Len(s) = i
      BY <1>1
    <2> QED  BY <2>1, ConcatProperties
  <1> QED  BY <1>2, <1>3, ConcatProperties

\* An instruction or a terminator at the end of a block changes no function.
LEMMA BlockStays ==
  ASSUME NEW bs \in Seq(BlockType), NEW b \in 1 .. Len(bs)
  PROVE  /\ Extends(bs, bs)
         /\ Extends(bs, Emitted(bs, b)) /\ Len(Emitted(bs, b)) = Len(bs)
         /\ Extends(bs, Ended(bs, b)) /\ Len(Ended(bs, b)) = Len(bs)
         /\ Extends(bs, EndedIfOpen(bs, b)) /\ Len(EndedIfOpen(bs, b)) = Len(bs)
  <1> DEFINE emitted == [bs[b] EXCEPT !.open = TRUE]
             ended   == [bs[b] EXCEPT !.open = FALSE, !.ends = @ + 1]
  <1>1. Len(bs) \in Nat /\ DOMAIN bs = 1 .. Len(bs) /\ \A i \in 1 .. Len(bs) : bs[i] \in BlockType
    OBVIOUS
  <1>2. emitted \in BlockType /\ emitted.func = bs[b].func
    BY <1>1 DEF BlockType
  <1>3. ended \in BlockType /\ ended.func = bs[b].func
    <2> DEFINE closed == [bs[b] EXCEPT !.open = FALSE]
    <2>1. closed \in BlockType /\ closed.func = bs[b].func /\ closed.ends = bs[b].ends
      BY <1>1 DEF BlockType
    <2>2. \A x \in BlockType : /\ [x EXCEPT !.ends = x.ends + 1] \in BlockType
                              /\ [x EXCEPT !.ends = x.ends + 1].func = x.func
      <3>1. \A x \in BlockType : x.ends + 1 \in Nat
        BY DEF BlockType
      <3>2. \A x \in BlockType : \A n \in Nat : /\ [x EXCEPT !.ends = n] \in BlockType
                                              /\ [x EXCEPT !.ends = n].func = x.func
        BY DEF BlockType
      <3> QED  BY <3>1, <3>2
    <2>3. ended = [closed EXCEPT !.ends = closed.ends + 1]
      BY <1>1 DEF BlockType
    <2> HIDE DEF ended, closed
    <2> QED  BY <2>1, <2>2, <2>3
  <1>4. Emitted(bs, b) = [bs EXCEPT ![b] = emitted]
    BY DEF Emitted
  <1>5. Ended(bs, b) = [bs EXCEPT ![b] = ended]
    BY <1>1 DEF Ended
  <1> HIDE DEF emitted, ended
  <1>6. \A x \in BlockType : x.func = bs[b].func =>
           /\ [bs EXCEPT ![b] = x] \in Seq(BlockType) /\ Len([bs EXCEPT ![b] = x]) = Len(bs)
           /\ \A i \in 1 .. Len(bs) : [bs EXCEPT ![b] = x][i].func = bs[i].func
    BY <1>1
  <1> QED  BY <1>1, <1>2, <1>3, <1>4, <1>5, <1>6 DEF Extends, EndedIfOpen

\* Further blocks leave those there are.
LEMMA BlocksAdded ==
  ASSUME NEW bs \in Seq(BlockType), NEW ds \in Seq(BlockType), NEW more \in Seq(BlockType),
         Extends(bs, ds), Len(ds) = Len(bs)
  PROVE  /\ Extends(bs, ds \o more)
         /\ Len(ds \o more) = Len(bs) + Len(more)
         /\ \A i \in 1 .. Len(more) : (ds \o more)[Len(bs) + i] = more[i]
  <1>1. /\ ds \o more \in Seq(BlockType) /\ Len(ds \o more) = Len(ds) + Len(more)
        /\ \A i \in 1 .. Len(ds) : (ds \o more)[i] = ds[i]
        /\ \A i \in 1 .. Len(more) : (ds \o more)[Len(ds) + i] = more[i]
    <2>1. ds \o more \in Seq(BlockType) /\ Len(ds \o more) = Len(ds) + Len(more)
      BY Joined
    <2>2. \A i \in 1 .. Len(ds) : (ds \o more)[i] = ds[i]
      BY Joined
    <2>3. \A i \in 1 .. Len(more) : (ds \o more)[Len(ds) + i] = more[i]
      BY Joined
    <2> QED  BY <2>1, <2>2, <2>3
  <1>2. \A i \in 1 .. Len(bs) : i \in 1 .. Len(ds \o more) /\ (ds \o more)[i].func = bs[i].func
    BY <1>1 DEF Extends
  <1> QED  BY <1>1, <1>2 DEF Extends

\* New blocks are blocks of the function under way.
LEMMA NewBlocksType ==
  ASSUME NEW k \in Nat, current_function_ \in Nat
  PROVE  /\ NewBlocks(k) \in Seq(BlockType) /\ Len(NewBlocks(k)) = k
         /\ \A i \in 1 .. k : NewBlocks(k)[i].func = current_function_
  BY DEF NewBlocks, NewBlock, BlockType

\* There are finitely many functions, so the next one has a number.
LEMMA NextFunctionType ==
  ASSUME TypeInv
  PROVE  NextFunction \in Nat \ {0}
  <1> DEFINE T == {blocks[b].func : b \in DOMAIN blocks}
             f == [b \in DOMAIN blocks |-> blocks[b].func]
  <1>1. DOMAIN blocks = 1 .. Len(blocks) /\ Len(blocks) \in Nat
    BY DEF TypeInv
  <1>2. IsFiniteSet(DOMAIN blocks)
    BY <1>1, FS_Interval
  <1>3. f \in Surjection(DOMAIN blocks, T)
    BY DEF Surjection
  <1>4. IsFiniteSet(T)
    BY <1>2, <1>3, FS_Surjection
  <1>5. Cardinality(T) \in Nat
    BY <1>4, FS_CardinalityType
  <1> QED  BY <1>5 DEF NextFunction

----------------------------------------------------------------------------
\* What the steps that are left say of the step at hand.
LEMMA AtHand ==
  ASSUME CInv, work # <<>>
  PROVE  /\ work \in Seq(Steps) /\ Head(work) \in Steps /\ Tail(work) \in Seq(Steps)
         /\ Now \in Context /\ Behind(Head(work), Now) \in Context
         /\ Placed(Head(work), Now, blocks, functions_)
         /\ Resolves(Now, functions_, scopes_, scope_stack_)
         /\ Chain(Tail(work), Behind(Head(work), Now), blocks, functions_, scopes_, scope_stack_)
  <1>1. /\ work \in Seq(Steps)
        /\ Chain(work, Now, blocks, functions_, scopes_, scope_stack_)
    BY DEF CInv, TypeInv
  <1>2. Head(work) \in Steps /\ Tail(work) \in Seq(Steps)
    BY <1>1, HeadTailProperties
  <1> QED  BY <1>1, <1>2, Consume

\* A step keeps the invariant that opens and closes nothing, and puts such steps
\* in its place.
LEMMA StepKeeps ==
  ASSUME CInv, work # <<>>, NEW steps \in Seq(Steps),
         Behind(Head(work), Now) = Now,
         work' = steps \o Tail(work), thrown'.what # "undeclared",
         ScopeInv', Len(scopes_') = Len(scopes_),
         scope_stack_' \in Seq(SUBSET AllocaType), Len(scope_stack_') = Len(scope_stack_),
         functions_' = functions_, current_function_' = current_function_,
         Extends(blocks, blocks'), builder_' \in 1 .. Len(blocks'),
         blocks'[builder_'].func = current_function_,
         \A i \in 1 .. Len(steps) :
            Behind(steps[i], Now) = Now /\ Placed(steps[i], Now, blocks', functions_),
         \A d \in Context : Within(d, Now) /\ Resolves(d, functions_, scopes_, scope_stack_)
                            => Resolves(d, functions_, scopes_', scope_stack_')
  PROVE  CInv'
  <1> DEFINE t == Tail(work)
  <1>1. /\ t \in Seq(Steps) /\ Now \in Context
        /\ Resolves(Now, functions_, scopes_, scope_stack_)
        /\ Chain(t, Now, blocks, functions_, scopes_, scope_stack_)
    BY AtHand
  <1>2. \A b \in 1 .. Len(blocks) : b \in 1 .. Len(blocks') /\ blocks'[b].func = blocks[b].func
    BY DEF Extends
  <1> HIDE DEF t
  <1>3. Chain(t, Now, blocks', functions_, scopes_', scope_stack_')
    BY <1>1, <1>2, Keep
  <1>4. Resolves(Now, functions_, scopes_', scope_stack_')
    <2>1. \A d \in Context : Within(d, d)
      BY DEF Within, Context
    <2> QED  BY <1>1, <2>1
  <1>5. Chain(steps \o t, Now, blocks', functions_, scopes_', scope_stack_')
    BY <1>1, <1>3, <1>4, PrependSame
  <1>6. Now' = Now
    BY DEF Now
  <1>7. steps \o t \in Seq(Steps)
    BY <1>1, Joined
  <1>8. TypeInv'
    BY <1>7 DEF CInv, TypeInv, Extends, t
  <1> QED  BY <1>5, <1>6, <1>8 DEF CInv, t

\* What a step has besides its op.
LEMMA StepFields ==
  \A s \in Steps :
     /\ s.op = "assign" => s.name \in Names
     /\ s.op = "name" => s.name \in Names \cup {InputVar}
     /\ s.op \in {"join", "repeat"} => s.block \in Nat
     /\ s.op = "end_func" => s.func \in Nat /\ s.block \in Nat
     /\ s.op = "if" => s.els \in BOOLEAN
  BY DEF Steps, PlainOps

\* A step that opens and closes nothing and goes on in the function under way.
Inert(s, bs) ==
  /\ s.op \notin {"end_func", "end_block", "name"}
  /\ s.op \in {"join", "repeat"} => s.block \in 1 .. Len(bs) /\ bs[s.block].func = current_function_

SimpleSteps == {s \in Steps : s.op \notin {"end_func", "end_block", "name", "join", "repeat"}}

LEMMA StepTypes ==
  /\ \A op \in PlainOps \ {"end_block"} : Step(op) \in SimpleSteps
  /\ {Expr, Stmts, Block, Params, Args, Emit, Fold, Return, Step("loop")} \subseteq SimpleSteps
  /\ \A els \in BOOLEAN : [op |-> "if", els |-> els] \in SimpleSteps
  /\ \A name \in Names : [op |-> "assign", name |-> name] \in SimpleSteps
  <1>1. \A op \in PlainOps \ {"end_block"} : Step(op) \in SimpleSteps
    BY DEF Step, SimpleSteps, Steps, PlainOps
  <1>2. {"expr", "stmts", "block", "params", "args", "emit", "fold", "return", "loop"}
          \subseteq PlainOps \ {"end_block"}
    BY DEF PlainOps
  <1>3. {Expr, Stmts, Block, Params, Args, Emit, Fold, Return, Step("loop")} \subseteq SimpleSteps
    BY <1>1, <1>2 DEF Expr, Stmts, Block, Params, Args, Emit, Fold, Return
  <1>4. \A els \in BOOLEAN : [op |-> "if", els |-> els] \in SimpleSteps
    BY DEF SimpleSteps, Steps
  <1>5. \A name \in Names : [op |-> "assign", name |-> name] \in SimpleSteps
    BY DEF SimpleSteps, Steps
  <1> QED  BY <1>1, <1>3, <1>4, <1>5

\* What a step that is taken says of work.
LEMMA Taken ==
  ASSUME NEW op, NEW steps, Do(op, steps) \/ Visit(op, steps)
  PROVE  /\ work # <<>> /\ Head(work).op = op /\ work' = steps \o Tail(work)
         /\ thrown = NothingThrown /\ thrown.what # "undeclared"
  BY DEF Do, Visit, NothingThrown

\* Such steps keep the invariant when no table changes.
LEMMA InertKeeps ==
  ASSUME CInv, work # <<>>, NEW steps \in Seq(Steps),
         work' = steps \o Tail(work), thrown'.what # "undeclared",
         Head(work).op \notin {"end_func", "end_block"},
         UNCHANGED <<scopeVars, nameVars, current_function_>>,
         Extends(blocks, blocks'), builder_' \in 1 .. Len(blocks'),
         blocks'[builder_'].func = current_function_,
         \A i \in 1 .. Len(steps) : Inert(steps[i], blocks')
  PROVE  CInv'
  <1>1. Behind(Head(work), Now) = Now
    BY DEF Behind
  <1>2. \A i \in 1 .. Len(steps) :
           Behind(steps[i], Now) = Now /\ Placed(steps[i], Now, blocks', functions_)
    BY DEF Behind, Placed, Inert, Now
  <1>3. /\ scopes_' = scopes_ /\ archived_' = archived_ /\ scope_stack_' = scope_stack_
        /\ functions_' = functions_ /\ current_function_' = current_function_
    BY DEF scopeVars, nameVars
  <1>4. ScopeInv' /\ scope_stack_' \in Seq(SUBSET AllocaType)
    BY <1>3 DEF CInv, TypeInv, ScopeInv, TableOrder, NoShadowing, FreshTable
  <1> QED  BY <1>1, <1>2, <1>3, <1>4, StepKeeps

\* The usual case: instructions or a terminator in the insert block.
LEMMA SimpleKeeps ==
  ASSUME CInv, NEW op, NEW steps \in Seq(SimpleSteps), Do(op, steps) \/ Visit(op, steps),
         op \notin {"end_func", "end_block"}, thrown' = thrown,
         UNCHANGED <<scopeVars, nameVars, current_function_, builder_>>,
         blocks' \in {blocks, Emitted(blocks, builder_), Ended(blocks, builder_),
                      EndedIfOpen(blocks, builder_)}
  PROVE  CInv'
  <1>1. /\ work # <<>> /\ Head(work).op = op /\ work' = steps \o Tail(work)
        /\ thrown'.what # "undeclared"
    BY Taken
  <1>2. Extends(blocks, blocks') /\ builder_' \in 1 .. Len(blocks')
        /\ blocks'[builder_'].func = current_function_
    BY BlockStays DEF CInv, TypeInv, Extends
  <1>3. steps \in Seq(Steps) /\ \A i \in 1 .. Len(steps) : Inert(steps[i], blocks')
    BY DEF SimpleSteps, Inert
  <1> QED  BY <1>1, <1>2, <1>3, InertKeeps

----------------------------------------------------------------------------
\* The steps that only visit others, or write to the insert block.
LEMMA VisitsKeep ==
  ASSUME CInv, visit_Expression \/ visit_Statement \/ visit_Assignment \/ end_params
  PROVE  CInv'
  <1> USE StepTypes
  <1>1. \A a \in SimpleSteps : <<a>> \in Seq(SimpleSteps)
    OBVIOUS
  <1>2. \A a, b \in SimpleSteps : <<a, b>> \in Seq(SimpleSteps)
    OBVIOUS
  <1>3. \A a, b, c \in SimpleSteps : <<a, b, c>> \in Seq(SimpleSteps)
    OBVIOUS
  <1>4. <<>> \in Seq(SimpleSteps)
    OBVIOUS
  <1>5. CASE visit_Expression
    <2>1. \E op \in {"expr", "args"}, steps \in Seq(SimpleSteps) : Do(op, steps) \/ Visit(op, steps)
      BY <1>1, <1>2, <1>3, <1>4, <1>5, Zenon DEF visit_Expression
    <2> QED  BY <1>5, <2>1, SimpleKeeps DEF visit_Expression, irVars
  <1>6. CASE visit_Statement
    <2>1. \E steps \in Seq(SimpleSteps) : Do("stmts", steps) \/ Visit("stmts", steps)
      BY <1>1, <1>2, <1>3, <1>4, <1>6, Zenon DEF visit_Statement
    <2> QED  BY <1>6, <2>1, SimpleKeeps DEF visit_Statement, irVars
  <1>7. CASE visit_Assignment
    <2>1. \E steps \in Seq(SimpleSteps) : Visit("expr", steps)
      BY <1>2, <1>7, Zenon DEF visit_Assignment
    <2> QED  BY <1>7, <2>1, SimpleKeeps DEF visit_Assignment, irVars
  <1>8. CASE end_params
    <2>1. \E steps \in Seq(SimpleSteps) : Do("params", steps)
      BY <1>4, <1>8, Zenon DEF end_params
    <2> QED  BY <1>8, <2>1, SimpleKeeps DEF end_params, irVars
  <1> QED  BY <1>5, <1>6, <1>7, <1>8

LEMMA WritesKeep ==
  ASSUME CInv, emit \/ fold \/ return \/ end_program
  PROVE  CInv'
  <1>1. <<>> \in Seq(SimpleSteps)
    OBVIOUS
  <1>2. CASE emit
    <2>1. \E steps \in Seq(SimpleSteps) : Do("emit", steps)
      BY <1>1, <1>2, Zenon DEF emit
    <2> QED  BY <1>2, <2>1, SimpleKeeps DEF emit
  <1>3. CASE fold
    <2>1. \E steps \in Seq(SimpleSteps) : Do("fold", steps)
      BY <1>1, <1>3, Zenon DEF fold
    <2> QED  BY <1>3, <2>1, SimpleKeeps DEF fold
  <1>4. CASE return
    <2>1. \E steps \in Seq(SimpleSteps) : Do("return", steps)
      BY <1>1, <1>4, Zenon DEF return
    <2> QED  BY <1>4, <2>1, SimpleKeeps DEF return
  <1>5. CASE end_program
    <2>1. \E steps \in Seq(SimpleSteps) : Do("end_program", steps)
      BY <1>1, <1>5, Zenon DEF end_program
    <2> QED  BY <1>5, <2>1, SimpleKeeps DEF end_program
  <1> QED  BY <1>2, <1>3, <1>4, <1>5

\* What the parser lets pass is found (codegen.cpp:439-455).
LEMMA VariableKeeps ==
  ASSUME CInv, visit_Variable
  PROVE  CInv'
  <1>1. Visit("expr", <<>>)
    BY DEF visit_Variable
  <1>2. PICK name \in Names :
          /\ find(name)
          /\ thrown' = IF Declared(name) \/ functions_[name] # 0 THEN thrown
                       ELSE [what |-> "undeclared", name |-> name]
          /\ blocks' = IF Declared(name) THEN Emitted(blocks, builder_) ELSE blocks
    BY DEF visit_Variable
  <1>3. work # <<>>
    BY <1>1 DEF Visit
  <1>4. Resolves(Now, functions_, scopes_, scope_stack_)
    BY <1>3, AtHand
  <1>5. Declared(name) \/ functions_[name] # 0
    <2>1. Len(scopes_) \in Nat /\ DOMAIN scopes_ = 1 .. Len(scopes_)
          /\ DOMAIN scope_stack_ = 1 .. Len(scope_stack_)
      BY DEF CInv, TypeInv, ScopeInv
    <2>2. PICK q \in 1 .. Len(scopes_) : name \in scopes_[q].names
      BY <1>2, <2>1 DEF find
    <2> QED  BY <1>4, <2>1, <2>2 DEF Resolves, Now, Declared
  <1>6. thrown' = thrown /\ blocks' \in {blocks, Emitted(blocks, builder_)}
    BY <1>2, <1>5
  <1>7. <<>> \in Seq(SimpleSteps)
    OBVIOUS
  <1>8. \E steps \in Seq(SimpleSteps) : Visit("expr", steps)
    BY <1>1, <1>7, Zenon
  <1>9. UNCHANGED <<scopeVars, nameVars, current_function_, builder_>>
    BY DEF visit_Variable
  <1> QED  BY <1>6, <1>8, <1>9, SimpleKeeps

\* A jump at the end of the insert block, and new blocks.
LEMMA Jumped ==
  ASSUME CInv, NEW k \in Nat \ {0}, blocks' = Ended(blocks, builder_) \o NewBlocks(k)
  PROVE  /\ Len(blocks) \in Nat /\ Len(blocks') = Len(blocks) + k /\ Extends(blocks, blocks')
         /\ \A i \in 1 .. k : /\ Len(blocks) + i \in 1 .. Len(blocks')
                             /\ blocks'[Len(blocks) + i].func = current_function_
  <1> DEFINE ds == Ended(blocks, builder_)
             more == NewBlocks(k)
  <1>1. blocks \in Seq(BlockType) /\ builder_ \in 1 .. Len(blocks) /\ current_function_ \in Nat
    BY DEF CInv, TypeInv
  <1>2. Extends(blocks, ds) /\ Len(ds) = Len(blocks)
    BY <1>1, BlockStays
  <1>3. ds \in Seq(BlockType)
    BY <1>2 DEF Extends
  <1>4. /\ more \in Seq(BlockType) /\ Len(more) = k
        /\ \A i \in 1 .. k : more[i].func = current_function_
    BY <1>1, NewBlocksType
  <1> HIDE DEF ds, more
  <1>5. /\ Extends(blocks, ds \o more) /\ Len(ds \o more) = Len(blocks) + Len(more)
        /\ \A i \in 1 .. Len(more) : (ds \o more)[Len(blocks) + i] = more[i]
    BY <1>1, <1>2, <1>3, <1>4, BlocksAdded
  <1>6. blocks' = ds \o more /\ Len(blocks) \in Nat
    BY <1>1 DEF ds, more
  <1> QED  BY <1>4, <1>5, <1>6

\* The condition of an if statement done: what follows finds its blocks.
LEMMA BranchKeeps ==
  ASSUME CInv, branch
  PROVE  CInv'
  <1> DEFINE els == Len(blocks) + 2
             merge == Len(blocks) + (IF Head(work).els THEN 3 ELSE 2)
             Join == [op |-> "join", block |-> merge]
             ToElse == [op |-> "join", block |-> els]
             long == <<Block, ToElse, Block, Join>>
             short == <<Block, Join>>
             k == merge - Len(blocks)
  <1>1. /\ Do("if", IF Head(work).els THEN long ELSE short)
        /\ blocks' = Ended(blocks, builder_) \o NewBlocks(k)
        /\ builder_' = Len(blocks) + 1 /\ thrown' = thrown
        /\ UNCHANGED <<scopeVars, nameVars, current_function_>>
    BY DEF branch
  <1>2. Len(blocks) \in Nat
    BY DEF CInv, TypeInv
  <1>3. /\ k \in Nat \ {0} /\ 1 \in 1 .. k /\ merge = Len(blocks) + k /\ k \in 1 .. k
        /\ 2 \in 1 .. k
    BY <1>2
  <1>4. /\ Extends(blocks, blocks')
        /\ \A i \in 1 .. k : /\ Len(blocks) + i \in 1 .. Len(blocks')
                            /\ blocks'[Len(blocks) + i].func = current_function_
    BY <1>1, <1>3, Jumped
  <1>5. /\ Join \in Steps /\ Join.op = "join" /\ Join.block = merge
        /\ ToElse \in Steps /\ ToElse.op = "join" /\ ToElse.block = els
        /\ Block \in Steps /\ Block.op = "block"
    BY <1>2, StepTypes DEF Steps, Block, Step, SimpleSteps
  <1>6. Inert(Join, blocks') /\ Inert(ToElse, blocks') /\ Inert(Block, blocks')
    BY <1>3, <1>4, <1>5 DEF Inert
  <1> HIDE DEF els, merge, k, Join, ToElse
  <1>7. long \in Seq(Steps) /\ \A i \in 1 .. Len(long) : Inert(long[i], blocks')
    BY <1>5, <1>6
  <1>8. short \in Seq(Steps) /\ \A i \in 1 .. Len(short) : Inert(short[i], blocks')
    BY <1>5, <1>6
  <1> HIDE DEF long, short
  <1>9. PICK steps \in Seq(Steps) : Do("if", steps) /\ \A i \in 1 .. Len(steps) : Inert(steps[i], blocks')
    BY <1>1, <1>7, <1>8, Zenon
  <1>10. /\ work # <<>> /\ Head(work).op = "if" /\ work' = steps \o Tail(work)
         /\ thrown'.what # "undeclared"
    BY <1>1, <1>9, Taken
  <1>11. builder_' \in 1 .. Len(blocks') /\ blocks'[builder_'].func = current_function_
    BY <1>1, <1>3, <1>4
  <1> QED  BY <1>1, <1>4, <1>9, <1>10, <1>11, InertKeeps

\* The condition of a loop done, likewise.
LEMMA LoopKeeps ==
  ASSUME CInv, visit_While \/ loop
  PROVE  CInv'
  <1>1. Len(blocks) \in Nat
    BY DEF CInv, TypeInv
  <1>2. CASE visit_While
    <2> DEFINE steps == <<Expr, Step("loop"), Stmts>>
    <2>1. Extends(blocks, blocks') /\ Len(blocks) + 1 \in 1 .. Len(blocks')
          /\ blocks'[Len(blocks) + 1].func = current_function_
      BY <1>2, Jumped DEF visit_While
    <2>2. \A s \in SimpleSteps : s \in Steps /\ Inert(s, blocks')
      BY DEF SimpleSteps, Inert
    <2>3. \A a, b, c \in SimpleSteps : /\ <<a, b, c>> \in Seq(Steps)
                                       /\ \A i \in 1 .. 3 : Inert(<<a, b, c>>[i], blocks')
      BY <2>2
    <2>4. steps \in Seq(Steps) /\ \A i \in 1 .. Len(steps) : Inert(steps[i], blocks')
      BY <2>3, StepTypes
    <2>5. Visit("stmts", steps) /\ UNCHANGED <<scopeVars, nameVars, current_function_>>
          /\ thrown' = thrown /\ builder_' = Len(blocks) + 1
      BY <1>2 DEF visit_While
    <2> HIDE DEF steps
    <2>6. /\ work # <<>> /\ Head(work).op = "stmts" /\ work' = steps \o Tail(work)
          /\ thrown'.what # "undeclared"
      BY <2>5, Taken
    <2> QED  BY <2>1, <2>4, <2>5, <2>6, InertKeeps
  <1>3. CASE loop
    <2> DEFINE r == [op |-> "repeat", block |-> Len(blocks) + 2]
               steps == <<Block, r>>
    <2>1. /\ Extends(blocks, blocks')
          /\ \A i \in 1 .. 2 : /\ Len(blocks) + i \in 1 .. Len(blocks')
                              /\ blocks'[Len(blocks) + i].func = current_function_
      BY <1>3, Jumped DEF loop
    <2>2. /\ r \in Steps /\ r.op = "repeat" /\ r.block = Len(blocks) + 2
          /\ Block \in Steps /\ Block.op = "block"
      BY <1>1, StepTypes DEF Steps, Block, Step, SimpleSteps
    <2>3. Inert(r, blocks') /\ Inert(Block, blocks')
      BY <2>1, <2>2 DEF Inert
    <2>4. Do("loop", steps) /\ UNCHANGED <<scopeVars, nameVars, current_function_>>
          /\ thrown' = thrown /\ builder_' = Len(blocks) + 1
      BY <1>3 DEF loop
    <2> HIDE DEF r
    <2>5. steps \in Seq(Steps) /\ \A i \in 1 .. Len(steps) : Inert(steps[i], blocks')
      BY <2>2, <2>3
    <2> HIDE DEF steps
    <2>6. /\ work # <<>> /\ Head(work).op = "loop" /\ work' = steps \o Tail(work)
          /\ thrown'.what # "undeclared"
      BY <2>4, Taken
    <2>7. builder_' \in 1 .. Len(blocks') /\ blocks'[builder_'].func = current_function_
      BY <1>1, <2>1, <2>4
    <2> QED  BY <2>1, <2>4, <2>5, <2>6, <2>7, InertKeeps
  <1> QED  BY <1>2, <1>3

\* The insert block moves to one of the function under way.
LEMMA JoinKeeps ==
  ASSUME CInv, join \/ repeat
  PROVE  CInv'
  <1>1. \E op \in {"join", "repeat"} : Do(op, <<>>)
    BY DEF join, repeat
  <1>2. <<>> \in Seq(Steps) /\ \A i \in 1 .. Len(<<>>) : Inert(<<>>[i], blocks')
    OBVIOUS
  <1>3. PICK op \in {"join", "repeat"}, steps \in Seq(Steps) :
           Do(op, steps) /\ \A i \in 1 .. Len(steps) : Inert(steps[i], blocks')
    BY <1>1, <1>2, Zenon
  <1>4. /\ work # <<>> /\ Head(work).op = op /\ work' = steps \o Tail(work)
        /\ thrown.what # "undeclared"
    BY <1>3, Taken
  <1>5. /\ builder_' = Head(work).block /\ thrown' = thrown
        /\ blocks' \in {Ended(blocks, builder_), EndedIfOpen(blocks, builder_)}
        /\ UNCHANGED <<scopeVars, nameVars, current_function_>>
    BY DEF join, repeat
  <1>6. Extends(blocks, blocks')
    BY <1>5, BlockStays DEF CInv, TypeInv
  <1>7. Placed(Head(work), Now, blocks, functions_)
    BY <1>4, AtHand
  <1>8. builder_' \in 1 .. Len(blocks') /\ blocks'[builder_'].func = current_function_
    BY <1>3, <1>4, <1>5, <1>6, <1>7 DEF Placed, Extends, Now
  <1> QED  BY <1>3, <1>4, <1>5, <1>6, <1>8, InertKeeps

----------------------------------------------------------------------------
\* Tables resolve as before when what is added to the parser's innermost table is
\* found in those of the generator.
LEMMA GrownResolves ==
  ASSUME CInv, Now \in Context,
         \A q \in 1 .. Len(scopes_) - 1 : scopes_'[q].names = scopes_[q].names,
         \A n \in scopes_'[Len(scopes_)].names :
            \/ n \in scopes_[Len(scopes_)].names
            \/ functions_[n] # 0
            \/ \E k \in 1 .. Len(scope_stack_) : \E a \in scope_stack_'[k] : a.name = n,
         \A k \in 1 .. Len(scope_stack_) : scope_stack_[k] \subseteq scope_stack_'[k]
  PROVE  \A d \in Context : Within(d, Now) /\ Resolves(d, functions_, scopes_, scope_stack_)
                            => Resolves(d, functions_, scopes_', scope_stack_')
  <1> SUFFICES ASSUME NEW d \in Context, Within(d, Now),
                      Resolves(d, functions_, scopes_, scope_stack_)
               PROVE  Resolves(d, functions_, scopes_', scope_stack_')
    OBVIOUS
  <1>1. /\ d.tables \in Nat /\ d.allocas \in Nat /\ Len(scopes_) \in Nat /\ Len(scope_stack_) \in Nat
        /\ d.tables <= Len(scopes_) /\ d.allocas <= Len(scope_stack_)
        /\ (d.tables = Len(scopes_) => d.allocas = Len(scope_stack_))
    BY DEF Within, Now, Context
  <1> SUFFICES ASSUME NEW q \in 1 .. d.tables, NEW n \in scopes_'[q].names, functions_[n] = 0
               PROVE  \E k \in 1 .. d.allocas : \E a \in scope_stack_'[k] : a.name = n
    BY DEF Resolves
  <1>2. CASE n \in scopes_[q].names
    <2>1. PICK k \in 1 .. d.allocas : \E a \in scope_stack_[k] : a.name = n
      BY <1>2 DEF Resolves
    <2>2. k \in 1 .. Len(scope_stack_)
      BY <1>1
    <2> QED  BY <2>1, <2>2
  <1>3. CASE n \notin scopes_[q].names
    <2>1. q = Len(scopes_)
      BY <1>1, <1>3
    <2>2. d.allocas = Len(scope_stack_)
      BY <1>1, <2>1
    <2> QED  BY <1>3, <2>1, <2>2
  <1> QED  BY <1>2, <1>3

\* A name that is allocated when it is new is there, and nothing else is lost.
LEMMA Allocated ==
  ASSUME CInv, Now \in Context, NEW name \in Names \cup {InputVar}, NEW f \in Nat,
         \/ DeclareAlloca(name, f)
         \/ Declared(name) /\ UNCHANGED scope_stack_
  PROVE  /\ scope_stack_' \in Seq(SUBSET AllocaType) /\ Len(scope_stack_') = Len(scope_stack_)
         /\ \A k \in 1 .. Len(scope_stack_) : scope_stack_[k] \subseteq scope_stack_'[k]
         /\ \E k \in 1 .. Len(scope_stack_) : \E a \in scope_stack_'[k] : a.name = name
  <1> DEFINE n == Len(scope_stack_)
             top == scope_stack_[n] \cup {Alloca(name, f)}
  <1>1. scope_stack_ \in Seq(SUBSET AllocaType) /\ n \in Nat /\ n \in 1 .. n
        /\ DOMAIN scope_stack_ = 1 .. n
    BY DEF CInv, TypeInv, Now, Context
  <1>2. CASE DeclareAlloca(name, f)
    <2>1. Alloca(name, f) \in AllocaType /\ Alloca(name, f).name = name
      BY DEF Alloca, AllocaType
    <2>2. top \in SUBSET AllocaType
      BY <1>1, <2>1
    <2>3. scope_stack_' = [scope_stack_ EXCEPT ![n] = top]
      BY <1>2 DEF DeclareAlloca
    <2>4. Alloca(name, f) \in top /\ scope_stack_[n] \subseteq top
      OBVIOUS
    <2> HIDE DEF top
    <2>5. /\ scope_stack_' \in Seq(SUBSET AllocaType) /\ Len(scope_stack_') = n
          /\ \A k \in 1 .. n : scope_stack_'[k] = IF k = n THEN top ELSE scope_stack_[k]
      BY <1>1, <2>2, <2>3
    <2> QED  BY <1>1, <2>1, <2>4, <2>5
  <1>3. CASE Declared(name) /\ UNCHANGED scope_stack_
    BY <1>1, <1>3 DEF Declared
  <1> QED  BY <1>2, <1>3

\* A name is added to the innermost table of the parser, if to any.
LEMMA NameAdded ==
  ASSUME ScopeInv, NEW name \in Names, add_variable(name)
  PROVE  /\ ScopeInv' /\ Len(scopes_') = Len(scopes_)
         /\ \A q \in 1 .. Len(scopes_) - 1 : scopes_'[q].names = scopes_[q].names
         /\ \A n \in scopes_'[Len(scopes_)].names : n \in scopes_[Len(scopes_)].names \/ n = name
  <1>1. ScopeInv' /\ Len(scopes_') = Len(scopes_)
    BY AddVariable
  <1>2. Len(scopes_) \in Nat \ {0} /\ scopes_ \in Seq(Tables) /\ DOMAIN scopes_ = 1 .. Len(scopes_)
    BY TableType DEF ScopeInv, TableOrder
  <1>3. \A q \in 1 .. Len(scopes_) : scopes_[q] \in Tables
    BY <1>2
  <1>4. \A t \in Tables : [t EXCEPT !.names = t.names \cup {name}].names = t.names \cup {name}
    BY DEF Tables
  <1>5. CASE find(name)
    BY <1>1, <1>2, <1>5 DEF add_variable
  <1>6. CASE ~find(name)
    <2> DEFINE t == scopes_[Len(scopes_)]
               t2 == [t EXCEPT !.names = t.names \cup {name}]
    <2>1. scopes_' = [scopes_ EXCEPT ![Len(scopes_)] = t2]
      BY <1>6 DEF add_variable, DeclareIn
    <2>2. t2.names = t.names \cup {name}
      BY <1>2, <1>3, <1>4
    <2> HIDE DEF t2
    <2>3. \A q \in 1 .. Len(scopes_) : scopes_'[q] = IF q = Len(scopes_) THEN t2 ELSE scopes_[q]
      BY <1>2, <2>1
    <2>4. Len(scopes_) \in 1 .. Len(scopes_)
          /\ \A q \in 1 .. Len(scopes_) - 1 : q \in 1 .. Len(scopes_) /\ q # Len(scopes_)
      <3>1. \A n \in Nat \ {0} : n \in 1 .. n /\ \A q \in 1 .. n - 1 : q \in 1 .. n /\ q # n
        OBVIOUS
      <3>2. Len(scopes_) \in Nat \ {0}
        BY <1>2
      <3> QED  BY <3>1, <3>2
    <2>5. \A q \in 1 .. Len(scopes_) - 1 : scopes_'[q].names = scopes_[q].names
      BY <2>3, <2>4
    <2>6. \A n \in scopes_'[Len(scopes_)].names : n \in scopes_[Len(scopes_)].names \/ n = name
      BY <2>2, <2>3, <2>4
    <2> QED  BY <1>1, <2>5, <2>6
  <1> QED  BY <1>5, <1>6

\* A step that only adds names keeps the invariant.
LEMMA NamingKeeps ==
  ASSUME CInv, NEW op, NEW steps \in Seq(SimpleSteps), Do(op, steps) \/ Visit(op, steps),
         op \notin {"end_func", "end_block"}, thrown'.what # "undeclared",
         UNCHANGED <<functions_, current_function_, builder_>>,
         blocks' \in {blocks, Emitted(blocks, builder_)},
         ScopeInv', Len(scopes_') = Len(scopes_),
         scope_stack_' \in Seq(SUBSET AllocaType), Len(scope_stack_') = Len(scope_stack_),
         \A q \in 1 .. Len(scopes_) - 1 : scopes_'[q].names = scopes_[q].names,
         \A n \in scopes_'[Len(scopes_)].names :
            \/ n \in scopes_[Len(scopes_)].names
            \/ functions_[n] # 0
            \/ \E k \in 1 .. Len(scope_stack_) : \E a \in scope_stack_'[k] : a.name = n,
         \A k \in 1 .. Len(scope_stack_) : scope_stack_[k] \subseteq scope_stack_'[k]
  PROVE  CInv'
  <1>1. work # <<>> /\ Head(work).op = op /\ work' = steps \o Tail(work)
    BY Taken
  <1>2. Extends(blocks, blocks') /\ builder_' \in 1 .. Len(blocks')
        /\ blocks'[builder_'].func = current_function_
    BY BlockStays DEF CInv, TypeInv, Extends
  <1>3. \A s \in SimpleSteps : Behind(s, Now) = Now /\ Placed(s, Now, blocks', functions_)
    BY DEF SimpleSteps, Behind, Placed
  <1>4. steps \in Seq(Steps) /\ \A i \in 1 .. Len(steps) : steps[i] \in SimpleSteps
    BY DEF SimpleSteps
  <1>5. Behind(Head(work), Now) = Now
    BY <1>1 DEF Behind
  <1>6. Now \in Context
    BY <1>1, AtHand
  <1>7. \A d \in Context : Within(d, Now) /\ Resolves(d, functions_, scopes_, scope_stack_)
                           => Resolves(d, functions_, scopes_', scope_stack_')
    BY <1>6, GrownResolves
  <1> QED  BY <1>1, <1>2, <1>3, <1>4, <1>5, <1>7, StepKeeps

\* Assignments, input and parameters: a name enters the tables of the generator
\* with those of the parser, or is there.
LEMMA NamesKeep ==
  ASSUME CInv, assign \/ visit_Input \/ param
  PROVE  CInv'
  <1>1. <<>> \in Seq(SimpleSteps) /\ <<Params>> \in Seq(SimpleSteps)
    BY StepTypes
  <1>2. \E op \in {"assign", "expr", "params"}, steps \in Seq(SimpleSteps) :
           Do(op, steps) \/ Visit(op, steps)
    BY <1>1, Zenon DEF assign, visit_Input, param
  <1>3. work # <<>> /\ thrown.what # "undeclared"
    BY <1>2, Taken
  <1>4. Now \in Context /\ Head(work) \in Steps
    BY <1>3, AtHand
  <1>5. /\ ScopeInv /\ blocks[builder_].func = current_function_ /\ current_function_ \in Nat
        /\ scope_stack_ \in Seq(SUBSET AllocaType)
    BY DEF CInv, TypeInv
  <1>6. ASSUME UNCHANGED scopeVars
        PROVE  /\ ScopeInv' /\ Len(scopes_') = Len(scopes_)
               /\ \A q \in 1 .. Len(scopes_) - 1 : scopes_'[q].names = scopes_[q].names
               /\ \A n \in scopes_'[Len(scopes_)].names : n \in scopes_[Len(scopes_)].names
    BY <1>5, <1>6 DEF scopeVars, ScopeInv, TableOrder, NoShadowing, FreshTable
  <1>7. ASSUME assign \/ visit_Input \/ param
        PROVE  /\ UNCHANGED <<functions_, current_function_, builder_>>
               /\ blocks' = Emitted(blocks, builder_)
    BY <1>7 DEF assign, visit_Input, param
  <1>8. CASE assign
    <2> DEFINE name == Head(work).name
    <2>1. name \in Names
      BY <1>4, <1>8, StepFields DEF assign, Do
    <2>2. add_variable(name) /\ AllocateIfNew(name) /\ thrown' = thrown
      BY <1>8 DEF assign
    <2> HIDE DEF name
    <2>3. \/ DeclareAlloca(name, current_function_)
          \/ Declared(name) /\ UNCHANGED scope_stack_
      BY <1>5, <2>2 DEF AllocateIfNew
    <2>4. /\ scope_stack_' \in Seq(SUBSET AllocaType) /\ Len(scope_stack_') = Len(scope_stack_)
          /\ \A k \in 1 .. Len(scope_stack_) : scope_stack_[k] \subseteq scope_stack_'[k]
          /\ \E k \in 1 .. Len(scope_stack_) : \E a \in scope_stack_'[k] : a.name = name
      BY <1>4, <1>5, <2>1, <2>3, Allocated
    <2>5. /\ ScopeInv' /\ Len(scopes_') = Len(scopes_)
          /\ \A q \in 1 .. Len(scopes_) - 1 : scopes_'[q].names = scopes_[q].names
          /\ \A n \in scopes_'[Len(scopes_)].names : n \in scopes_[Len(scopes_)].names \/ n = name
      BY <1>5, <2>1, <2>2, NameAdded
    <2> QED  BY <1>2, <1>3, <1>7, <1>8, <2>2, <2>4, <2>5, NamingKeeps
  <1>9. CASE visit_Input
    <2>1. UNCHANGED scopeVars /\ AllocateIfNew(InputVar) /\ thrown' = thrown
      BY <1>9 DEF visit_Input
    <2>2. \/ DeclareAlloca(InputVar, current_function_)
          \/ Declared(InputVar) /\ UNCHANGED scope_stack_
      BY <1>5, <2>1 DEF AllocateIfNew
    <2>3. /\ scope_stack_' \in Seq(SUBSET AllocaType) /\ Len(scope_stack_') = Len(scope_stack_)
          /\ \A k \in 1 .. Len(scope_stack_) : scope_stack_[k] \subseteq scope_stack_'[k]
      BY <1>4, <1>5, <2>2, Allocated
    <2> QED  BY <1>2, <1>3, <1>6, <1>7, <1>9, <2>1, <2>3, NamingKeeps
  <1>10. CASE param
    <2>1. PICK name \in Names :
             IF Declared(name)
             THEN /\ thrown' = [what |-> "redeclared", name |-> name]
                  /\ UNCHANGED <<scopeVars, scope_stack_>>
             ELSE /\ add_variable(name)
                  /\ DeclareAlloca(name, current_function_)
                  /\ UNCHANGED thrown
      BY <1>10 DEF param
    <2>2. thrown'.what # "undeclared"
      BY <1>3, <2>1
    <2>3. CASE Declared(name)
      <3>1. UNCHANGED scopeVars /\ scope_stack_' = scope_stack_
        BY <2>1, <2>3
      <3> QED  BY <1>2, <1>5, <1>6, <1>7, <1>10, <2>2, <3>1, NamingKeeps
    <2>4. CASE ~Declared(name)
      <3>1. add_variable(name) /\ DeclareAlloca(name, current_function_)
        BY <2>1, <2>4
      <3>2. /\ scope_stack_' \in Seq(SUBSET AllocaType) /\ Len(scope_stack_') = Len(scope_stack_)
            /\ \A k \in 1 .. Len(scope_stack_) : scope_stack_[k] \subseteq scope_stack_'[k]
            /\ \E k \in 1 .. Len(scope_stack_) : \E a \in scope_stack_'[k] : a.name = name
        BY <1>4, <1>5, <3>1, Allocated
      <3>3. /\ ScopeInv' /\ Len(scopes_') = Len(scopes_)
            /\ \A q \in 1 .. Len(scopes_) - 1 : scopes_'[q].names = scopes_[q].names
            /\ \A n \in scopes_'[Len(scopes_)].names : n \in scopes_[Len(scopes_)].names \/ n = name
        BY <1>5, <3>1, NameAdded
      <3> QED  BY <1>2, <1>7, <1>10, <2>2, <3>2, <3>3, NamingKeeps
    <2> QED  BY <2>3, <2>4
  <1> QED  BY <1>8, <1>9, <1>10

\* The name of a function enters the parser's table; the generator has it.
LEMMA FuncNameKeeps ==
  ASSUME CInv, func_name
  PROVE  CInv'
  <1> DEFINE name == Head(work).name
  <1>1. <<>> \in Seq(SimpleSteps)
    OBVIOUS
  <1>2. /\ Do("name", <<>>) /\ thrown' = thrown
        /\ UNCHANGED <<functions_, current_function_, builder_>>
        /\ scope_stack_' = scope_stack_ /\ blocks' = blocks
        /\ IF name = InputVar THEN UNCHANGED scopeVars ELSE add_variable(name)
    BY DEF func_name, nameVars, irVars
  <1>3. work # <<>> /\ Head(work).op = "name" /\ thrown.what # "undeclared"
    BY <1>2, Taken
  <1>4. Placed(Head(work), Now, blocks, functions_) /\ Head(work) \in Steps
    BY <1>3, AtHand
  <1>5. name # InputVar => name \in Names /\ functions_[name] # 0
    BY <1>3, <1>4, StepFields DEF Placed
  <1>6. ScopeInv /\ scope_stack_ \in Seq(SUBSET AllocaType)
    BY DEF CInv, TypeInv
  <1> HIDE DEF name
  <1>7. \E steps \in Seq(SimpleSteps) : Do("name", steps)
    BY <1>1, <1>2, Zenon
  <1>8. CASE name = InputVar
    <2>1. /\ ScopeInv' /\ scopes_' = scopes_
      BY <1>2, <1>6, <1>8 DEF scopeVars, ScopeInv, TableOrder, NoShadowing, FreshTable
    <2> QED  BY <1>2, <1>3, <1>6, <1>7, <2>1, NamingKeeps
  <1>9. CASE name # InputVar
    <2>1. /\ ScopeInv' /\ Len(scopes_') = Len(scopes_)
          /\ \A q \in 1 .. Len(scopes_) - 1 : scopes_'[q].names = scopes_[q].names
          /\ \A n \in scopes_'[Len(scopes_)].names : n \in scopes_[Len(scopes_)].names \/ n = name
      BY <1>2, <1>5, <1>6, <1>9, NameAdded
    <2> QED  BY <1>2, <1>3, <1>5, <1>6, <1>7, <1>9, <2>1, NamingKeeps
  <1> QED  BY <1>8, <1>9

----------------------------------------------------------------------------
LEMMA Pair ==
  ASSUME NEW S, NEW a \in S, NEW b \in S
  PROVE  <<a>> \in Seq(S) /\ <<b>> \in Seq(S) /\ <<a>> \o <<b>> = <<a, b>>
  <1>1. <<a>> \in Seq(S) /\ <<b>> \in Seq(S) /\ <<a, b>> \in Seq(S)
    OBVIOUS
  <1>2. Len(<<a>>) = 1 /\ Len(<<b>>) = 1 /\ Len(<<a, b>>) = 2
    OBVIOUS
  <1>3. <<a>> \o <<b>> \in Seq(S) /\ Len(<<a>> \o <<b>>) = 2
    BY <1>1, <1>2, Joined
  <1>4. (<<a>> \o <<b>>)[1] = a /\ (<<a>> \o <<b>>)[2] = b
    BY <1>1, <1>2, Joined
  <1>5. \A i \in 1 .. 2 : (<<a>> \o <<b>>)[i] = <<a, b>>[i]
    BY <1>4
  <1> QED  BY <1>1, <1>2, <1>3, <1>5, SeqEqual

\* Blocks and functions: what a step opens, a step that it leaves closes.
LEMMA BlockKeeps ==
  ASSUME CInv, visit_Block
  PROVE  CInv'
  <1> DEFINE t == Tail(work)
             end == Step("end_block")
             steps == <<Stmts, end>>
  <1>1. /\ Do("block", steps) /\ push /\ thrown' = thrown /\ scope_stack_' = scope_stack_
        /\ functions_' = functions_ /\ current_function_' = current_function_
        /\ blocks' = blocks /\ builder_' = builder_
    BY DEF visit_Block, nameVars, irVars
  <1>2. work # <<>> /\ Head(work).op = "block" /\ work' = steps \o t /\ thrown'.what # "undeclared"
    BY <1>1, Taken
  <1>3. /\ t \in Seq(Steps) /\ Now \in Context
        /\ Resolves(Now, functions_, scopes_, scope_stack_)
        /\ Chain(t, Behind(Head(work), Now), blocks, functions_, scopes_, scope_stack_)
    BY <1>2, AtHand
  <1>4. Behind(Head(work), Now) = Now
    BY <1>2 DEF Behind
  <1>5. ScopeInv /\ Len(scopes_) \in Nat /\ Len(scope_stack_) \in Nat
    BY TableType DEF CInv, TypeInv
  <1>6. /\ ScopeInv' /\ Len(scopes_') = Len(scopes_) + 1
        /\ \A q \in 1 .. Len(scopes_) : scopes_'[q] = scopes_[q]
        /\ scopes_'[Len(scopes_) + 1].names = {}
    BY <1>1, <1>5, PushTable
  <1>7. \A d \in Context : Within(d, Now) /\ Resolves(d, functions_, scopes_, scope_stack_)
                           => Resolves(d, functions_, scopes_', scope_stack_)
    <2>1. \A d \in Context : Within(d, Now) =>
            \A q \in 1 .. d.tables : q \in 1 .. Len(scopes_)
      BY <1>5 DEF Within, Now, Context
    <2> QED  BY <1>6, <2>1 DEF Resolves
  <1> HIDE DEF t
  <1>8. Chain(t, Now, blocks, functions_, scopes_', scope_stack_)
    BY <1>3, <1>4, <1>7, Keep
  <1>9. /\ Now' \in Context /\ Now'.tables = Len(scopes_) + 1 /\ Now'.allocas = Len(scope_stack_)
        /\ Now'.func = current_function_
    BY <1>1, <1>3, <1>5, <1>6 DEF Now, Context
  <1>10. Resolves(Now', functions_, scopes_', scope_stack_)
    <2>1. \A q \in 1 .. Len(scopes_) + 1 : q = Len(scopes_) + 1 \/ q \in 1 .. Len(scopes_)
      BY <1>5
    <2> QED  BY <1>3, <1>6, <1>9, <2>1 DEF Resolves, Now
  <1>11. end \in Steps /\ end.op = "end_block" /\ Stmts \in Steps /\ Stmts.op = "stmts"
    BY DEF Step, Stmts, Steps, PlainOps
  <1> HIDE DEF end
  <1>12. Behind(end, Now') = Now
    BY <1>1, <1>5, <1>6, <1>9, <1>11 DEF Behind, Now
  <1>13. Placed(end, Now', blocks, functions_) /\ Placed(Stmts, Now', blocks, functions_)
         /\ Behind(Stmts, Now') = Now'
    BY <1>11 DEF Placed, Behind
  <1>14. Chain(<<end>> \o t, Now', blocks, functions_, scopes_', scope_stack_)
    BY <1>3, <1>8, <1>9, <1>10, <1>11, <1>12, <1>13, PrependEnd
  <1>15. <<Stmts>> \in Seq(Steps) /\ <<end>> \in Seq(Steps) /\ <<Stmts>> \o <<end>> = steps
    BY <1>11, Pair
  <1>16. <<end>> \o t \in Seq(Steps) /\ <<Stmts>> \o (<<end>> \o t) = steps \o t
         /\ steps \o t \in Seq(Steps)
    <2>1. <<end>> \o t \in Seq(Steps)
      BY <1>3, <1>15, Joined
    <2>2. <<Stmts>> \o (<<end>> \o t) \in Seq(Steps)
      BY <1>15, <2>1, Joined
    <2>3. (<<Stmts>> \o <<end>>) \o t = <<Stmts>> \o (<<end>> \o t)
      BY <1>3, <1>15, ConcatAssociative
    <2> QED  BY <1>15, <2>1, <2>2, <2>3
  <1>17. \A i \in 1 .. Len(<<Stmts>>) : Behind(<<Stmts>>[i], Now') = Now'
                                       /\ Placed(<<Stmts>>[i], Now', blocks, functions_)
    BY <1>13
  <1>18. Chain(<<Stmts>> \o (<<end>> \o t), Now', blocks, functions_, scopes_', scope_stack_)
    BY <1>9, <1>10, <1>14, <1>15, <1>16, <1>17, PrependSame
  <1> HIDE DEF steps
  <1>19. Chain(work', Now', blocks', functions_', scopes_', scope_stack_')
    BY <1>1, <1>2, <1>16, <1>18
  <1>20. TypeInv'
    BY <1>1, <1>2, <1>6, <1>16 DEF CInv, TypeInv
  <1> QED  BY <1>1, <1>2, <1>19, <1>20 DEF CInv

LEMMA Quadruple ==
  ASSUME NEW S, NEW a \in S, NEW b \in S, NEW c \in S, NEW d \in S
  PROVE  /\ <<a, b, c>> \in Seq(S) /\ <<d>> \in Seq(S) /\ <<a, b, c>> \o <<d>> = <<a, b, c, d>>
  <1>1. <<a, b, c>> \in Seq(S) /\ <<d>> \in Seq(S) /\ <<a, b, c, d>> \in Seq(S)
    OBVIOUS
  <1>2. Len(<<a, b, c>>) = 3 /\ Len(<<d>>) = 1 /\ Len(<<a, b, c, d>>) = 4
    OBVIOUS
  <1>3. <<a, b, c>> \o <<d>> \in Seq(S) /\ Len(<<a, b, c>> \o <<d>>) = 4
    BY <1>1, <1>2, Joined
  <1>4. \A i \in 1 .. 3 : (<<a, b, c>> \o <<d>>)[i] = <<a, b, c>>[i]
    BY <1>1, <1>2, Joined
  <1>5. (<<a, b, c>> \o <<d>>)[4] = d
    BY <1>1, <1>2, Joined
  <1>6. \A i \in 1 .. 4 : (<<a, b, c>> \o <<d>>)[i] = <<a, b, c, d>>[i]
    BY <1>4, <1>5
  <1> QED  BY <1>1, <1>2, <1>3, <1>6, SeqEqual

\* A function opens a table on both sides; what goes on behind it is as before.
LEMMA FuncKeeps ==
  ASSUME CInv, visit_Func
  PROVE  CInv'
  <1>1. PICK name \in Names \cup {InputVar} :
          /\ Visit("expr", FuncSteps(name))
          /\ functions_' = [n \in Names |-> IF n = name THEN NextFunction ELSE functions_[n]]
    BY DEF visit_Func
  <1> DEFINE t == Tail(work)
             nm == [op |-> "name", name |-> name]
             end == [op |-> "end_func", func |-> current_function_, block |-> builder_]
             some == <<Params, nm, Stmts>>
             steps == <<Params, nm, Stmts, end>>
             new == NewBlock(NextFunction)
  <1>2. /\ Visit("expr", steps) /\ push /\ thrown' = thrown
        /\ scope_stack_' = Append(scope_stack_, {})
        /\ current_function_' = NextFunction /\ blocks' = Append(blocks, new)
        /\ builder_' = Len(blocks) + 1
    BY <1>1 DEF visit_Func, FuncSteps
  <1>3. /\ work # <<>> /\ Head(work).op = "expr" /\ work' = steps \o t
        /\ thrown'.what # "undeclared"
    BY <1>2, Taken
  <1>4. /\ t \in Seq(Steps) /\ Now \in Context
        /\ Resolves(Now, functions_, scopes_, scope_stack_)
        /\ Chain(t, Behind(Head(work), Now), blocks, functions_, scopes_, scope_stack_)
    BY <1>3, AtHand
  <1>5. Behind(Head(work), Now) = Now
    BY <1>3 DEF Behind
  <1>6. /\ ScopeInv /\ Len(scopes_) \in Nat /\ Len(scope_stack_) \in Nat /\ Len(blocks) \in Nat
        /\ scope_stack_ \in Seq(SUBSET AllocaType) /\ functions_ \in [Names -> Nat]
        /\ current_function_ \in Nat /\ blocks \in Seq(BlockType)
        /\ builder_ \in 1 .. Len(blocks) /\ blocks[builder_].func = current_function_
    BY TableType DEF CInv, TypeInv
  <1>7. NextFunction \in Nat \ {0}
    BY NextFunctionType DEF CInv
  <1>8. /\ ScopeInv' /\ Len(scopes_') = Len(scopes_) + 1
        /\ \A q \in 1 .. Len(scopes_) : scopes_'[q] = scopes_[q]
        /\ \A q \in 1 .. Len(scopes_) : scopes_[q].names \subseteq Names
        /\ scopes_'[Len(scopes_) + 1].names = {}
    BY <1>2, <1>6, PushTable, TableType
  <1>9. /\ scope_stack_' \in Seq(SUBSET AllocaType) /\ Len(scope_stack_') = Len(scope_stack_) + 1
        /\ \A k \in 1 .. Len(scope_stack_) : scope_stack_'[k] = scope_stack_[k]
    BY <1>2, <1>6, AppendProperties
  <1>10. functions_' \in [Names -> Nat] /\ \A n \in Names : functions_[n] # 0 => functions_'[n] # 0
    BY <1>1, <1>6, <1>7
  <1>11. /\ blocks' \in Seq(BlockType) /\ Len(blocks') = Len(blocks) + 1
         /\ \A b \in 1 .. Len(blocks) : b \in 1 .. Len(blocks') /\ blocks'[b] = blocks[b]
         /\ blocks'[Len(blocks) + 1].func = NextFunction
    <2>1. new \in BlockType /\ new.func = NextFunction
      BY <1>7 DEF NewBlock, BlockType
    <2> HIDE DEF new
    <2> QED  BY <1>2, <1>6, <2>1
  <1>12. \A d \in Context : Within(d, Now) /\ Resolves(d, functions_, scopes_, scope_stack_)
                            => Resolves(d, functions_', scopes_', scope_stack_')
    <2>1. \A d \in Context : Within(d, Now) =>
            /\ \A q \in 1 .. d.tables : q \in 1 .. Len(scopes_)
            /\ \A k \in 1 .. d.allocas : k \in 1 .. Len(scope_stack_)
      BY <1>6 DEF Within, Now, Context
    <2> SUFFICES ASSUME NEW d \in Context, Within(d, Now),
                        Resolves(d, functions_, scopes_, scope_stack_),
                        NEW q \in 1 .. d.tables, NEW n \in scopes_'[q].names, functions_'[n] = 0
                 PROVE  \E k \in 1 .. d.allocas : \E a \in scope_stack_'[k] : a.name = n
      BY DEF Resolves
    <2>2. n \in scopes_[q].names /\ n \in Names
      BY <2>1, <1>8
    <2>3. functions_[n] = 0
      BY <2>2, <1>10
    <2>4. PICK k \in 1 .. d.allocas : \E a \in scope_stack_[k] : a.name = n
      BY <2>2, <2>3 DEF Resolves
    <2> QED  BY <2>1, <2>4, <1>9
  <1> HIDE DEF t
  <1>13. Chain(t, Now, blocks', functions_', scopes_', scope_stack_')
    BY <1>4, <1>5, <1>10, <1>11, <1>12, Keep
  <1>14. /\ Now' \in Context /\ Now'.tables = Len(scopes_) + 1 /\ Now'.func = NextFunction
         /\ Now'.allocas = Len(scope_stack_) + 1
    BY <1>2, <1>6, <1>7, <1>8, <1>9 DEF Now, Context
  <1>15. Resolves(Now', functions_', scopes_', scope_stack_')
    <2>1. Resolves(Now, functions_', scopes_', scope_stack_')
      <3>1. \A d \in Context : Within(d, d)
        BY DEF Within, Context
      <3> QED  BY <1>4, <1>12, <3>1
    <2>2. \A q \in 1 .. Len(scopes_) + 1 : q = Len(scopes_) + 1 \/ q \in 1 .. Len(scopes_)
      BY <1>6
    <2>3. \A k \in 1 .. Len(scope_stack_) : k \in 1 .. Len(scope_stack_) + 1
      BY <1>6
    <2> QED  BY <1>8, <1>14, <2>1, <2>2, <2>3 DEF Resolves, Now
  <1>16. /\ end \in Steps /\ end.op = "end_func" /\ end.func = current_function_
         /\ end.block = builder_
         /\ nm \in Steps /\ nm.op = "name" /\ nm.name = name
         /\ Stmts \in Steps /\ Stmts.op = "stmts" /\ Params \in Steps /\ Params.op = "params"
    BY <1>6 DEF Step, Stmts, Params, Steps, PlainOps
  <1> HIDE DEF end, nm
  <1>17. Behind(end, Now') = Now
    BY <1>6, <1>14, <1>16 DEF Behind, Now
  <1>18. Placed(end, Now', blocks', functions_')
    BY <1>6, <1>11, <1>16 DEF Placed
  <1>19. \A s \in {Params, nm, Stmts} : Behind(s, Now') = Now' /\ Placed(s, Now', blocks', functions_')
    <2>1. name # InputVar => functions_'[name] # 0
      BY <1>1, <1>7
    <2> QED  BY <1>16, <2>1 DEF Placed, Behind
  <1>20. Chain(<<end>> \o t, Now', blocks', functions_', scopes_', scope_stack_')
    BY <1>4, <1>13, <1>14, <1>15, <1>16, <1>17, <1>18, PrependEnd
  <1>21. some \in Seq(Steps) /\ <<end>> \in Seq(Steps) /\ some \o <<end>> = steps
    BY <1>16, Quadruple
  <1>22. \A i \in 1 .. Len(some) : Behind(some[i], Now') = Now'
                                  /\ Placed(some[i], Now', blocks', functions_')
    BY <1>19
  <1> HIDE DEF some, steps
  <1>23. <<end>> \o t \in Seq(Steps) /\ some \o (<<end>> \o t) = steps \o t
         /\ steps \o t \in Seq(Steps)
    <2>1. <<end>> \o t \in Seq(Steps)
      BY <1>4, <1>21, Joined
    <2>2. some \o (<<end>> \o t) \in Seq(Steps)
      BY <1>21, <2>1, Joined
    <2>3. (some \o <<end>>) \o t = some \o (<<end>> \o t)
      BY <1>4, <1>21, ConcatAssociative
    <2> QED  BY <1>21, <2>1, <2>2, <2>3
  <1>24. Chain(some \o (<<end>> \o t), Now', blocks', functions_', scopes_', scope_stack_')
    BY <1>14, <1>15, <1>20, <1>21, <1>22, <1>23, PrependSame
  <1>25. Chain(work', Now', blocks', functions_', scopes_', scope_stack_')
    BY <1>3, <1>23, <1>24 DEF t
  <1>26. builder_' \in 1 .. Len(blocks') /\ blocks'[builder_'].func = current_function_'
    BY <1>2, <1>6, <1>11
  <1>27. work' \in Seq(Steps)
    BY <1>3, <1>23 DEF t
  <1>28. current_function_' \in Nat
    BY <1>2, <1>7
  <1>29. TypeInv'
    BY <1>8, <1>9, <1>10, <1>11, <1>26, <1>27, <1>28 DEF TypeInv
  <1> QED  BY <1>3, <1>25, <1>26, <1>29 DEF CInv

\* A block or a function done: its tables are closed, and the next step is that of
\* the context it was opened in.
LEMMA EndKeeps ==
  ASSUME CInv, end_block \/ end_func
  PROVE  CInv'
  <1> DEFINE c == Behind(Head(work), Now)
             m == Len(scope_stack_) - (IF Head(work).op = "end_func" THEN 1 ELSE 0)
  <1>1. \E op \in {"end_block", "end_func"} : Do(op, <<>>)
    BY DEF end_block, end_func
  <1>2. PICK op \in {"end_block", "end_func"} : Do(op, <<>>)
    BY <1>1
  <1>3. /\ work # <<>> /\ Head(work).op = op /\ work' = <<>> \o Tail(work)
        /\ thrown.what # "undeclared"
    BY <1>2, Taken
  <1>4. /\ Tail(work) \in Seq(Steps) /\ Head(work) \in Steps /\ c \in Context
        /\ Placed(Head(work), Now, blocks, functions_)
        /\ Chain(Tail(work), c, blocks, functions_, scopes_, scope_stack_)
    BY <1>3, AtHand
  <1>5. work' = Tail(work)
    BY <1>3, <1>4, ConcatEmptySeq
  <1>6. /\ pop /\ functions_' = functions_ /\ thrown' = thrown
        /\ op = "end_block" => /\ scope_stack_' = scope_stack_ /\ blocks' = blocks
                               /\ current_function_' = current_function_ /\ builder_' = builder_
        /\ op = "end_func" => /\ scope_stack_' = SubSeq(scope_stack_, 1, Len(scope_stack_) - 1)
                              /\ blocks' = EndedIfOpen(blocks, builder_)
                              /\ current_function_' = Head(work).func
                              /\ builder_' = Head(work).block
    BY <1>2, <1>3 DEF end_block, end_func, Do, nameVars, irVars
  <1>7. /\ ScopeInv /\ Len(scopes_) \in Nat /\ Len(scope_stack_) \in Nat
        /\ scope_stack_ \in Seq(SUBSET AllocaType) /\ functions_ \in [Names -> Nat]
        /\ current_function_ \in Nat /\ blocks \in Seq(BlockType)
        /\ builder_ \in 1 .. Len(blocks) /\ blocks[builder_].func = current_function_
    BY TableType DEF CInv, TypeInv
  <1>8. c.tables = Len(scopes_) - 1 /\ c.allocas = m /\ c.tables \in Nat \ {0}
        /\ c.allocas \in Nat \ {0} /\ m \in Nat \ {0} /\ m <= Len(scope_stack_)
        /\ c.func = IF op = "end_func" THEN Head(work).func ELSE current_function_
    BY <1>2, <1>3, <1>4, <1>7 DEF Behind, Now, Context
  <1>9. Len(scopes_) >= 2
    BY <1>7, <1>8
  <1>10. /\ ScopeInv' /\ Len(scopes_') = Len(scopes_) - 1
         /\ \A q \in 1 .. Len(scopes_) - 1 : scopes_'[q] = scopes_[q]
    BY <1>6, <1>7, <1>9, PopTable
  <1>11. /\ scope_stack_' \in Seq(SUBSET AllocaType) /\ Len(scope_stack_') = m
         /\ \A k \in 1 .. m : scope_stack_'[k] = scope_stack_[k]
    <2>1. CASE op = "end_block"
      BY <1>3, <1>6, <1>7, <2>1
    <2>2. CASE op = "end_func"
      <3>1. m = Len(scope_stack_) - 1
        BY <1>3, <2>2
      <3> HIDE DEF m
      <3>2. scope_stack_' = SubSeq(scope_stack_, 1, m)
        BY <1>6, <2>2, <3>1
      <3>3. \A k \in 1 .. m : scope_stack_[k] \in SUBSET AllocaType
        BY <1>7, <1>8
      <3>4. /\ scope_stack_' \in Seq(SUBSET AllocaType) /\ Len(scope_stack_') = m
        BY <1>8, <3>2, <3>3, SubSeqProperties
      <3>5. \A k \in 1 .. m : scope_stack_'[k] = scope_stack_[k]
        BY <1>7, <1>8, <3>2
      <3> QED  BY <3>4, <3>5
    <2> QED  BY <1>2, <2>1, <2>2
  <1>12. Extends(blocks, blocks')
    BY <1>2, <1>6, <1>7, BlockStays
  <1>13. /\ builder_' \in 1 .. Len(blocks') /\ blocks'[builder_'].func = current_function_'
         /\ current_function_' \in Nat /\ current_function_' = c.func
    <2>1. CASE op = "end_block"
      BY <1>6, <1>7, <1>8, <2>1
    <2>2. CASE op = "end_func"
      BY <1>3, <1>4, <1>6, <1>8, <1>12, <2>2, StepFields DEF Placed, Extends
    <2> QED  BY <1>2, <2>1, <2>2
  <1> HIDE DEF c, m
  <1>14. Now' = c
    BY <1>4, <1>8, <1>10, <1>11, <1>13 DEF Now, Context
  <1>15. \A d \in Context : Within(d, c) /\ Resolves(d, functions_, scopes_, scope_stack_)
                            => Resolves(d, functions_, scopes_', scope_stack_')
    <2>1. \A d \in Context : Within(d, c) =>
            /\ \A q \in 1 .. d.tables : q \in 1 .. Len(scopes_) - 1
            /\ \A k \in 1 .. d.allocas : k \in 1 .. m
      BY <1>7, <1>8 DEF Within, Context
    <2> QED  BY <1>10, <1>11, <2>1 DEF Resolves
  <1>16. Chain(Tail(work), c, blocks', functions_, scopes_', scope_stack_')
    <2>1. \A b \in 1 .. Len(blocks) : b \in 1 .. Len(blocks') /\ blocks'[b].func = blocks[b].func
      BY <1>12 DEF Extends
    <2> QED  BY <1>4, <1>15, <2>1, Keep
  <1>17. TypeInv'
    BY <1>4, <1>5, <1>6, <1>7, <1>10, <1>11, <1>12, <1>13 DEF TypeInv, Extends
  <1> QED  BY <1>3, <1>5, <1>6, <1>13, <1>14, <1>16, <1>17 DEF CInv

----------------------------------------------------------------------------
\* At the start one function, one table on each side, and two steps.
LEMMA InitCInv ==
  CodegenInit => CInv
  <1> SUFFICES ASSUME CodegenInit PROVE CInv
    OBVIOUS
  <1> DEFINE stop == Step("end_program")
             steps == <<Stmts, stop>>
  <1>1. /\ ScopeInv /\ Len(scopes_) = 1 /\ scopes_ = <<EmptyTable(0)>>
    BY ScopeInitInv DEF CodegenInit, ScopeInit
  <1>2. scopes_[1].names = {}
    BY <1>1 DEF EmptyTable
  <1>3. NewBlock(1) \in BlockType /\ NewBlock(1).func = 1
    BY DEF NewBlock, BlockType
  <1>4. /\ blocks \in Seq(BlockType) /\ Len(blocks) = 1 /\ builder_ = 1
        /\ blocks[1].func = 1 /\ current_function_ = 1
    BY <1>3 DEF CodegenInit
  <1>5. scope_stack_ \in Seq(SUBSET AllocaType) /\ Len(scope_stack_) = 1
    BY DEF CodegenInit
  <1>6. functions_ \in [Names -> Nat]
    BY DEF CodegenInit
  <1>7. Stmts \in Steps /\ Stmts.op = "stmts" /\ stop \in Steps /\ stop.op = "end_program"
    BY DEF Step, Stmts, Steps, PlainOps
  <1> HIDE DEF stop
  <1>8. steps \in Seq(Steps) /\ Len(steps) = 2 /\ \A i \in 1 .. 2 : steps[i] \in {Stmts, stop}
    BY <1>7
  <1>9. work = steps
    BY DEF CodegenInit, stop
  <1>10. TypeInv
    BY <1>1, <1>4, <1>5, <1>6, <1>8, <1>9 DEF TypeInv
  <1>11. Now \in Context /\ Now.tables = 1
    BY <1>1, <1>4, <1>5 DEF Now, Context
  <1> DEFINE ctx == [i \in 1 .. 3 |-> Now]
  <1>12. \A s \in {Stmts, stop} : Behind(s, Now) = Now /\ Placed(s, Now, blocks, functions_)
    BY <1>7 DEF Behind, Placed
  <1> HIDE DEF steps
  <1>13. Along(work, ctx, Now, blocks, functions_)
    <2>1. \A i \in 1 .. 2 : ctx[i] = Now /\ ctx[i + 1] = Now
      OBVIOUS
    <2>2. ctx \in [1 .. 3 -> Context] /\ ctx[1] = Now
      BY <1>11
    <2> HIDE DEF ctx
    <2>3. \A i \in 1 .. 2 : /\ ctx[i + 1] = Behind(steps[i], ctx[i])
                           /\ Placed(steps[i], ctx[i], blocks, functions_)
      BY <1>8, <1>12, <2>1
    <2>4. Len(steps) = 2 /\ Len(steps) + 1 = 3
      BY <1>8
    <2> QED  BY <1>9, <2>2, <2>3, <2>4 DEF Along
  <1>14. Within(Now, Now)
    BY <1>11 DEF Within, Context
  <1>15. Resolves(Now, functions_, scopes_, scope_stack_)
    BY <1>2, <1>11 DEF Resolves
  <1>16. Ordered(ctx) /\ Good(ctx, Now, functions_, scopes_, scope_stack_)
    BY <1>14, <1>15 DEF Ordered, Good
  <1>17. Chain(work, Now, blocks, functions_, scopes_, scope_stack_)
    BY <1>13, <1>16 DEF Chain
  <1>18. thrown.what # "undeclared"
    BY DEF CodegenInit, NothingThrown
  <1> QED  BY <1>4, <1>10, <1>17, <1>18 DEF CInv

\* Every step keeps the invariant.
LEMMA NextCInv ==
  CInv /\ [CodegenNext]_codegenVars => CInv'
  <1> SUFFICES ASSUME CInv, [CodegenNext]_codegenVars PROVE CInv'
    OBVIOUS
  <1>1. CASE UNCHANGED codegenVars
    BY <1>1 DEF codegenVars, scopeVars, nameVars, irVars, CInv, TypeInv, ScopeInv, TableOrder,
                NoShadowing, FreshTable, Now
  <1>2. CASE emit \/ fold \/ return \/ end_program
    BY <1>2, WritesKeep
  <1>3. CASE visit_Expression \/ visit_Statement \/ visit_Assignment \/ end_params
    BY <1>3, VisitsKeep
  <1>4. CASE visit_Variable
    BY <1>4, VariableKeeps
  <1>5. CASE assign \/ visit_Input \/ param
    BY <1>5, NamesKeep
  <1>6. CASE func_name
    BY <1>6, FuncNameKeeps
  <1>7. CASE visit_Block
    BY <1>7, BlockKeeps
  <1>8. CASE visit_Func
    BY <1>8, FuncKeeps
  <1>9. CASE end_block \/ end_func
    BY <1>9, EndKeeps
  <1>10. CASE branch
    BY <1>10, BranchKeeps
  <1>11. CASE visit_While \/ loop
    BY <1>11, LoopKeeps
  <1>12. CASE join \/ repeat
    BY <1>12, JoinKeeps
  <1>13. CASE Finished
    BY <1>1, <1>13 DEF Finished
  <1> QED  BY <1>1, <1>2, <1>3, <1>4, <1>5, <1>6, <1>7, <1>8, <1>9, <1>10, <1>11, <1>12, <1>13
              DEF CodegenNext

LEMMA CInvHolds == CodegenSpec => []CInv
  BY InitCInv, NextCInv, PTL DEF CodegenSpec

\* A name that the parser let pass is always found by the code generator, though
\* the two symbol tables have different rules: codegen.cpp:453 is never reached.
THEOREM NamesAreFound == CodegenSpec => []NamesResolve
  <1>1. CInv => NamesResolve
    BY DEF CInv, NamesResolve
  <1> QED  BY <1>1, CInvHolds, PTL

\* Instructions and new blocks go to the function under way, also behind a function
\* in the middle of an expression, and behind a return in a branch or a loop.
THEOREM InsertBlockIsCurrent == CodegenSpec => []InsertsIntoCurrentFunction
  <1>1. CInv => InsertsIntoCurrentFunction
    BY DEF CInv, InsertsIntoCurrentFunction
  <1> QED  BY <1>1, CInvHolds, PTL

----------------------------------------------------------------------------
(***************************************************************************)
(* Blocks.  A block that lacks its terminator is the insert block, or a    *)
(* step that is left makes it the insert block, and only one does.         *)
(***************************************************************************)
Jumps == {"join", "repeat", "end_func"}

JumpSteps(w) == {i \in 1 .. Len(w) : w[i].op \in Jumps}

\* The blocks that steps of w go on in.
Awaited(w) == {w[i].block : i \in JumpSteps(w)}

AwaitedOnce(w) == \A i, j \in JumpSteps(w) : w[i].block = w[j].block => i = j

EndsProgram(w) ==
  /\ w # <<>> => w[Len(w)].op = "end_program"
  /\ \A i \in 1 .. Len(w) : w[i].op = "end_program" => i = Len(w)

\* The blocks of bs that still lack a terminator when b is the insert block.
Pending(w, b) == Awaited(w) \cup (IF w = <<>> THEN {} ELSE {b})

Begun(b) == b \in returned \/ (blocks[b].open /\ blocks[b].ends = 0)
Done(b)  == ~blocks[b].open /\ (b \in returned \/ blocks[b].ends = 1)

BInv ==
  /\ AwaitedOnce(work) /\ EndsProgram(work)
  /\ builder_ \notin Awaited(work)
  /\ \A b \in 1 .. Len(blocks) :
       IF b \in Pending(work, builder_) THEN Begun(b) ELSE Done(b)

Harmless(p) == \A i \in 1 .. Len(p) : p[i].op \notin Jumps \cup {"end_program"}

\* What an instruction and a terminator change of the blocks.
LEMMA BlockFields ==
  ASSUME NEW bs \in Seq(BlockType), NEW b \in 1 .. Len(bs)
  PROVE  /\ Len(Emitted(bs, b)) = Len(bs) /\ Len(Ended(bs, b)) = Len(bs)
         /\ Len(EndedIfOpen(bs, b)) = Len(bs)
         /\ \A c \in 1 .. Len(bs) : c # b => /\ Emitted(bs, b)[c] = bs[c] /\ Ended(bs, b)[c] = bs[c]
                                            /\ EndedIfOpen(bs, b)[c] = bs[c]
         /\ Emitted(bs, b)[b].open /\ Emitted(bs, b)[b].ends = bs[b].ends
         /\ ~Ended(bs, b)[b].open /\ Ended(bs, b)[b].ends = bs[b].ends + 1
         /\ ~EndedIfOpen(bs, b)[b].open
         /\ bs[b].open => EndedIfOpen(bs, b)[b].ends = bs[b].ends + 1
  <1>1. Len(bs) \in Nat /\ DOMAIN bs = 1 .. Len(bs) /\ bs[b] \in BlockType
    OBVIOUS
  <1> DEFINE emitted == [bs[b] EXCEPT !.open = TRUE]
             closed  == [bs[b] EXCEPT !.open = FALSE]
             ended   == [closed EXCEPT !.ends = closed.ends + 1]
  <1>2. emitted.open /\ emitted.ends = bs[b].ends
    BY <1>1 DEF BlockType
  <1>3. closed.open = FALSE /\ closed.ends = bs[b].ends /\ closed \in BlockType
    BY <1>1 DEF BlockType
  <1>4. \A x \in BlockType : /\ [x EXCEPT !.ends = x.ends + 1].open = x.open
                            /\ [x EXCEPT !.ends = x.ends + 1].ends = x.ends + 1
    BY DEF BlockType
  <1>5. Ended(bs, b) = [bs EXCEPT ![b] = ended]
    BY <1>1 DEF Ended
  <1>6. Emitted(bs, b) = [bs EXCEPT ![b] = emitted]
    BY DEF Emitted
  <1> HIDE DEF closed
  <1>7. ended.open = FALSE /\ ended.ends = bs[b].ends + 1
    BY <1>3, <1>4
  <1> HIDE DEF emitted, ended
  <1>8. \A x : /\ Len([bs EXCEPT ![b] = x]) = Len(bs) /\ [bs EXCEPT ![b] = x][b] = x
              /\ \A c \in 1 .. Len(bs) : c # b => [bs EXCEPT ![b] = x][c] = bs[c]
    BY <1>1
  <1> QED  BY <1>2, <1>5, <1>6, <1>7, <1>8 DEF EndedIfOpen

\* The blocks that the steps of a sequence await, put before others and taken off.
LEMMA AwaitedConcat ==
  ASSUME NEW p \in Seq(Steps), NEW t \in Seq(Steps)
  PROVE  /\ Awaited(p \o t) = Awaited(p) \cup Awaited(t)
         /\ AwaitedOnce(p) /\ AwaitedOnce(t) /\ Awaited(p) \cap Awaited(t) = {}
              => AwaitedOnce(p \o t)
  <1> DEFINE m == Len(p)
             w == p \o t
  <1>1. /\ m \in Nat /\ Len(t) \in Nat /\ Len(w) = m + Len(t)
        /\ \A i \in 1 .. m : w[i] = p[i]
        /\ \A i \in 1 .. Len(t) : w[m + i] = t[i]
    <2>1. Len(w) = m + Len(t)
      BY Joined
    <2>2. \A i \in 1 .. m : w[i] = p[i]
      BY Joined
    <2>3. \A i \in 1 .. Len(t) : w[m + i] = t[i]
      BY Joined
    <2> QED  BY <2>1, <2>2, <2>3
  <1> HIDE DEF m, w
  <1>2. \A i \in JumpSteps(w) : \/ i \in JumpSteps(p) /\ w[i].block = p[i].block
                                \/ \E k \in JumpSteps(t) : i = m + k /\ w[i].block = t[k].block
    <2> SUFFICES ASSUME NEW i \in JumpSteps(w), i \notin 1 .. m
                 PROVE  \E k \in JumpSteps(t) : i = m + k /\ w[i].block = t[k].block
      BY <1>1 DEF JumpSteps, m
    <2>1. PICK k \in 1 .. Len(t) : i = m + k
      <3>1. i - m \in 1 .. Len(t) /\ i = m + (i - m)
        BY <1>1 DEF JumpSteps
      <3> QED  BY <3>1
    <2> QED  BY <1>1, <2>1 DEF JumpSteps
  <1>3. \A i \in JumpSteps(p) : i \in JumpSteps(w) /\ w[i].block = p[i].block
    BY <1>1 DEF JumpSteps, m
  <1>4. \A k \in JumpSteps(t) : m + k \in JumpSteps(w) /\ w[m + k].block = t[k].block
    BY <1>1 DEF JumpSteps
  <1>5. Awaited(w) = Awaited(p) \cup Awaited(t)
    BY <1>2, <1>3, <1>4 DEF Awaited
  <1>6. ASSUME AwaitedOnce(p), AwaitedOnce(t), Awaited(p) \cap Awaited(t) = {}
        PROVE  AwaitedOnce(w)
    <2> SUFFICES ASSUME NEW i \in JumpSteps(w), NEW j \in JumpSteps(w), w[i].block = w[j].block
                 PROVE  i = j
      BY DEF AwaitedOnce
    <2>1. \A k \in JumpSteps(p) : p[k].block \in Awaited(p)
      BY DEF Awaited
    <2>2. \A k \in JumpSteps(t) : t[k].block \in Awaited(t)
      BY DEF Awaited
    <2> QED  BY <1>2, <1>6, <2>1, <2>2 DEF AwaitedOnce
  <1> QED  BY <1>5, <1>6 DEF w

LEMMA AwaitedTail ==
  ASSUME NEW w \in Seq(Steps), w # <<>>
  PROVE  /\ Awaited(w) = Awaited(Tail(w)) \cup (IF Head(w).op \in Jumps THEN {Head(w).block} ELSE {})
         /\ AwaitedOnce(w) => /\ AwaitedOnce(Tail(w))
                              /\ Head(w).op \in Jumps => Head(w).block \notin Awaited(Tail(w))
  <1> DEFINE t == Tail(w)
  <1>1. Len(w) \in Nat \ {0} /\ Head(w) = w[1] /\ t \in Seq(Steps)
        /\ Len(t) = Len(w) - 1 /\ \A i \in 1 .. Len(w) - 1 : t[i] = w[i + 1]
    BY EmptySeq, HeadTailProperties
  <1> HIDE DEF t
  <1>2. \A i \in JumpSteps(w) : i = 1 \/ \E k \in JumpSteps(t) : i = k + 1 /\ w[i].block = t[k].block
    <2> SUFFICES ASSUME NEW i \in JumpSteps(w), i # 1
                 PROVE  \E k \in JumpSteps(t) : i = k + 1 /\ w[i].block = t[k].block
      OBVIOUS
    <2>1. PICK k \in 1 .. Len(w) - 1 : i = k + 1
      <3>1. i - 1 \in 1 .. Len(w) - 1 /\ i = (i - 1) + 1
        BY <1>1 DEF JumpSteps
      <3> QED  BY <3>1
    <2> QED  BY <1>1, <2>1 DEF JumpSteps
  <1>3. \A k \in JumpSteps(t) : /\ k + 1 \in JumpSteps(w) /\ w[k + 1].block = t[k].block
                               /\ k \in Nat \ {0}
    BY <1>1 DEF JumpSteps
  <1>4. 1 \in JumpSteps(w) <=> Head(w).op \in Jumps
    BY <1>1 DEF JumpSteps
  <1>5. Awaited(w) = Awaited(t) \cup (IF Head(w).op \in Jumps THEN {Head(w).block} ELSE {})
    <2> DEFINE here == IF Head(w).op \in Jumps THEN {Head(w).block} ELSE {}
    <2>1. \A i \in JumpSteps(w) : i = 1 => w[i].block \in here
      BY <1>1, <1>4
    <2>2. here # {} => 1 \in JumpSteps(w) /\ here = {w[1].block}
      BY <1>1, <1>4
    <2> HIDE DEF here
    <2>3. \A x \in Awaited(w) : x \in Awaited(t) \cup here
      BY <1>2, <2>1 DEF Awaited
    <2>4. \A x \in Awaited(t) : x \in Awaited(w)
      BY <1>3 DEF Awaited
    <2>5. \A x \in here : x \in Awaited(w)
      BY <2>2 DEF Awaited
    <2>6. Awaited(w) = Awaited(t) \cup here
      BY <2>3, <2>4, <2>5
    <2> QED  BY <2>6 DEF here
  <1>6. ASSUME AwaitedOnce(w) PROVE AwaitedOnce(t)
    BY <1>3, <1>6 DEF AwaitedOnce
  <1>7. ASSUME AwaitedOnce(w), Head(w).op \in Jumps PROVE Head(w).block \notin Awaited(t)
    <2> SUFFICES ASSUME NEW k \in JumpSteps(t), t[k].block = Head(w).block PROVE FALSE
      BY DEF Awaited
    <2>1. k + 1 # 1
      BY <1>3
    <2> QED  BY <1>1, <1>3, <1>4, <1>7, <2>1 DEF AwaitedOnce
  <1> QED  BY <1>5, <1>6, <1>7 DEF t

\* The end of the program stays the last step and the only one of its kind.
LEMMA EndStaysLast ==
  ASSUME NEW w \in Seq(Steps), w # <<>>, EndsProgram(w), NEW p \in Seq(Steps),
         \A i \in 1 .. Len(p) : p[i].op # "end_program"
  PROVE  IF Head(w).op = "end_program" THEN Tail(w) = <<>>
         ELSE p \o Tail(w) # <<>> /\ EndsProgram(p \o Tail(w))
  <1> DEFINE t == Tail(w)
             m == Len(p)
             v == p \o t
  <1>1. Len(w) \in Nat \ {0} /\ Head(w) = w[1] /\ t \in Seq(Steps)
        /\ Len(t) = Len(w) - 1 /\ \A i \in 1 .. Len(w) - 1 : t[i] = w[i + 1]
    BY EmptySeq, HeadTailProperties
  <1>2. /\ m \in Nat /\ Len(v) = m + Len(t)
        /\ \A i \in 1 .. m : v[i] = p[i]
        /\ \A i \in 1 .. Len(t) : v[m + i] = t[i]
    <2>1. Len(v) = m + Len(t)
      BY <1>1, Joined
    <2>2. \A i \in 1 .. m : v[i] = p[i]
      BY <1>1, Joined
    <2>3. \A i \in 1 .. Len(t) : v[m + i] = t[i]
      BY <1>1, Joined
    <2> QED  BY <2>1, <2>2, <2>3
  <1>3. v \in Seq(Steps)
    BY <1>1, Joined
  <1>4. CASE Head(w).op = "end_program"
    <2>1. 1 \in 1 .. Len(w) /\ w[1].op = "end_program"
      BY <1>1, <1>4
    <2>2. 1 = Len(w)
      BY <2>1 DEF EndsProgram
    <2> HIDE DEF t
    <2>3. Len(t) = 0
      BY <1>1, <2>2
    <2>4. t = <<>>
      BY <1>1, <2>3, EmptySeq
    <2> QED  BY <1>4, <2>4 DEF t
  <1>5. CASE Head(w).op # "end_program"
    <2> HIDE DEF v, m, t
    <2>0. w[Len(w)].op = "end_program"
      BY DEF EndsProgram
    <2>1. Len(w) >= 2 /\ Len(t) >= 1
      <3>1. Len(w) # 1
        BY <1>1, <1>5, <2>0
      <3> QED  BY <1>1, <3>1
    <2>2. v # <<>>
      BY <1>1, <1>2, <1>3, <2>1, EmptySeq
    <2>3. v[Len(v)].op = "end_program"
      <3>1. Len(t) \in 1 .. Len(t) /\ Len(t) \in 1 .. Len(w) - 1 /\ Len(t) + 1 = Len(w)
        BY <1>1, <2>1
      <3>2. v[m + Len(t)] = t[Len(t)] /\ t[Len(t)] = w[Len(t) + 1]
        BY <1>1, <1>2, <3>1
      <3> QED  BY <1>2, <2>0, <3>1, <3>2
    <2>4. ASSUME NEW i \in 1 .. Len(v), v[i].op = "end_program" PROVE i = Len(v)
      <3>1. i \notin 1 .. m
        BY <1>2, <2>4 DEF m
      <3>2. i - m \in 1 .. Len(t) /\ i = m + (i - m)
        BY <1>1, <1>2, <3>1
      <3>3. v[i] = w[(i - m) + 1] /\ (i - m) + 1 \in 1 .. Len(w)
        BY <1>1, <1>2, <3>2
      <3> QED  BY <1>1, <1>2, <2>4, <3>2, <3>3 DEF EndsProgram
    <2> QED  BY <1>5, <2>2, <2>3, <2>4 DEF EndsProgram, v, t
  <1> QED  BY <1>4, <1>5

\* What the steps that take the place of the one done await: the rest of the work
\* is as it was, the blocks it awaits exist, and it ends the program.
LEMMA WorkMoves ==
  ASSUME CInv, BInv, work # <<>>, NEW p \in Seq(Steps), work' = p \o Tail(work),
         \A i \in 1 .. Len(p) : p[i].op # "end_program",
         Head(work).op # "end_program",
         AwaitedOnce(p), Awaited(p) \cap Awaited(Tail(work)) = {}
  PROVE  /\ work' # <<>> /\ EndsProgram(work') /\ AwaitedOnce(work')
         /\ Awaited(work') = Awaited(p) \cup Awaited(Tail(work))
  <1>1. work \in Seq(Steps) /\ Tail(work) \in Seq(Steps)
    BY HeadTailProperties DEF CInv, TypeInv
  <1>2. work' # <<>> /\ EndsProgram(work')
    BY <1>1, EndStaysLast DEF BInv
  <1>3. AwaitedOnce(Tail(work))
    BY <1>1, AwaitedTail DEF BInv
  <1>4. AwaitedOnce(work')
    BY <1>1, <1>3, AwaitedConcat
  <1>5. Awaited(work') = Awaited(p) \cup Awaited(Tail(work))
    BY <1>1, AwaitedConcat
  <1> QED  BY <1>2, <1>4, <1>5

LEMMA WorkAwaits ==
  ASSUME CInv, BInv, work # <<>>
  PROVE  /\ Awaited(work) \subseteq 1 .. Len(blocks)
         /\ Awaited(Tail(work)) =
              Awaited(work) \ (IF Head(work).op \in Jumps THEN {Head(work).block} ELSE {})
         /\ Head(work).op \in Jumps => Head(work).block \in Awaited(work)
         /\ \A b \in 1 .. Len(blocks) :
              IF b = builder_ \/ b \in Awaited(work) THEN Begun(b) ELSE Done(b)
  <1>1. work \in Seq(Steps)
    BY DEF CInv, TypeInv
  <1>2. Awaited(work) \subseteq 1 .. Len(blocks)
    <2>1. \A i \in JumpSteps(work) : work[i].block \in 1 .. Len(blocks)
      BY DEF CInv, Chain, Along, Placed, JumpSteps, Jumps
    <2> QED  BY <2>1 DEF Awaited
  <1>3. /\ Awaited(work) = Awaited(Tail(work))
                           \cup (IF Head(work).op \in Jumps THEN {Head(work).block} ELSE {})
        /\ Head(work).op \in Jumps => Head(work).block \notin Awaited(Tail(work))
    BY <1>1, AwaitedTail DEF BInv
  <1>4. \A b \in 1 .. Len(blocks) :
           IF b = builder_ \/ b \in Awaited(work) THEN Begun(b) ELSE Done(b)
    BY DEF BInv, Pending
  <1> QED  BY <1>2, <1>3, <1>4

\* Steps that await nothing.
LEMMA HarmlessAwaits ==
  ASSUME NEW p, Harmless(p)
  PROVE  /\ Awaited(p) = {} /\ AwaitedOnce(p)
         /\ \A i \in 1 .. Len(p) : p[i].op # "end_program"
  BY DEF Harmless, Awaited, AwaitedOnce, JumpSteps

\* An instruction, a return statement, or nothing at all in the insert block.
LEMMA QuietBlocks ==
  ASSUME CInv, BInv, work # <<>>, Head(work).op \notin Jumps \cup {"end_program"},
         NEW p \in Seq(Steps), Harmless(p), work' = p \o Tail(work), builder_' = builder_,
         \/ blocks' \in {blocks, Emitted(blocks, builder_)} /\ returned' = returned
         \/ blocks' = Ended(blocks, builder_) /\ returned' = returned \cup {builder_}
  PROVE  BInv'
  <1>1. /\ Awaited(p) = {} /\ AwaitedOnce(p) /\ \A i \in 1 .. Len(p) : p[i].op # "end_program"
    BY HarmlessAwaits
  <1>2. /\ work' # <<>> /\ EndsProgram(work') /\ AwaitedOnce(work')
        /\ Awaited(work') = Awaited(Tail(work))
    BY <1>1, WorkMoves
  <1>3. Awaited(work') = Awaited(work)
    BY <1>2, WorkAwaits
  <1>4. Pending(work', builder_') = Pending(work, builder_)
    BY <1>2, <1>3 DEF Pending
  <1>5. blocks \in Seq(BlockType) /\ builder_ \in 1 .. Len(blocks)
    BY DEF CInv, TypeInv
  <1>6. builder_ \in Pending(work, builder_) /\ Begun(builder_)
    BY WorkAwaits, <1>5 DEF Pending
  <1>7. /\ Len(blocks') = Len(blocks)
        /\ \A b \in 1 .. Len(blocks) : b # builder_ => blocks'[b] = blocks[b]
        /\ returned' \in {returned, returned \cup {builder_}}
        /\ \/ builder_ \in returned'
           \/ blocks'[builder_].open /\ blocks'[builder_].ends = blocks[builder_].ends
    <2>1. builder_ \in returned \/ blocks[builder_].open
      BY <1>6 DEF Begun
    <2>2. CASE blocks' \in {blocks, Emitted(blocks, builder_)} /\ returned' = returned
      BY <1>5, <2>1, <2>2, BlockFields
    <2>3. CASE blocks' = Ended(blocks, builder_) /\ returned' = returned \cup {builder_}
      BY <1>5, <2>3, BlockFields
    <2> QED  BY <2>2, <2>3
  <1>8. ASSUME NEW b \in 1 .. Len(blocks')
        PROVE  IF b \in Pending(work', builder_') THEN Begun(b)' ELSE Done(b)'
    BY <1>4, <1>6, <1>7 DEF BInv, Begun, Done
  <1> QED  BY <1>2, <1>3, <1>8 DEF BInv

\* The insert block gets its terminator, and the work goes on in an awaited block.
LEMMA JumpBlocks ==
  ASSUME CInv, BInv, work # <<>>, Head(work).op \in Jumps, work' = <<>> \o Tail(work),
         builder_' = Head(work).block, returned' = returned,
         blocks' \in {Ended(blocks, builder_), EndedIfOpen(blocks, builder_)}
  PROVE  BInv'
  <1> DEFINE p == <<>>
  <1>1. p \in Seq(Steps) /\ Harmless(p) /\ work' = p \o Tail(work)
    BY DEF Harmless
  <1> HIDE DEF p
  <1>2. /\ Awaited(p) = {} /\ AwaitedOnce(p) /\ \A i \in 1 .. Len(p) : p[i].op # "end_program"
    BY <1>1, HarmlessAwaits
  <1>3. Head(work).op # "end_program"
    BY DEF Jumps
  <1>4. /\ work' # <<>> /\ EndsProgram(work') /\ AwaitedOnce(work')
        /\ Awaited(work') = Awaited(Tail(work))
    BY <1>1, <1>2, <1>3, WorkMoves
  <1>5. /\ builder_' \in Awaited(work) /\ Awaited(work') = Awaited(work) \ {builder_'}
        /\ \A b \in 1 .. Len(blocks) :
              IF b = builder_ \/ b \in Awaited(work) THEN Begun(b) ELSE Done(b)
    BY <1>4, WorkAwaits
  <1>6. Pending(work', builder_') = Awaited(work) /\ builder_ \notin Awaited(work)
    BY <1>4, <1>5 DEF Pending, BInv
  <1>7. blocks \in Seq(BlockType) /\ builder_ \in 1 .. Len(blocks)
    BY DEF CInv, TypeInv
  <1>8. blocks[builder_] \in BlockType
    BY <1>7
  <1>9. /\ Len(blocks') = Len(blocks)
        /\ \A b \in 1 .. Len(blocks) : b # builder_ => blocks'[b] = blocks[b]
        /\ ~blocks'[builder_].open
        /\ blocks[builder_].open => blocks'[builder_].ends = blocks[builder_].ends + 1
    BY <1>7, BlockFields
  <1>10. ASSUME NEW b, b = builder_ PROVE Done(b)'
    <2>1. Begun(b)
      BY <1>5, <1>7, <1>10
    <2>2. b \notin returned => blocks'[b].ends = 1
      BY <1>9, <1>10, <2>1 DEF Begun
    <2> QED  BY <1>9, <1>10, <2>2 DEF Done
  <1>11. ASSUME NEW b \in 1 .. Len(blocks')
         PROVE  IF b \in Pending(work', builder_') THEN Begun(b)' ELSE Done(b)'
    BY <1>5, <1>6, <1>9, <1>10 DEF Begun, Done
  <1> QED  BY <1>4, <1>5, <1>11 DEF BInv

\* The end of the program: the insert block was the last without a terminator.
LEMMA LastBlock ==
  ASSUME CInv, BInv, end_program
  PROVE  BInv'
  <1> DEFINE p == <<>>
  <1>1. Do("end_program", p) /\ blocks' = EndedIfOpen(blocks, builder_) /\ returned' = returned
    BY DEF end_program
  <1>2. p \in Seq(Steps) /\ Harmless(p)
    BY DEF Harmless
  <1> HIDE DEF p
  <1>3. work # <<>> /\ Head(work).op = "end_program" /\ work' = p \o Tail(work)
    BY <1>1 DEF Do
  <1>4. work \in Seq(Steps) /\ blocks \in Seq(BlockType) /\ builder_ \in 1 .. Len(blocks)
    BY DEF CInv, TypeInv
  <1>5. Tail(work) = <<>>
    <2>1. \A i \in 1 .. Len(p) : p[i].op # "end_program"
      BY <1>2, HarmlessAwaits
    <2> QED  BY <1>2, <1>3, <1>4, <2>1, EndStaysLast DEF BInv
  <1>6. work' = <<>>
    BY <1>3, <1>5 DEF p
  <1>7. Awaited(work') = {} /\ AwaitedOnce(work') /\ EndsProgram(work') /\ Pending(work', builder_') = {}
    <2>1. Harmless(<<>>) /\ \A i \in 1 .. Len(<<>>) : FALSE
      BY DEF Harmless
    <2>2. Awaited(<<>>) = {} /\ AwaitedOnce(<<>>)
      BY <2>1, HarmlessAwaits
    <2> QED  BY <1>6, <2>1, <2>2 DEF EndsProgram, Pending
  <1>8. Awaited(work) = {}
    <2>1. Awaited(Tail(work)) = {}
      BY <1>5, <1>6, <1>7
    <2> QED  BY <1>3, <2>1, WorkAwaits DEF Jumps
  <1>9. ASSUME NEW b \in 1 .. Len(blocks') PROVE Done(b)'
    <2>1. /\ Len(blocks') = Len(blocks)
          /\ b # builder_ => blocks'[b] = blocks[b]
          /\ ~blocks'[builder_].open
          /\ blocks[builder_].open => blocks'[builder_].ends = blocks[builder_].ends + 1
      BY <1>1, <1>4, BlockFields
    <2>2. IF b = builder_ THEN Begun(b) ELSE Done(b)
      BY <1>3, <1>8, <2>1, WorkAwaits
    <2> QED  BY <1>1, <2>1, <2>2 DEF Begun, Done
  <1> QED  BY <1>7, <1>9 DEF BInv

\* Blocks are made: the first is the insert block, a step that takes the place of
\* the one done awaits each of the others, and the insert block is ended or
\* awaited as well.
LEMMA NewBlocksBegin ==
  ASSUME CInv, BInv, work # <<>>, Head(work).op \notin Jumps \cup {"end_program"},
         NEW p \in Seq(Steps), work' = p \o Tail(work), returned' = returned,
         \A i \in 1 .. Len(p) : p[i].op # "end_program",
         AwaitedOnce(p), builder_' = Len(blocks) + 1, Len(blocks') \in Nat,
         Len(blocks') > Len(blocks),
         \A b \in Len(blocks) + 1 .. Len(blocks') : Begun(b)',
         \A b \in 1 .. Len(blocks) : b # builder_ => blocks'[b] = blocks[b],
         Awaited(p) \ {builder_} = Len(blocks) + 2 .. Len(blocks'),
         builder_ \in Awaited(p) => \A b \in 1 .. Len(blocks) : b = builder_ => Begun(b)',
         builder_ \notin Awaited(p) => \A b \in 1 .. Len(blocks) : b = builder_ => Done(b)'
  PROVE  BInv'
  <1>1. blocks \in Seq(BlockType) /\ builder_ \in 1 .. Len(blocks) /\ Len(blocks) \in Nat
    BY DEF CInv, TypeInv
  <1>2. /\ Awaited(work) \subseteq 1 .. Len(blocks) /\ Awaited(Tail(work)) = Awaited(work)
        /\ \A b \in 1 .. Len(blocks) :
              IF b = builder_ \/ b \in Awaited(work) THEN Begun(b) ELSE Done(b)
    BY WorkAwaits
  <1>3. Awaited(p) \cap Awaited(Tail(work)) = {}
    BY <1>1, <1>2 DEF BInv
  <1>4. /\ work' # <<>> /\ EndsProgram(work') /\ AwaitedOnce(work')
        /\ Awaited(work') = Awaited(p) \cup Awaited(work)
    BY <1>2, <1>3, WorkMoves
  <1>0. \A x \in Awaited(p) : x = builder_ \/ x \in Len(blocks) + 2 .. Len(blocks')
    OBVIOUS
  <1>5. builder_' \notin Awaited(work')
    <2>1. builder_' \notin Awaited(p)
      BY <1>0, <1>1
    <2>2. builder_' \notin Awaited(work)
      BY <1>1, <1>2
    <2> QED  BY <1>4, <2>1, <2>2
  <1>6. Pending(work', builder_') = Awaited(p) \cup Awaited(work) \cup {builder_'}
    BY <1>4 DEF Pending
  <1>7. ASSUME NEW b \in 1 .. Len(blocks')
        PROVE  IF b \in Pending(work', builder_') THEN Begun(b)' ELSE Done(b)'
    <2>1. CASE b \in Len(blocks) + 1 .. Len(blocks')
      <3>1. b = builder_' \/ b \in Len(blocks) + 2 .. Len(blocks')
        BY <1>1, <2>1
      <3>2. b \in Pending(work', builder_')
        BY <1>6, <3>1
      <3> QED  BY <2>1, <3>2 DEF Begun
    <2>2. CASE b \in 1 .. Len(blocks) /\ b # builder_
      <3>1. b \in Pending(work', builder_') <=> b \in Awaited(work)
        <4>1. b \notin Awaited(p) /\ b # builder_'
          BY <1>0, <1>1, <2>2
        <4> QED  BY <1>6, <4>1
      <3> QED  BY <1>2, <2>2, <3>1 DEF Begun, Done
    <2>3. CASE b = builder_
      <3>1. b \in Pending(work', builder_') <=> b \in Awaited(p)
        BY <1>1, <1>6, <2>3 DEF BInv
      <3> QED  BY <1>1, <2>3, <3>1 DEF Begun, Done
    <2> QED  BY <1>1, <2>1, <2>2, <2>3
  <1> QED  BY <1>4, <1>5, <1>7 DEF BInv

----------------------------------------------------------------------------
QuietSteps == {s \in Steps : s.op \notin Jumps \cup {"end_program"}}

\* The steps that go on in the insert block.
LEMMA QuietActions ==
  ASSUME CInv, BInv,
         \/ emit \/ fold \/ visit_Expression \/ visit_Variable \/ visit_Assignment \/ assign
         \/ visit_Input \/ visit_Block \/ end_block \/ param \/ end_params \/ func_name
         \/ visit_Statement \/ return
  PROVE  BInv'
  <1>1. /\ {Expr, Stmts, Block, Params, Args, Emit, Fold, Return, Step("end_block")} \subseteq QuietSteps
        /\ \A els \in BOOLEAN : [op |-> "if", els |-> els] \in QuietSteps
        /\ \A name \in Names : [op |-> "assign", name |-> name] \in QuietSteps
    BY DEF Step, Expr, Stmts, Block, Params, Args, Emit, Fold, Return, QuietSteps, Steps, PlainOps, Jumps
  <1>2. /\ <<>> \in Seq(QuietSteps)
        /\ \A a \in QuietSteps : <<a>> \in Seq(QuietSteps)
        /\ \A a, b \in QuietSteps : <<a, b>> \in Seq(QuietSteps)
        /\ \A a, b, c \in QuietSteps : <<a, b, c>> \in Seq(QuietSteps)
    OBVIOUS
  <1>3. \A op \in {"emit", "fold", "expr", "args", "stmts", "block", "end_block", "params", "name",
                   "assign", "return"} : op \notin Jumps \cup {"end_program"}
    BY DEF Jumps
  <1>4. \E op \in {"emit", "fold", "expr", "args", "stmts", "block", "end_block", "params", "name",
                   "assign", "return"}, p \in Seq(QuietSteps) : Do(op, p) \/ Visit(op, p)
    <2>1. CASE emit \/ fold \/ end_block \/ end_params \/ func_name \/ return \/ assign
      BY <1>2, <2>1, Zenon DEF emit, fold, end_block, end_params, func_name, return, assign
    <2>2. CASE visit_Expression
      BY <1>1, <1>2, <2>2, Zenon DEF visit_Expression
    <2>3. CASE visit_Statement
      BY <1>1, <1>2, <2>3, Zenon DEF visit_Statement
    <2>4. CASE visit_Variable \/ visit_Input \/ visit_Assignment
      BY <1>1, <1>2, <2>4, Zenon DEF visit_Variable, visit_Input, visit_Assignment
    <2>5. CASE visit_Block
      BY <1>1, <1>2, <2>5, Zenon DEF visit_Block
    <2>6. CASE param
      BY <1>1, <1>2, <2>6, Zenon DEF param
    <2> QED  BY <2>1, <2>2, <2>3, <2>4, <2>5, <2>6
  <1>5. /\ builder_' = builder_
        /\ \/ blocks' \in {blocks, Emitted(blocks, builder_)} /\ returned' = returned
           \/ blocks' = Ended(blocks, builder_) /\ returned' = returned \cup {builder_}
    BY DEF emit, fold, end_block, end_params, func_name, return, assign, visit_Expression,
           visit_Statement, visit_Variable, visit_Input, visit_Assignment, visit_Block, param, irVars
  <1>6. PICK op \in {"emit", "fold", "expr", "args", "stmts", "block", "end_block", "params", "name",
                     "assign", "return"}, p \in Seq(QuietSteps) : Do(op, p) \/ Visit(op, p)
    BY <1>4
  <1>7. work # <<>> /\ Head(work).op \notin Jumps \cup {"end_program"} /\ work' = p \o Tail(work)
    BY <1>3, <1>6, Taken
  <1>8. p \in Seq(Steps) /\ Harmless(p)
    BY DEF QuietSteps, Harmless
  <1> QED  BY <1>5, <1>7, <1>8, QuietBlocks

\* The steps that move the insert block.
LEMMA JumpActions ==
  ASSUME CInv, BInv, join \/ repeat \/ end_func
  PROVE  BInv'
  <1>1. \E op \in Jumps : Do(op, <<>>)
    BY DEF join, repeat, end_func, Jumps
  <1>2. work # <<>> /\ Head(work).op \in Jumps /\ work' = <<>> \o Tail(work)
    BY <1>1, Taken
  <1>3. /\ builder_' = Head(work).block /\ returned' = returned
        /\ blocks' \in {Ended(blocks, builder_), EndedIfOpen(blocks, builder_)}
    BY DEF join, repeat, end_func
  <1> QED  BY <1>2, <1>3, JumpBlocks

\* A jump at the end of the insert block, and new blocks that have begun.
LEMMA JumpedBlocks ==
  ASSUME CInv, BInv, work # <<>>, NEW k \in Nat \ {0}, returned' = returned,
         blocks' = Ended(blocks, builder_) \o NewBlocks(k)
  PROVE  /\ Len(blocks) \in Nat /\ Len(blocks') = Len(blocks) + k
         /\ \A b \in Len(blocks) + 1 .. Len(blocks') : Begun(b)'
         /\ \A b \in 1 .. Len(blocks) : b # builder_ => blocks'[b] = blocks[b]
         /\ \A b \in 1 .. Len(blocks) : b = builder_ => Done(b)'
  <1> DEFINE ds == Ended(blocks, builder_)
             more == NewBlocks(k)
  <1>1. blocks \in Seq(BlockType) /\ builder_ \in 1 .. Len(blocks) /\ current_function_ \in Nat
    BY DEF CInv, TypeInv
  <1>2. /\ Len(ds) = Len(blocks) /\ \A b \in 1 .. Len(blocks) : b # builder_ => ds[b] = blocks[b]
        /\ ~ds[builder_].open /\ ds[builder_].ends = blocks[builder_].ends + 1
    BY <1>1, BlockFields
  <1>3. ds \in Seq(BlockType)
    BY <1>1, BlockStays DEF Extends
  <1>4. /\ more \in Seq(BlockType) /\ Len(more) = k
        /\ \A i \in 1 .. k : more[i].open /\ more[i].ends = 0
    BY <1>1, NewBlocksType DEF NewBlocks, NewBlock
  <1> HIDE DEF ds, more
  <1>5. blocks' = ds \o more /\ Len(blocks) \in Nat
    BY <1>1 DEF ds, more
  <1>6. Len(blocks') = Len(blocks) + k
    <2>1. Len(ds \o more) = Len(ds) + Len(more)
      BY <1>3, <1>4, Joined
    <2> QED  BY <1>2, <1>4, <1>5, <2>1
  <1>7. \A b \in 1 .. Len(blocks) : blocks'[b] = ds[b]
    BY <1>2, <1>3, <1>4, <1>5, Joined
  <1>8. \A i \in 1 .. k : blocks'[Len(blocks) + i] = more[i]
    BY <1>2, <1>3, <1>4, <1>5, Joined
  <1>9. \A b \in Len(blocks) + 1 .. Len(blocks') : Begun(b)'
    <2> SUFFICES ASSUME NEW b \in Len(blocks) + 1 .. Len(blocks') PROVE Begun(b)'
      OBVIOUS
    <2>1. b - Len(blocks) \in 1 .. k /\ b = Len(blocks) + (b - Len(blocks))
      BY <1>5, <1>6
    <2>2. blocks'[b] = more[b - Len(blocks)]
      BY <1>8, <2>1
    <2> QED  BY <1>4, <2>1, <2>2 DEF Begun
  <1>10. Begun(builder_)
    BY <1>1, WorkAwaits
  <1>11. \A b \in 1 .. Len(blocks) : b = builder_ => Done(b)'
    <2> SUFFICES ASSUME NEW b \in 1 .. Len(blocks), b = builder_ PROVE Done(b)'
      OBVIOUS
    <2>1. ~blocks'[b].open /\ blocks'[b].ends = blocks[b].ends + 1
      BY <1>2, <1>7
    <2>2. b \in returned \/ blocks[b].ends = 0
      BY <1>10 DEF Begun
    <2>3. b \in returned \/ blocks'[b].ends = 1
      BY <2>1, <2>2
    <2> QED  BY <2>1, <2>3, Zenon DEF Done
  <1> QED  BY <1>2, <1>5, <1>6, <1>7, <1>9, <1>11

\* The condition of an if statement done: the blocks behind the first one made are
\* awaited, each by a step of its own.
LEMMA BranchBlocks ==
  ASSUME CInv, BInv, branch
  PROVE  BInv'
  <1> DEFINE els == Len(blocks) + 2
             merge == Len(blocks) + (IF Head(work).els THEN 3 ELSE 2)
             Join == [op |-> "join", block |-> merge]
             ToElse == [op |-> "join", block |-> els]
             long == <<Block, ToElse, Block, Join>>
             short == <<Block, Join>>
             k == merge - Len(blocks)
  <1>1. /\ Do("if", IF Head(work).els THEN long ELSE short)
        /\ blocks' = Ended(blocks, builder_) \o NewBlocks(k)
        /\ builder_' = Len(blocks) + 1 /\ returned' = returned
    BY DEF branch
  <1>2. Len(blocks) \in Nat /\ builder_ \in 1 .. Len(blocks)
    BY DEF CInv, TypeInv
  <1>3. /\ k \in Nat \ {0} /\ k = (IF Head(work).els THEN 3 ELSE 2) /\ merge = Len(blocks) + k
        /\ els \in Nat /\ merge \in Nat
    BY <1>2
  <1>4. work # <<>> /\ Head(work).op \notin Jumps \cup {"end_program"}
    BY <1>1, Taken DEF Jumps
  <1>5. /\ Len(blocks') = Len(blocks) + k
        /\ \A b \in Len(blocks) + 1 .. Len(blocks') : Begun(b)'
        /\ \A b \in 1 .. Len(blocks) : b # builder_ => blocks'[b] = blocks[b]
        /\ \A b \in 1 .. Len(blocks) : b = builder_ => Done(b)'
    BY <1>1, <1>3, <1>4, JumpedBlocks
  <1>6. /\ Join \in Steps /\ Join.op = "join" /\ Join.block = merge
        /\ ToElse \in Steps /\ ToElse.op = "join" /\ ToElse.block = els
        /\ Block \in Steps /\ Block.op = "block"
    BY <1>3, StepTypes DEF Steps, Block, Step, SimpleSteps
  <1> HIDE DEF els, merge, k, Join, ToElse
  <1>7. /\ long \in Seq(Steps) /\ JumpSteps(long) = {2, 4}
        /\ \A i \in 1 .. Len(long) : long[i].op # "end_program"
    BY <1>6 DEF JumpSteps, Jumps
  <1>8. /\ short \in Seq(Steps) /\ JumpSteps(short) = {2}
        /\ \A i \in 1 .. Len(short) : short[i].op # "end_program"
    BY <1>6 DEF JumpSteps, Jumps
  <1>9. CASE Head(work).els
    <2>1. els = Len(blocks) + 2 /\ merge = Len(blocks) + 3 /\ k = 3
      BY <1>3, <1>9 DEF els
    <2>2. Awaited(long) = {els, merge} /\ AwaitedOnce(long)
      <3>1. long[2].block = els /\ long[4].block = merge /\ els # merge
        BY <1>2, <1>6, <2>1
      <3> HIDE DEF long
      <3> QED  BY <1>7, <3>1 DEF Awaited, AwaitedOnce
    <2>3. builder_ \notin Awaited(long)
          /\ Awaited(long) \ {builder_} = Len(blocks) + 2 .. Len(blocks')
      BY <1>2, <1>5, <2>1, <2>2
    <2>4. work' = long \o Tail(work)
      BY <1>1, <1>9, Taken
    <2> HIDE DEF long
    <2>5. Len(blocks') \in Nat /\ Len(blocks') > Len(blocks)
      BY <1>2, <1>3, <1>5
    <2> QED  BY <1>1, <1>4, <1>5, <1>7, <2>2, <2>3, <2>4, <2>5, NewBlocksBegin
  <1>10. CASE ~Head(work).els
    <2>1. merge = Len(blocks) + 2 /\ k = 2
      BY <1>3, <1>10
    <2>2. Awaited(short) = {merge} /\ AwaitedOnce(short)
      <3>1. short[2].block = merge
        BY <1>6
      <3> HIDE DEF short
      <3> QED  BY <1>8, <3>1 DEF Awaited, AwaitedOnce
    <2>3. builder_ \notin Awaited(short)
          /\ Awaited(short) \ {builder_} = Len(blocks) + 2 .. Len(blocks')
      BY <1>2, <1>5, <2>1, <2>2
    <2>4. work' = short \o Tail(work)
      BY <1>1, <1>10, Taken
    <2> HIDE DEF short
    <2>5. Len(blocks') \in Nat /\ Len(blocks') > Len(blocks)
      BY <1>2, <1>3, <1>5
    <2> QED  BY <1>1, <1>4, <1>5, <1>8, <2>2, <2>3, <2>4, <2>5, NewBlocksBegin
  <1> QED  BY <1>9, <1>10

\* A loop: its condition is made the insert block and awaits nothing; with the
\* condition done the body is, and a step awaits the end of the loop.
LEMMA LoopBlocks ==
  ASSUME CInv, BInv, visit_While \/ loop
  PROVE  BInv'
  <1>1. Len(blocks) \in Nat /\ builder_ \in 1 .. Len(blocks)
    BY DEF CInv, TypeInv
  <1>2. CASE visit_While
    <2> DEFINE p == <<Expr, Step("loop"), Stmts>>
    <2>1. p \in Seq(Steps) /\ Harmless(p)
      <3>1. \A s \in {Expr, Step("loop"), Stmts} : s \in Steps /\ s.op \notin Jumps \cup {"end_program"}
        BY DEF Expr, Step, Stmts, Steps, PlainOps, Jumps
      <3> QED  BY <3>1 DEF Harmless
    <2>2. /\ Visit("stmts", p) /\ returned' = returned /\ builder_' = Len(blocks) + 1
          /\ blocks' = Ended(blocks, builder_) \o NewBlocks(1)
      BY <1>2 DEF visit_While
    <2> HIDE DEF p
    <2>3. work # <<>> /\ Head(work).op \notin Jumps \cup {"end_program"} /\ work' = p \o Tail(work)
      BY <2>2, Taken DEF Jumps
    <2>4. Awaited(p) = {} /\ AwaitedOnce(p) /\ \A i \in 1 .. Len(p) : p[i].op # "end_program"
      BY <2>1, HarmlessAwaits
    <2>0. PICK k \in Nat \ {0} : k = 1 /\ blocks' = Ended(blocks, builder_) \o NewBlocks(k)
      BY <2>2
    <2>5. /\ Len(blocks') = Len(blocks) + k
          /\ \A b \in Len(blocks) + 1 .. Len(blocks') : Begun(b)'
          /\ \A b \in 1 .. Len(blocks) : b # builder_ => blocks'[b] = blocks[b]
          /\ \A b \in 1 .. Len(blocks) : b = builder_ => Done(b)'
      BY <2>0, <2>2, <2>3, JumpedBlocks
    <2>6. builder_ \notin Awaited(p) /\ Awaited(p) \ {builder_} = Len(blocks) + 2 .. Len(blocks')
      BY <1>1, <2>0, <2>4, <2>5
    <2>7. Len(blocks') \in Nat /\ Len(blocks') > Len(blocks)
      BY <1>1, <2>0, <2>5
    <2> QED  BY <2>1, <2>2, <2>3, <2>4, <2>5, <2>6, <2>7, NewBlocksBegin
  <1>3. CASE loop
    <2> DEFINE r == [op |-> "repeat", block |-> Len(blocks) + 2]
               p == <<Block, r>>
    <2>1. /\ Do("loop", p) /\ returned' = returned /\ builder_' = Len(blocks) + 1
          /\ blocks' = Ended(blocks, builder_) \o NewBlocks(2)
      BY <1>3 DEF loop
    <2>2. /\ r \in Steps /\ r.op = "repeat" /\ r.block = Len(blocks) + 2
          /\ Block \in Steps /\ Block.op = "block"
      BY <1>1, StepTypes DEF Steps, Block, Step, SimpleSteps
    <2> HIDE DEF r
    <2>3. /\ p \in Seq(Steps) /\ JumpSteps(p) = {2} /\ p[2].block = Len(blocks) + 2
          /\ \A i \in 1 .. Len(p) : p[i].op # "end_program"
      BY <2>2 DEF JumpSteps, Jumps
    <2> HIDE DEF p
    <2>4. work # <<>> /\ Head(work).op \notin Jumps \cup {"end_program"} /\ work' = p \o Tail(work)
      BY <2>1, Taken DEF Jumps
    <2>5. Awaited(p) = {Len(blocks) + 2} /\ AwaitedOnce(p)
      BY <2>3 DEF Awaited, AwaitedOnce
    <2>6. /\ Len(blocks') = Len(blocks) + 2
          /\ \A b \in Len(blocks) + 1 .. Len(blocks') : Begun(b)'
          /\ \A b \in 1 .. Len(blocks) : b # builder_ => blocks'[b] = blocks[b]
          /\ \A b \in 1 .. Len(blocks) : b = builder_ => Done(b)'
      <3>1. PICK k \in Nat \ {0} : k = 2 /\ blocks' = Ended(blocks, builder_) \o NewBlocks(k)
        BY <2>1
      <3>2. /\ Len(blocks') = Len(blocks) + k
            /\ \A b \in Len(blocks) + 1 .. Len(blocks') : Begun(b)'
            /\ \A b \in 1 .. Len(blocks) : b # builder_ => blocks'[b] = blocks[b]
            /\ \A b \in 1 .. Len(blocks) : b = builder_ => Done(b)'
        BY <2>1, <2>4, <3>1, JumpedBlocks
      <3> QED  BY <3>1, <3>2
    <2>7. builder_ \notin Awaited(p) /\ Awaited(p) \ {builder_} = Len(blocks) + 2 .. Len(blocks')
      BY <1>1, <2>5, <2>6
    <2>8. Len(blocks') \in Nat /\ Len(blocks') > Len(blocks)
      BY <1>1, <2>6
    <2> QED  BY <2>1, <2>3, <2>4, <2>5, <2>6, <2>7, <2>8, NewBlocksBegin
  <1> QED  BY <1>2, <1>3

\* A function: its entry block is made the insert block, and the insert block is
\* awaited behind it.
LEMMA FuncBlocks ==
  ASSUME CInv, BInv, visit_Func
  PROVE  BInv'
  <1>1. PICK name \in Names \cup {InputVar} : Visit("expr", FuncSteps(name))
    BY DEF visit_Func
  <1> DEFINE nm == [op |-> "name", name |-> name]
             end == [op |-> "end_func", func |-> current_function_, block |-> builder_]
             p == <<Params, nm, Stmts, end>>
             new == NewBlock(NextFunction)
  <1>2. /\ Visit("expr", p) /\ blocks' = Append(blocks, new)
        /\ builder_' = Len(blocks) + 1 /\ returned' = returned
    BY <1>1 DEF visit_Func, FuncSteps
  <1>3. /\ blocks \in Seq(BlockType) /\ Len(blocks) \in Nat /\ builder_ \in 1 .. Len(blocks)
        /\ current_function_ \in Nat
    BY DEF CInv, TypeInv
  <1>4. /\ end \in Steps /\ end.op = "end_func" /\ end.block = builder_
        /\ nm \in Steps /\ nm.op = "name"
        /\ Stmts \in Steps /\ Stmts.op = "stmts" /\ Params \in Steps /\ Params.op = "params"
    BY <1>3 DEF Step, Stmts, Params, Steps, PlainOps
  <1> HIDE DEF end, nm
  <1>5. /\ p \in Seq(Steps) /\ JumpSteps(p) = {4} /\ p[4].block = builder_
        /\ \A i \in 1 .. Len(p) : p[i].op # "end_program"
    BY <1>4 DEF JumpSteps, Jumps
  <1> HIDE DEF p
  <1>6. work # <<>> /\ Head(work).op \notin Jumps \cup {"end_program"} /\ work' = p \o Tail(work)
    BY <1>2, Taken DEF Jumps
  <1>7. Awaited(p) = {builder_} /\ AwaitedOnce(p)
    BY <1>5 DEF Awaited, AwaitedOnce
  <1>8. new.open /\ new.ends = 0
    BY DEF NewBlock
  <1> HIDE DEF new
  <1>9. /\ Len(blocks') = Len(blocks) + 1 /\ blocks'[Len(blocks) + 1] = new
        /\ \A b \in 1 .. Len(blocks) : blocks'[b] = blocks[b]
    BY <1>2, <1>3, AppendProperties
  <1>10. \A b \in Len(blocks) + 1 .. Len(blocks') : Begun(b)'
    <2>1. \A b \in Len(blocks) + 1 .. Len(blocks') : b = Len(blocks) + 1
      BY <1>3, <1>9
    <2> QED  BY <1>8, <1>9, <2>1 DEF Begun
  <1>11. \A b \in 1 .. Len(blocks) : b = builder_ => Begun(b)'
    <2>1. Begun(builder_)
      BY <1>3, <1>6, WorkAwaits
    <2> QED  BY <1>2, <1>3, <1>9, <2>1 DEF Begun
  <1>12. builder_ \in Awaited(p) /\ Awaited(p) \ {builder_} = Len(blocks) + 2 .. Len(blocks')
    BY <1>3, <1>7, <1>9
  <1>13. Len(blocks') \in Nat /\ Len(blocks') > Len(blocks)
    BY <1>3, <1>9
  <1> QED  BY <1>2, <1>5, <1>6, <1>7, <1>9, <1>10, <1>11, <1>12, <1>13, NewBlocksBegin

LEMMA InitBInv ==
  CodegenInit => BInv
  <1> SUFFICES ASSUME CodegenInit PROVE BInv
    OBVIOUS
  <1>1. /\ work = <<Stmts, Step("end_program")>> /\ blocks = <<NewBlock(1)>> /\ builder_ = 1
        /\ returned = {}
    BY DEF CodegenInit
  <1>2. Len(work) = 2 /\ work[1].op = "stmts" /\ work[2].op = "end_program" /\ work # <<>>
    BY <1>1 DEF Stmts, Step
  <1>3. JumpSteps(work) = {}
    BY <1>2 DEF JumpSteps, Jumps
  <1>4. Awaited(work) = {} /\ AwaitedOnce(work)
    BY <1>3 DEF Awaited, AwaitedOnce
  <1>5. EndsProgram(work)
    BY <1>2 DEF EndsProgram
  <1>6. Len(blocks) = 1 /\ Begun(1)
    BY <1>1 DEF Begun, NewBlock
  <1>7. Pending(work, builder_) = {1}
    BY <1>1, <1>2, <1>4 DEF Pending
  <1> QED  BY <1>4, <1>5, <1>6, <1>7 DEF BInv

LEMMA NextBInv ==
  CInv /\ BInv /\ [CodegenNext]_codegenVars => BInv'
  <1> SUFFICES ASSUME CInv, BInv, [CodegenNext]_codegenVars PROVE BInv'
    OBVIOUS
  <1>1. CASE UNCHANGED codegenVars
    BY <1>1 DEF codegenVars, irVars, BInv, Begun, Done
  <1>2. CASE \/ emit \/ fold \/ visit_Expression \/ visit_Variable \/ visit_Assignment \/ assign
             \/ visit_Input \/ visit_Block \/ end_block \/ param \/ end_params \/ func_name
             \/ visit_Statement \/ return
    BY <1>2, QuietActions
  <1>3. CASE join \/ repeat \/ end_func
    BY <1>3, JumpActions
  <1>4. CASE visit_Func
    BY <1>4, FuncBlocks
  <1>5. CASE branch
    BY <1>5, BranchBlocks
  <1>6. CASE visit_While \/ loop
    BY <1>6, LoopBlocks
  <1>7. CASE end_program
    BY <1>7, LastBlock
  <1>8. CASE Finished
    BY <1>1, <1>8 DEF Finished
  <1> QED  BY <1>1, <1>2, <1>3, <1>4, <1>5, <1>6, <1>7, <1>8 DEF CodegenNext

\* Every block without a return statement has one terminator, behind which nothing
\* goes, or none as long as it is not over, and when the program is over all blocks
\* are; whatever ifs, loops and functions they were made for.
THEOREM BlocksAreEnded == CodegenSpec => []BlocksEndOnce
  <1>1. CInv /\ BInv => BlocksEndOnce
    <2> SUFFICES ASSUME CInv, BInv, NEW b \in DOMAIN blocks
                 PROVE  /\ b \notin returned => blocks[b].ends = (IF blocks[b].open THEN 0 ELSE 1)
                        /\ work = <<>> => ~blocks[b].open
      BY DEF BlocksEndOnce
    <2>1. b \in 1 .. Len(blocks)
      BY DEF CInv, TypeInv
    <2>2. Begun(b) \/ Done(b)
      BY <2>1 DEF BInv
    <2>3. ASSUME work = <<>> PROVE Done(b)
      <3>1. JumpSteps(work) = {}
        BY <2>3 DEF JumpSteps
      <3>2. Pending(work, builder_) = {}
        BY <2>3, <3>1 DEF Pending, Awaited
      <3> QED  BY <2>1, <3>2 DEF BInv
    <2> QED  BY <2>2, <2>3 DEF Begun, Done
  <1>2. CInv /\ BInv /\ [CodegenNext]_codegenVars => BInv'
    BY NextBInv
  <1> QED  BY <1>1, <1>2, InitBInv, CInvHolds, PTL DEF CodegenSpec

----------------------------------------------------------------------------
(***************************************************************************)
(* Tables.  Each open table belongs to a function under way: they are the  *)
(* function of the insert block, and those that steps of work go back to.  *)
(***************************************************************************)
\* EndSteps and IsOpenFunction for any steps w and function cur.
Ends(w) == {i \in DOMAIN w : w[i].op = "end_func"}

From(w, i) == {j \in Ends(w) : j >= i}

Open(w, k, f, cur) ==
  \/ k = Cardinality(Ends(w)) + 1 /\ f = cur
  \/ \E i \in Ends(w) : w[i].func = f /\ Cardinality(From(w, i)) = k

TInv ==
  thrown = NothingThrown =>
    /\ Len(scope_stack_) = Cardinality(Ends(work)) + 1
    /\ \A k \in DOMAIN scope_stack_ : \A a \in scope_stack_[k] :
          Open(work, k, a.func, current_function_)

LEMMA TablesInv == TInv <=> TablesFollowFunctions
  BY DEF TInv, TablesFollowFunctions, Ends, From, Open, EndSteps, IsOpenFunction

\* A set of numbers moved up has as many elements.
LEMMA Shifted ==
  ASSUME NEW A \in SUBSET Nat, NEW m \in Nat, IsFiniteSet(A)
  PROVE  Cardinality({m + i : i \in A}) = Cardinality(A)
  <1> DEFINE B == {m + i : i \in A}
             up == [i \in A |-> m + i]
  <1>1. up \in Surjection(A, B)
    BY DEF Surjection
  <1>2. up \in Injection(A, B)
    BY DEF Injection, IsInjective
  <1>3. ExistsBijection(A, B)
    BY <1>1, <1>2 DEF ExistsBijection, Bijection
  <1> QED  BY <1>3, FS_Bijection

LEMMA EndsFinite ==
  ASSUME NEW w \in Seq(Steps)
  PROVE  /\ IsFiniteSet(Ends(w)) /\ Cardinality(Ends(w)) \in Nat /\ Ends(w) \in SUBSET Nat
         /\ \A i : /\ IsFiniteSet(From(w, i)) /\ From(w, i) \in SUBSET Nat
                   /\ Cardinality(From(w, i)) \in Nat
                   /\ Cardinality(From(w, i)) <= Cardinality(Ends(w))
  <1>1. DOMAIN w = 1 .. Len(w) /\ Len(w) \in Nat
    OBVIOUS
  <1>2. IsFiniteSet(1 .. Len(w)) /\ Ends(w) \in SUBSET (1 .. Len(w))
    BY <1>1, FS_Interval DEF Ends
  <1>3. IsFiniteSet(Ends(w)) /\ Ends(w) \in SUBSET Nat
    BY <1>1, <1>2, FS_Subset
  <1>4. Cardinality(Ends(w)) \in Nat
    BY <1>3, FS_CardinalityType
  <1>5. ASSUME NEW i
        PROVE  /\ IsFiniteSet(From(w, i)) /\ From(w, i) \in SUBSET Nat
               /\ Cardinality(From(w, i)) \in Nat
               /\ Cardinality(From(w, i)) <= Cardinality(Ends(w))
    <2>1. From(w, i) \in SUBSET Ends(w)
      BY DEF From
    <2>2. IsFiniteSet(From(w, i)) /\ Cardinality(From(w, i)) <= Cardinality(Ends(w))
      BY <1>3, <2>1, FS_Subset
    <2>3. Cardinality(From(w, i)) \in Nat
      BY <2>2, FS_CardinalityType
    <2> QED  BY <1>3, <2>1, <2>2, <2>3
  <1> QED  BY <1>3, <1>4, <1>5

\* Steps that end no function change nothing when they are put before others.
LEMMA PlainBefore ==
  ASSUME NEW p \in Seq(Steps), NEW t \in Seq(Steps), Ends(p) = {}
  PROVE  /\ Cardinality(Ends(p \o t)) = Cardinality(Ends(t))
         /\ \A k, f, cur : Open(p \o t, k, f, cur) <=> Open(t, k, f, cur)
  <1> DEFINE m == Len(p)
             v == p \o t
  <1>1. /\ m \in Nat /\ Len(t) \in Nat /\ Len(v) = m + Len(t) /\ v \in Seq(Steps)
        /\ \A i \in 1 .. m : v[i] = p[i]
        /\ \A i \in 1 .. Len(t) : v[m + i] = t[i]
    <2>1. Len(v) = m + Len(t) /\ v \in Seq(Steps)
      BY Joined
    <2>2. \A i \in 1 .. m : v[i] = p[i]
      BY Joined
    <2>3. \A i \in 1 .. Len(t) : v[m + i] = t[i]
      BY Joined
    <2> QED  BY <2>1, <2>2, <2>3
  <1>2. \A i \in 1 .. m : p[i].op # "end_func"
    BY DEF Ends
  <1> HIDE DEF m, v
  <1>3. DOMAIN v = 1 .. m + Len(t) /\ DOMAIN t = 1 .. Len(t)
    BY <1>1
  <1>4. \A i \in Ends(t) : m + i \in Ends(v) /\ v[m + i].func = t[i].func /\ i \in Nat
    BY <1>1, <1>3 DEF Ends
  <1>5. \A j \in Ends(v) : \E i \in Ends(t) : j = m + i
    <2> SUFFICES ASSUME NEW j \in Ends(v) PROVE \E i \in Ends(t) : j = m + i
      OBVIOUS
    <2>1. j \in 1 .. m + Len(t) /\ j \notin 1 .. m
      BY <1>1, <1>2, <1>3 DEF Ends
    <2>2. j - m \in 1 .. Len(t) /\ j = m + (j - m)
      BY <1>1, <2>1
    <2>3. j - m \in Ends(t)
      BY <1>1, <1>3, <2>2 DEF Ends
    <2> QED  BY <2>2, <2>3
  <1>6. Cardinality(Ends(v)) = Cardinality(Ends(t))
    <2>1. Ends(v) = {m + i : i \in Ends(t)}
      BY <1>4, <1>5
    <2> QED  BY <1>1, <2>1, EndsFinite, Shifted
  <1>7. \A i \in Ends(t) : Cardinality(From(v, m + i)) = Cardinality(From(t, i))
    <2> SUFFICES ASSUME NEW i \in Ends(t)
                 PROVE  Cardinality(From(v, m + i)) = Cardinality(From(t, i))
      OBVIOUS
    <2>1. \A j \in Ends(t) : m + j >= m + i <=> j >= i
      BY <1>1, <1>4
    <2>2. From(v, m + i) = {m + j : j \in From(t, i)}
      BY <1>4, <1>5, <2>1 DEF From
    <2> QED  BY <1>1, <2>2, EndsFinite, Shifted
  <1>8. ASSUME NEW k, NEW f, NEW cur PROVE Open(v, k, f, cur) <=> Open(t, k, f, cur)
    BY <1>4, <1>5, <1>6, <1>7 DEF Open
  <1> QED  BY <1>6, <1>8 DEF v

\* The end of a function before other steps: its function is the one behind it.
LEMMA EndBefore ==
  ASSUME NEW e \in Steps, e.op = "end_func", NEW t \in Seq(Steps)
  PROVE  /\ Cardinality(Ends(<<e>> \o t)) = Cardinality(Ends(t)) + 1
         /\ \A k, f, cur : Open(<<e>> \o t, k, f, cur)
                             <=> (k = Cardinality(Ends(t)) + 2 /\ f = cur) \/ Open(t, k, f, e.func)
  <1> DEFINE v == <<e>> \o t
  <1>1. /\ Len(t) \in Nat /\ Len(v) = 1 + Len(t) /\ v \in Seq(Steps) /\ v[1] = e
        /\ \A i \in 1 .. Len(t) : v[1 + i] = t[i]
    <2>1. <<e>> \in Seq(Steps) /\ Len(<<e>>) = 1 /\ <<e>>[1] = e
      OBVIOUS
    <2>2. Len(v) = 1 + Len(t) /\ v \in Seq(Steps)
      BY <2>1, Joined
    <2>3. v[1] = e
      BY <2>1, Joined
    <2>4. \A i \in 1 .. Len(t) : v[1 + i] = t[i]
      BY <2>1, Joined
    <2> QED  BY <2>2, <2>3, <2>4
  <1> HIDE DEF v
  <1>2. DOMAIN v = 1 .. 1 + Len(t) /\ DOMAIN t = 1 .. Len(t)
    BY <1>1
  <1>3. \A i \in Ends(t) : /\ 1 + i \in Ends(v) /\ v[1 + i].func = t[i].func
                           /\ i \in Nat /\ i >= 1 /\ 1 + i # 1
    BY <1>1, <1>2 DEF Ends
  <1>4. 1 \in Ends(v) /\ v[1].func = e.func
    BY <1>1, <1>2 DEF Ends
  <1>5. \A j \in Ends(v) : j = 1 \/ \E i \in Ends(t) : j = 1 + i
    <2> SUFFICES ASSUME NEW j \in Ends(v), j # 1 PROVE \E i \in Ends(t) : j = 1 + i
      OBVIOUS
    <2>1. j \in 1 .. 1 + Len(t)
      BY <1>2 DEF Ends
    <2>2. j - 1 \in 1 .. Len(t) /\ j = 1 + (j - 1)
      BY <1>1, <2>1
    <2>3. j - 1 \in Ends(t)
      BY <1>1, <1>2, <2>2 DEF Ends
    <2> QED  BY <2>2, <2>3
  <1> DEFINE up == {1 + i : i \in Ends(t)}
  <1>6. Cardinality(up) = Cardinality(Ends(t)) /\ IsFiniteSet(up)
    <2>1. up \in SUBSET Ends(v)
      BY <1>3
    <2>2. IsFiniteSet(Ends(v))
      BY <1>1, EndsFinite
    <2>3. IsFiniteSet(up)
      BY <2>1, <2>2, FS_Subset
    <2>4. Cardinality(up) = Cardinality(Ends(t))
      BY EndsFinite, Shifted
    <2> QED  BY <2>3, <2>4
  <1>7. Ends(v) = up \cup {1} /\ 1 \notin up
    BY <1>3, <1>4, <1>5
  <1> HIDE DEF up
  <1>8. Cardinality(Ends(v)) = Cardinality(Ends(t)) + 1
    BY <1>6, <1>7, FS_AddElement
  <1>9. Cardinality(From(v, 1)) = Cardinality(Ends(t)) + 1
    <2>1. \A j \in Ends(v) : j >= 1
      BY <1>2 DEF Ends
    <2>2. From(v, 1) = Ends(v)
      BY <2>1 DEF From
    <2> QED  BY <1>8, <2>2
  <1>10. \A i \in Ends(t) : Cardinality(From(v, 1 + i)) = Cardinality(From(t, i))
    <2> SUFFICES ASSUME NEW i \in Ends(t)
                 PROVE  Cardinality(From(v, 1 + i)) = Cardinality(From(t, i))
      OBVIOUS
    <2>1. ~(1 >= 1 + i) /\ \A j \in Ends(t) : 1 + j >= 1 + i <=> j >= i
      BY <1>3
    <2>2. From(v, 1 + i) = {1 + j : j \in From(t, i)}
      BY <1>3, <1>5, <2>1 DEF From
    <2>3. From(t, i) \in SUBSET Nat /\ IsFiniteSet(From(t, i))
      BY EndsFinite
    <2>4. \A m \in Nat : Cardinality({m + j : j \in From(t, i)}) = Cardinality(From(t, i))
      BY <2>3, Shifted
    <2>5. Cardinality({1 + j : j \in From(t, i)}) = Cardinality(From(t, i))
      BY <2>4
    <2> QED  BY <2>2, <2>5
  <1>11. Cardinality(Ends(t)) \in Nat
    BY EndsFinite
  <1>12. ASSUME NEW k, NEW f, NEW cur
         PROVE  Open(v, k, f, cur)
                  <=> (k = Cardinality(Ends(t)) + 2 /\ f = cur) \/ Open(t, k, f, e.func)
    <2>1. (\E j \in Ends(v) : v[j].func = f /\ Cardinality(From(v, j)) = k)
            <=> \/ e.func = f /\ Cardinality(Ends(t)) + 1 = k
                \/ \E i \in Ends(t) : t[i].func = f /\ Cardinality(From(t, i)) = k
      BY <1>3, <1>4, <1>5, <1>9, <1>10
    <2>2. Cardinality(Ends(v)) + 1 = Cardinality(Ends(t)) + 2
      BY <1>8, <1>11
    <2> QED  BY <2>1, <2>2 DEF Open
  <1> QED  BY <1>8, <1>12 DEF v

\* The functions under way behind the next step.
LEMMA AtEnd ==
  ASSUME NEW w \in Seq(Steps), w # <<>>
  PROVE  /\ Head(w).op # "end_func" =>
              /\ Cardinality(Ends(w)) = Cardinality(Ends(Tail(w)))
              /\ \A k, f, cur : Open(w, k, f, cur) <=> Open(Tail(w), k, f, cur)
         /\ Head(w).op = "end_func" =>
              /\ Cardinality(Ends(w)) = Cardinality(Ends(Tail(w))) + 1
              /\ \A k, f, cur : Open(w, k, f, cur) =>
                   \/ k = Cardinality(Ends(Tail(w))) + 2
                   \/ Open(Tail(w), k, f, Head(w).func)
  <1> DEFINE h == Head(w)
             t == Tail(w)
  <1>1. Len(w) \in Nat \ {0} /\ h = w[1] /\ h \in Steps /\ t \in Seq(Steps)
        /\ Len(t) = Len(w) - 1 /\ \A i \in 1 .. Len(w) - 1 : t[i] = w[i + 1]
    BY EmptySeq, HeadTailProperties
  <1> HIDE DEF h, t
  <1>2. <<h>> \in Seq(Steps) /\ Len(<<h>>) = 1 /\ <<h>>[1] = h
    BY <1>1
  <1>3. <<h>> \o t = w
    <2> DEFINE v == <<h>> \o t
    <2>1. v \in Seq(Steps) /\ Len(v) = 1 + Len(t)
      BY <1>1, <1>2, Joined
    <2>2. v[1] = h
      BY <1>1, <1>2, Joined
    <2>3. \A i \in 1 .. Len(t) : v[1 + i] = t[i]
      BY <1>1, <1>2, Joined
    <2> HIDE DEF v
    <2>4. ASSUME NEW i \in 1 .. Len(w) PROVE v[i] = w[i]
      <3>1. CASE i = 1
        BY <1>1, <2>2, <3>1
      <3>2. CASE i # 1
        <4>1. i - 1 \in 1 .. Len(t) /\ i = 1 + (i - 1) /\ i = (i - 1) + 1
          BY <1>1, <3>2
        <4>2. v[i] = t[i - 1] /\ w[i] = t[i - 1]
          BY <1>1, <2>3, <4>1
        <4> QED  BY <4>2
      <3> QED  BY <3>1, <3>2
    <2>5. Len(v) = Len(w)
      BY <1>1, <2>1
    <2> QED  BY <2>1, <2>4, <2>5, SeqEqual DEF v
  <1>4. CASE h.op # "end_func"
    <2>1. Ends(<<h>>) = {}
      BY <1>2, <1>4 DEF Ends
    <2>2. /\ Cardinality(Ends(<<h>> \o t)) = Cardinality(Ends(t))
          /\ \A k, f, cur : Open(<<h>> \o t, k, f, cur) <=> Open(t, k, f, cur)
      BY <1>1, <1>2, <2>1, PlainBefore
    <2> QED  BY <1>3, <1>4, <2>2 DEF h, t
  <1>5. CASE h.op = "end_func"
    <2>1. /\ Cardinality(Ends(<<h>> \o t)) = Cardinality(Ends(t)) + 1
          /\ \A k, f, cur : Open(<<h>> \o t, k, f, cur)
                              <=> (k = Cardinality(Ends(t)) + 2 /\ f = cur) \/ Open(t, k, f, h.func)
      BY <1>1, <1>5, EndBefore
    <2> QED  BY <1>3, <1>5, <2>1 DEF h, t
  <1> QED  BY <1>4, <1>5

\* A step that neither begins nor ends a function leaves the tables to the same
\* functions; what it adds to one belongs to the function under way.
LEMMA SameFunctions ==
  ASSUME CInv, TInv, thrown = NothingThrown, work # <<>>, Head(work).op # "end_func",
         NEW p \in Seq(Steps), Ends(p) = {}, work' = p \o Tail(work),
         current_function_' = current_function_,
         Len(scope_stack_') = Len(scope_stack_), DOMAIN scope_stack_' = DOMAIN scope_stack_,
         \A k \in DOMAIN scope_stack_ : \A a \in scope_stack_'[k] :
            a \in scope_stack_[k] \/ (k = Len(scope_stack_) /\ a.func = current_function_)
  PROVE  TInv'
  <1>1. work \in Seq(Steps) /\ Tail(work) \in Seq(Steps)
    BY HeadTailProperties DEF CInv, TypeInv
  <1>2. /\ Cardinality(Ends(work)) = Cardinality(Ends(Tail(work)))
        /\ \A k, f, cur : Open(work, k, f, cur) <=> Open(Tail(work), k, f, cur)
    BY <1>1, AtEnd
  <1>3. /\ Cardinality(Ends(work')) = Cardinality(Ends(Tail(work)))
        /\ \A k, f, cur : Open(work', k, f, cur) <=> Open(Tail(work), k, f, cur)
    BY <1>1, PlainBefore
  <1>4. Len(scope_stack_) = Cardinality(Ends(work)) + 1
    BY DEF TInv
  <1>5. ASSUME NEW k \in DOMAIN scope_stack_, NEW a \in scope_stack_'[k]
        PROVE  Open(work, k, a.func, current_function_)
    BY <1>4 DEF TInv, Open
  <1>6. \A k \in DOMAIN scope_stack_' : \A a \in scope_stack_'[k] :
           Open(work', k, a.func, current_function_')
    BY <1>2, <1>3, <1>5
  <1> QED  BY <1>2, <1>3, <1>4, <1>6 DEF TInv

----------------------------------------------------------------------------
\* Steps that end no function.
InnerSteps == {s \in Steps : s.op # "end_func"}

\* The actions that leave the tables of the generator alone.
LEMMA LeaveTables ==
  ASSUME CInv, TInv,
         \/ emit \/ fold \/ visit_Expression \/ visit_Variable \/ visit_Assignment
         \/ visit_Block \/ end_block \/ end_params \/ func_name \/ visit_Statement
         \/ branch \/ join \/ visit_While \/ loop \/ repeat \/ return \/ end_program
  PROVE  TInv'
  <1> DEFINE Join(b) == [op |-> "join", block |-> b]
             Repeat(b) == [op |-> "repeat", block |-> b]
  <1>1. /\ {Expr, Stmts, Block, Params, Args, Emit, Fold, Return, Step("end_block"), Step("loop")}
             \subseteq InnerSteps
        /\ \A els \in BOOLEAN : [op |-> "if", els |-> els] \in InnerSteps
        /\ \A name \in Names : [op |-> "assign", name |-> name] \in InnerSteps
    BY DEF Step, Expr, Stmts, Block, Params, Args, Emit, Fold, Return, InnerSteps, Steps, PlainOps
  <1>2. /\ <<>> \in Seq(InnerSteps)
        /\ \A a \in InnerSteps : <<a>> \in Seq(InnerSteps)
        /\ \A a, b \in InnerSteps : <<a, b>> \in Seq(InnerSteps)
        /\ \A a, b, c \in InnerSteps : <<a, b, c>> \in Seq(InnerSteps)
        /\ \A a, b, c, d \in InnerSteps : <<a, b, c, d>> \in Seq(InnerSteps)
    OBVIOUS
  <1>3. \A b \in Nat : Join(b) \in InnerSteps /\ Repeat(b) \in InnerSteps
    BY DEF InnerSteps, Steps
  <1>4. Len(blocks) \in Nat /\ Len(blocks) + 2 \in Nat /\ Len(blocks) + 3 \in Nat
    BY DEF CInv, TypeInv
  <1>5. \E op, p : op # "end_func" /\ p \in Seq(InnerSteps) /\ (Do(op, p) \/ Visit(op, p))
    <2>1. CASE emit \/ fold \/ end_block \/ end_params \/ func_name \/ return \/ end_program
               \/ join \/ repeat
      <3>1. \E op \in {"emit", "fold", "end_block", "params", "name", "return", "end_program",
                       "join", "repeat"} : Do(op, <<>>)
        BY <2>1 DEF emit, fold, end_block, end_params, func_name, return, end_program, join, repeat
      <3> QED  BY <1>2, <3>1
    <2>2. CASE visit_Expression
      <3>1. \E op \in {"expr", "args"}, p \in Seq(InnerSteps) : Do(op, p) \/ Visit(op, p)
        BY <1>1, <1>2, <2>2, Zenon DEF visit_Expression
      <3> QED  BY <3>1
    <2>3. CASE visit_Statement
      <3>1. \E p \in Seq(InnerSteps) : Do("stmts", p) \/ Visit("stmts", p)
        BY <1>1, <1>2, <2>3, Zenon DEF visit_Statement
      <3> QED  BY <3>1
    <2>4. CASE visit_Variable \/ visit_Assignment
      <3>1. \E p \in Seq(InnerSteps) : Visit("expr", p)
        BY <1>1, <1>2, <2>4, Zenon DEF visit_Variable, visit_Assignment
      <3> QED  BY <3>1
    <2>5. CASE visit_Block
      <3>1. \E p \in Seq(InnerSteps) : Do("block", p)
        BY <1>1, <1>2, <2>5, Zenon DEF visit_Block
      <3> QED  BY <3>1
    <2>6. CASE branch
      <3> DEFINE merge == Len(blocks) + (IF Head(work).els THEN 3 ELSE 2)
                 p == IF Head(work).els
                      THEN <<Block, Join(Len(blocks) + 2), Block, Join(merge)>>
                      ELSE <<Block, Join(merge)>>
      <3>1. Do("if", p)
        BY <2>6 DEF branch
      <3>2. merge \in Nat
        BY <1>4
      <3> HIDE DEF merge, Join
      <3>3. p \in Seq(InnerSteps)
        BY <1>1, <1>2, <1>3, <1>4, <3>2
      <3> QED  BY <3>1, <3>3
    <2>7. CASE visit_While
      <3>1. \E p \in Seq(InnerSteps) : Visit("stmts", p)
        BY <1>1, <1>2, <2>7, Zenon DEF visit_While
      <3> QED  BY <3>1
    <2>8. CASE loop
      <3>1. Do("loop", <<Block, Repeat(Len(blocks) + 2)>>)
        BY <2>8 DEF loop
      <3> HIDE DEF Repeat
      <3>2. <<Block, Repeat(Len(blocks) + 2)>> \in Seq(InnerSteps)
        BY <1>1, <1>2, <1>3, <1>4
      <3> QED  BY <3>1, <3>2
    <2> QED  BY <2>1, <2>2, <2>3, <2>4, <2>5, <2>6, <2>7, <2>8
  <1>6. PICK op, p : op # "end_func" /\ p \in Seq(InnerSteps) /\ (Do(op, p) \/ Visit(op, p))
    BY <1>5
  <1>7. /\ work # <<>> /\ Head(work).op # "end_func" /\ work' = p \o Tail(work)
        /\ thrown = NothingThrown
    BY <1>6, Taken
  <1>8. p \in Seq(Steps) /\ Ends(p) = {}
    BY <1>6 DEF InnerSteps, Ends
  <1>9. scope_stack_' = scope_stack_ /\ current_function_' = current_function_
    BY DEF emit, fold, visit_Expression, visit_Variable, visit_Assignment, visit_Block, end_block,
           end_params, func_name, visit_Statement, branch, join, visit_While, loop, repeat, return,
           end_program, nameVars, irVars
  <1> QED  BY <1>7, <1>8, <1>9, SameFunctions

\* A new alloca is one of the function under way, in the innermost table.
LEMMA AllocaAdded ==
  ASSUME CInv, scope_stack_ # <<>>, NEW name \in Names \cup {InputVar},
         \/ DeclareAlloca(name, current_function_)
         \/ UNCHANGED scope_stack_
  PROVE  /\ Len(scope_stack_') = Len(scope_stack_) /\ DOMAIN scope_stack_' = DOMAIN scope_stack_
         /\ \A k \in DOMAIN scope_stack_ : \A a \in scope_stack_'[k] :
              a \in scope_stack_[k] \/ (k = Len(scope_stack_) /\ a.func = current_function_)
  <1> DEFINE n == Len(scope_stack_)
             new == Alloca(name, current_function_)
             top == scope_stack_[n] \cup {new}
  <1>1. /\ scope_stack_ \in Seq(SUBSET AllocaType) /\ n \in Nat /\ DOMAIN scope_stack_ = 1 .. n
        /\ current_function_ \in Nat
    BY DEF CInv, TypeInv
  <1>2. CASE UNCHANGED scope_stack_
    BY <1>2
  <1>3. CASE DeclareAlloca(name, current_function_)
    <2>1. new.func = current_function_
      BY DEF Alloca
    <2>2. top \in SUBSET AllocaType
      <3>1. new \in AllocaType
        BY <1>1 DEF Alloca, AllocaType
      <3>2. n \in 1 .. n
        BY <1>1, EmptySeq
      <3> QED  BY <1>1, <3>1, <3>2
    <2>3. scope_stack_' = [scope_stack_ EXCEPT ![n] = top]
      BY <1>3 DEF DeclareAlloca
    <2>4. \A a \in top : a \in scope_stack_[n] \/ a.func = current_function_
      BY <2>1
    <2> HIDE DEF top
    <2>5. /\ Len(scope_stack_') = n /\ DOMAIN scope_stack_' = 1 .. n
          /\ \A k \in 1 .. n : scope_stack_'[k] = IF k = n THEN top ELSE scope_stack_[k]
      BY <1>1, <2>2, <2>3
    <2> QED  BY <1>1, <2>4, <2>5
  <1> QED  BY <1>2, <1>3

\* The actions that add to a table.
LEMMA AddToTables ==
  ASSUME CInv, TInv, assign \/ visit_Input \/ param
  PROVE  TInv'
  <1>1. \E op \in {"assign", "expr", "params"}, p \in Seq(Steps) :
           Ends(p) = {} /\ (Do(op, p) \/ Visit(op, p))
    <2>1. <<>> \in Seq(Steps) /\ Ends(<<>>) = {}
      BY DEF Ends
    <2>2. <<Params>> \in Seq(Steps) /\ Ends(<<Params>>) = {}
      <3>1. Params \in Steps /\ Params.op = "params"
        BY DEF Params, Step, Steps, PlainOps
      <3> QED  BY <3>1 DEF Ends
    <2> QED  BY <2>1, <2>2, Zenon DEF assign, visit_Input, param
  <1>2. PICK op \in {"assign", "expr", "params"}, p \in Seq(Steps) :
           Ends(p) = {} /\ (Do(op, p) \/ Visit(op, p))
    BY <1>1
  <1>3. /\ work # <<>> /\ Head(work).op = op /\ work' = p \o Tail(work) /\ thrown = NothingThrown
    BY <1>2, Taken
  <1>4. current_function_' = current_function_ /\ blocks[builder_].func = current_function_
    BY DEF assign, visit_Input, param, CInv
  <1>5. scope_stack_ # <<>> /\ Head(work) \in Steps
    BY <1>3, AtHand DEF Now, Context
  <1>6. \E name \in Names \cup {InputVar} :
           DeclareAlloca(name, current_function_) \/ UNCHANGED scope_stack_
    <2>1. CASE assign
      <3>1. Head(work).name \in Names
        BY <1>5, <2>1, StepFields DEF assign, Do
      <3> QED  BY <1>4, <2>1, <3>1 DEF assign, AllocateIfNew
    <2>2. CASE visit_Input
      BY <1>4, <2>2 DEF visit_Input, AllocateIfNew
    <2>3. CASE param
      BY <2>3 DEF param
    <2> QED  BY <2>1, <2>2, <2>3
  <1>7. /\ Len(scope_stack_') = Len(scope_stack_) /\ DOMAIN scope_stack_' = DOMAIN scope_stack_
        /\ \A k \in DOMAIN scope_stack_ : \A a \in scope_stack_'[k] :
              a \in scope_stack_[k] \/ (k = Len(scope_stack_) /\ a.func = current_function_)
    BY <1>5, <1>6, AllocaAdded
  <1>8. Head(work).op # "end_func"
    BY <1>2, <1>3
  <1> QED  BY <1>2, <1>3, <1>4, <1>7, <1>8, SameFunctions

\* A function begins: the functions under way are as before, and it is the last.
LEMMA FuncOpens ==
  ASSUME CInv, TInv, visit_Func
  PROVE  TInv'
  <1>1. PICK name \in Names \cup {InputVar} : Visit("expr", FuncSteps(name))
    BY DEF visit_Func
  <1> DEFINE t == Tail(work)
             nm == [op |-> "name", name |-> name]
             end == [op |-> "end_func", func |-> current_function_, block |-> builder_]
             some == <<Params, nm, Stmts>>
             steps == <<Params, nm, Stmts, end>>
  <1>2. Visit("expr", steps) /\ scope_stack_' = Append(scope_stack_, {})
    BY <1>1 DEF visit_Func, FuncSteps
  <1>3. work # <<>> /\ Head(work).op = "expr" /\ work' = steps \o t /\ thrown = NothingThrown
    BY <1>2, Taken
  <1>4. /\ work \in Seq(Steps) /\ t \in Seq(Steps) /\ scope_stack_ \in Seq(SUBSET AllocaType)
        /\ current_function_ \in Nat /\ builder_ \in Nat
    BY <1>3, HeadTailProperties DEF CInv, TypeInv
  <1>5. /\ end \in Steps /\ end.op = "end_func" /\ end.func = current_function_
        /\ nm \in Steps /\ nm.op = "name"
        /\ Stmts \in Steps /\ Stmts.op = "stmts" /\ Params \in Steps /\ Params.op = "params"
    BY <1>4 DEF Step, Stmts, Params, Steps, PlainOps
  <1> HIDE DEF end, nm
  <1>6. some \in Seq(Steps) /\ <<end>> \in Seq(Steps) /\ some \o <<end>> = steps
    BY <1>5, Quadruple
  <1>7. Ends(some) = {}
    BY <1>5 DEF Ends
  <1> HIDE DEF some, steps, t
  <1>8. <<end>> \o t \in Seq(Steps) /\ steps \o t = some \o (<<end>> \o t)
    <2>1. <<end>> \o t \in Seq(Steps)
      BY <1>4, <1>6, Joined
    <2>2. (some \o <<end>>) \o t = some \o (<<end>> \o t)
      BY <1>4, <1>6, ConcatAssociative
    <2> QED  BY <1>6, <2>1, <2>2
  <1>9. /\ Cardinality(Ends(work')) = Cardinality(Ends(<<end>> \o t))
        /\ \A k, f, cur : Open(work', k, f, cur) <=> Open(<<end>> \o t, k, f, cur)
    BY <1>3, <1>6, <1>7, <1>8, PlainBefore
  <1>10. /\ Cardinality(Ends(<<end>> \o t)) = Cardinality(Ends(t)) + 1
         /\ \A k, f, cur : Open(t, k, f, current_function_) => Open(<<end>> \o t, k, f, cur)
    BY <1>4, <1>5, EndBefore
  <1>11. /\ Cardinality(Ends(work)) = Cardinality(Ends(t)) /\ Cardinality(Ends(t)) \in Nat
         /\ \A k, f, cur : Open(work, k, f, cur) <=> Open(t, k, f, cur)
    BY <1>3, <1>4, AtEnd, EndsFinite DEF t
  <1>12. /\ Len(scope_stack_) = Cardinality(Ends(work)) + 1
         /\ \A k \in DOMAIN scope_stack_ : \A a \in scope_stack_[k] :
               Open(work, k, a.func, current_function_)
    BY <1>3 DEF TInv
  <1>13. /\ Len(scope_stack_') = Len(scope_stack_) + 1
         /\ \A k \in DOMAIN scope_stack_' : \A a \in scope_stack_'[k] :
               k \in DOMAIN scope_stack_ /\ a \in scope_stack_[k]
    BY <1>2, <1>4, AppendProperties
  <1>14. Len(scope_stack_') = Cardinality(Ends(work')) + 1
    BY <1>9, <1>10, <1>11, <1>12, <1>13
  <1>15. \A k \in DOMAIN scope_stack_' : \A a \in scope_stack_'[k] :
            Open(work', k, a.func, current_function_')
    BY <1>9, <1>10, <1>11, <1>12, <1>13
  <1> QED  BY <1>14, <1>15 DEF TInv

\* A function ends: its table is closed, and the others belong to those under way.
LEMMA FuncCloses ==
  ASSUME CInv, TInv, end_func
  PROVE  TInv'
  <1> DEFINE t == Tail(work)
             m == Len(scope_stack_) - 1
  <1>1. /\ Do("end_func", <<>>) /\ current_function_' = Head(work).func
        /\ scope_stack_' = SubSeq(scope_stack_, 1, m)
    BY DEF end_func
  <1>2. work # <<>> /\ Head(work).op = "end_func" /\ work' = <<>> \o t /\ thrown = NothingThrown
    BY <1>1, Taken
  <1>3. /\ work \in Seq(Steps) /\ t \in Seq(Steps) /\ scope_stack_ \in Seq(SUBSET AllocaType)
    BY <1>2, HeadTailProperties DEF CInv, TypeInv
  <1>4. work' = t
    BY <1>2, <1>3, ConcatEmptySeq
  <1>5. /\ Len(scope_stack_) = Cardinality(Ends(work)) + 1
        /\ \A k \in DOMAIN scope_stack_ : \A a \in scope_stack_[k] :
              Open(work, k, a.func, current_function_)
    BY <1>2 DEF TInv
  <1>6. /\ Cardinality(Ends(work)) = Cardinality(Ends(t)) + 1 /\ Cardinality(Ends(t)) \in Nat
        /\ \A k, f, cur : Open(work, k, f, cur) =>
             k = Cardinality(Ends(t)) + 2 \/ Open(t, k, f, Head(work).func)
    BY <1>2, <1>3, AtEnd, EndsFinite
  <1>7. m = Cardinality(Ends(t)) + 1 /\ m \in Nat /\ DOMAIN scope_stack_ = 1 .. m + 1
    BY <1>3, <1>5, <1>6
  <1> HIDE DEF m, t
  <1>8. /\ Len(scope_stack_') = m /\ DOMAIN scope_stack_' = 1 .. m
        /\ \A k \in 1 .. m : scope_stack_'[k] = scope_stack_[k]
    BY <1>1, <1>3, <1>7
  <1>9. ASSUME NEW k \in 1 .. m, NEW a \in scope_stack_'[k]
        PROVE  Open(t, k, a.func, Head(work).func)
    <2>1. k \in DOMAIN scope_stack_ /\ a \in scope_stack_[k] /\ k # Cardinality(Ends(t)) + 2
      BY <1>6, <1>7, <1>8
    <2> QED  BY <1>5, <1>6, <2>1
  <1> QED  BY <1>1, <1>4, <1>7, <1>8, <1>9 DEF TInv

LEMMA InitTInv ==
  CodegenInit => TInv
  <1> SUFFICES ASSUME CodegenInit PROVE TInv
    OBVIOUS
  <1>1. work = <<Stmts, Step("end_program")>> /\ scope_stack_ = <<{}>>
    BY DEF CodegenInit
  <1>2. DOMAIN work = {1, 2} /\ work[1].op = "stmts" /\ work[2].op = "end_program"
    BY <1>1 DEF Stmts, Step
  <1>3. Ends(work) = {}
    BY <1>2 DEF Ends
  <1>4. Cardinality(Ends(work)) = 0
    BY <1>3, FS_EmptySet
  <1> QED  BY <1>1, <1>4 DEF TInv

LEMMA NextTInv ==
  CInv /\ TInv /\ [CodegenNext]_codegenVars => TInv'
  <1> SUFFICES ASSUME CInv, TInv, [CodegenNext]_codegenVars PROVE TInv'
    OBVIOUS
  <1>1. CASE UNCHANGED codegenVars
    BY <1>1 DEF codegenVars, nameVars, irVars, TInv
  <1>2. CASE \/ emit \/ fold \/ visit_Expression \/ visit_Variable \/ visit_Assignment
             \/ visit_Block \/ end_block \/ end_params \/ func_name \/ visit_Statement
             \/ branch \/ join \/ visit_While \/ loop \/ repeat \/ return \/ end_program
    BY <1>2, LeaveTables
  <1>3. CASE assign \/ visit_Input \/ param
    BY <1>3, AddToTables
  <1>4. CASE visit_Func
    BY <1>4, FuncOpens
  <1>5. CASE end_func
    BY <1>5, FuncCloses
  <1>6. CASE Finished
    BY <1>1, <1>6 DEF Finished
  <1> QED  BY <1>1, <1>2, <1>3, <1>4, <1>5, <1>6 DEF CodegenNext

\* The code generator has a table for each function under way and no other, and what
\* is in a table lives in the frame of its function, whatever blocks the program has.
THEOREM TablesBelongToFunctions == CodegenSpec => []TablesFollowFunctions
  <1>1. TInv => TablesFollowFunctions
    BY TablesInv
  <1>2. CInv /\ TInv /\ [CodegenNext]_codegenVars => TInv'
    BY NextTInv
  <1> QED  BY <1>1, <1>2, InitTInv, CInvHolds, PTL DEF CodegenSpec
==================================================================================
