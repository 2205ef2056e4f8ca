------------------------------ MODULE FrontendProofs ------------------------------
(***************************************************************************)
(* Proofs about locations, for texts of any size: the counters follow the  *)
(* text, behind it by the newlines of block comments, and on a line with   *)
(* nothing that yycolumn missed they are where the text is.                *)
(***************************************************************************)
EXTENDS Frontend, ParserProofs

CountersOK ==
  /\ yylineno \in Nat /\ yycolumn \in Int
  /\ line_before \in Nat /\ line_before <= yylineno
  /\ at \in [line : Nat, column : Int]
  /\ yylineno <= at.line
  /\ ~skewed => yycolumn = at.column

TokenOK ==
  /\ yylloc.begin.line \in Nat /\ tokenAt.line \in Nat
  /\ NeverAhead
  /\ ColumnIsExact

LInv == CountersOK /\ TokenOK

\* The bounds of the text are numbers.
LEMMA BoundsAreNat == MaxLength \in Nat /\ MaxLine \in Nat /\ MaxColumn \in Nat
  BY LexerAssumption

\* Before the first call of yylex every counter is at the start of the text.
LEMMA InitLocations == FrontendInit => LInv
  BY DEF FrontendInit, Init, LexInit, LInv, CountersOK, TokenOK, NeverAhead, ColumnIsExact,
         Position, Location, NoToken, Token

\* What is skipped moves the counters no further than the text, and there is no
\* lookahead while a call of yylex scans.
LEMMA ScanningLocations ==
  ASSUME LInv, Scanning
  PROVE  LInv'
  <1>1. yyla = NoToken /\ yyla' = NoToken /\ UNCHANGED <<yylloc, tokenAt, line_before>>
    BY DEF Scanning, Fetching, Skip, Blank, Newline, BlockComment, vars, NoToken, Token
  <1>2. CASE Blank
    BY <1>1, <1>2, BoundsAreNat
       DEF LInv, CountersOK, TokenOK, NeverAhead, ColumnIsExact, Blank, Advance, Lengths
  <1>3. CASE Newline
    <2>1. /\ at' = [line |-> at.line + 1, column |-> 1]
          /\ yylineno' = yylineno + 1 /\ yycolumn' = 1 /\ skewed' = FALSE
      BY <1>3 DEF Newline, Position
    <2>2. at.line \in Nat /\ at'.line = at.line + 1 /\ at'.column = 1
      BY <2>1 DEF LInv, CountersOK
    <2>3. CountersOK'
      BY <1>1, <2>1, <2>2 DEF LInv, CountersOK
    <2>4. TokenOK'
      BY <1>1, <2>1, <2>2 DEF LInv, CountersOK, TokenOK, NeverAhead, ColumnIsExact
    <2> QED  BY <2>3, <2>4 DEF LInv
  <1>4. CASE BlockComment
    BY <1>1, <1>4, BoundsAreNat
       DEF LInv, CountersOK, TokenOK, NeverAhead, ColumnIsExact, BlockComment, Advance,
           Lengths, Position
  <1> QED  BY <1>2, <1>3, <1>4 DEF Scanning, Skip

\* A located token lies between where the scanner was and where it is; it takes
\* the line of the end of the token before it.
LEMMA Located ==
  ASSUME CountersOK, NEW n \in Nat, Locate(n), yycolumn' \in Int
  PROVE  /\ yylineno' = yylineno /\ line_before' = yylineno
         /\ tokenAt' = at /\ at.line \in Nat
         /\ yylloc'.begin.line = line_before /\ line_before \in Nat
         /\ yylloc'.begin.line <= at.line
         /\ yylloc'.begin.column = yycolumn' - n
         /\ yylloc'.end.column = yycolumn'
  BY DEF CountersOK, Locate, Location, Position

\* A call of yylex that returns, and a parser that shifts, reduces or recovers.
LEMMA ReturnLocations ==
  ASSUME LInv, GetToken \/ GetUnknown \/ GetEof
  PROVE  LInv'
  <1>1. CASE GetToken
    <2>1. PICK n \in Lengths : Advance(n) /\ yycolumn' = yycolumn + n /\ Locate(n)
      BY <1>1 DEF GetToken, ReturnToken
    <2>2. /\ n \in Nat /\ at' = [at EXCEPT !.column = @ + n]
          /\ yycolumn \in Int /\ UNCHANGED skewed
      BY <1>1, <2>1, BoundsAreNat DEF Advance, Lengths, LInv, CountersOK, GetToken, ReturnToken
    <2>3. at'.line = at.line /\ at'.column = at.column + n /\ at.column \in Int
      BY <2>2 DEF LInv, CountersOK
    <2>4. CountersOK'
      BY <2>1, <2>2, <2>3, Located DEF LInv, CountersOK
    <2>5. TokenOK'
      BY <2>1, <2>2, <2>3, Located DEF LInv, CountersOK, TokenOK, NeverAhead, ColumnIsExact
    <2> QED  BY <2>4, <2>5 DEF LInv
  <1>2. CASE GetUnknown
    <2>1. /\ at' = [at EXCEPT !.column = @ + 1] /\ yycolumn' = yycolumn
          /\ Locate(1) /\ skewed' = TRUE
      BY <1>2 DEF GetUnknown, ReturnUnknown, Advance
    <2>2. at'.line = at.line /\ yycolumn' \in Int /\ 1 \in Nat
      BY <2>1 DEF LInv, CountersOK
    <2>3. CountersOK'
      BY <2>1, <2>2, Located DEF LInv, CountersOK
    <2>4. TokenOK'
      BY <2>1, <2>2, Located DEF LInv, CountersOK, TokenOK, NeverAhead, ColumnIsExact
    <2> QED  BY <2>3, <2>4 DEF LInv
  <1>3. CASE GetEof
    <2>1. UNCHANGED <<at, yycolumn, skewed>> /\ yyla'.sym = "EOF"
      BY <1>3 DEF GetEof, ReturnEof, ReadEof, Token
    <2>2. PICK n \in {0, 1} : Locate(n)
      BY <1>3 DEF GetEof, ReturnEof
    <2>3. n \in Nat /\ yycolumn' \in Int
      BY <2>1 DEF LInv, CountersOK
    <2>4. CountersOK'
      BY <2>1, <2>2, <2>3, Located DEF LInv, CountersOK
    <2>5. TokenOK'
      BY <2>1, <2>2, <2>3, Located DEF LInv, CountersOK, TokenOK, NeverAhead, ColumnIsExact
    <2> QED  BY <2>4, <2>5 DEF LInv
  <1> QED  BY <1>1, <1>2, <1>3

\* The parser drops its lookahead or keeps it, and moves no counter.
LEMMA ParsingLocations ==
  ASSUME LInv, Parsing \/ UNCHANGED frontendVars
  PROVE  LInv'
  <1>1. UNCHANGED lexVars
    BY DEF Parsing, frontendVars
  <1>2. yyla' = yyla \/ yyla' = NoToken
    BY DEF Parsing, Shift, Accept, OpenScope, CloseScope, Declare, Assign, Use, Reduce,
           UnmatchedBrace, RecoverStatement, MakeProgram, MakeNode, Recover, Abort, Driver,
           Done, vars, frontendVars
  <1> QED  BY <1>1, <1>2 DEF LInv, CountersOK, TokenOK, NeverAhead, ColumnIsExact, lexVars

\* The counters and the location of the lookahead keep to the text.
THEOREM Locations == FrontendSpec => []LInv
  <1>1. ASSUME LInv, [FrontendNext]_frontendVars PROVE LInv'
    BY <1>1, ScanningLocations, ReturnLocations, ParsingLocations DEF FrontendNext
  <1> QED  BY <1>1, InitLocations, PTL DEF FrontendSpec

\* No location names a line behind the one its token is on.
THEOREM LocationsNeverAhead == FrontendSpec => []NeverAhead
  <1>1. LInv => NeverAhead
    BY DEF LInv, TokenOK
  <1> QED  BY <1>1, Locations, PTL

\* The column and the carets under a token are right on a line without block
\* comments and unknown characters.
THEOREM ColumnsExact == FrontendSpec => []ColumnIsExact
  <1>1. LInv => ColumnIsExact
    BY DEF LInv, TokenOK
  <1> QED  BY <1>1, Locations, PTL

----------------------------------------------------------------------------
(***************************************************************************)
(* The line that is shown with an error.                                   *)
(*                                                                         *)
(* Behind a token the scanner is in a line that source_lines_ has, and the *)
(* next location begins there.  Only an end of file can have a line that   *)
(* is not there: as the first token of all, or as the second end of file   *)
(* behind a newline.  Neither is ever shown, since the states in which they *)
(* are read shift them.                                                    *)
(***************************************************************************)
FirstState == Goto(StartState, "toplevel_stmt_list")

LineExists == yylloc.begin.line \in 1 .. LinesSoFar

\* States behind an end of file, and behind a program.
Behind(state) == state \in SUBSET LastItems \/ state \in SUBSET {<<"accept", 2>>}

LineInv ==
  /\ yylineno >= 1 /\ line_before >= 1 /\ at.column >= 1
  /\ ~input.eof /\ input.read # 0 => line_before <= LinesSoFar

LookaheadInv ==
  yyla # NoToken => \/ LineExists
                    \/ yyla.sym = "EOF" /\ (phase = "parsing" => CanShift(Top, "EOF"))

EofInv ==
  phase = "parsing" =>
    /\ input.eof => yyla.sym = "EOF" \/ (yyla = NoToken /\ Behind(Top))
    /\ ~input.eof /\ input.read = 0 => yyla = NoToken /\ Top \in {StartState, FirstState}

EInv == LineInv /\ LookaheadInv /\ EofInv

\* With its scanner and locations the parser is the one of module Parser: whatever
\* was proved of that holds here.
THEOREM FrontendParses == FrontendSpec => Spec
  <1>1. FrontendInit => Init
    BY DEF FrontendInit
  <1>2. [FrontendNext]_frontendVars => [Next]_vars
    BY DEF FrontendNext, Scanning, GetToken, GetUnknown, GetEof, Parsing, Next, frontendVars
  <1> QED  BY <1>1, <1>2, PTL DEF FrontendSpec, Spec

LEMMA InitLines == FrontendInit => EInv
  BY DEF FrontendInit, Init, LexInit, EInv, LineInv, LookaheadInv, EofInv, Position, Location,
         Entry, Top, Height

\* What is skipped only adds lines.
LEMMA ScanningLines ==
  ASSUME IInv, LInv, EInv, Scanning
  PROVE  EInv'
  <1>1. /\ yyla = NoToken /\ UNCHANGED <<yyla, line_before, input, phase, stack>>
        /\ yylineno' >= 1
    BY DEF Scanning, Fetching, Skip, Blank, Newline, BlockComment, vars, EInv, LineInv,
           LInv, CountersOK
  <1>2. at'.column >= 1 /\ (line_before <= LinesSoFar => line_before <= LinesSoFar')
    <2>1. at \in [line : Nat, column : Int] /\ at.column >= 1 /\ line_before \in Nat
      BY DEF LInv, CountersOK, EInv, LineInv
    <2>2. CASE \E n \in Lengths : Advance(n)
      BY <2>1, <2>2, BoundsAreNat DEF Lengths, Advance, LinesSoFar
    <2>3. CASE \E line \in at.line + 1 .. MaxLine, n \in Lengths : at' = Position(line, 1 + n)
      BY <2>1, <2>3, BoundsAreNat DEF Lengths, Position, LinesSoFar
    <2>4. CASE at' = Position(at.line + 1, 1)
      BY <2>1, <2>4 DEF Position, LinesSoFar
    <2> QED  BY <2>2, <2>3, <2>4 DEF Scanning, Skip, Blank, Newline, BlockComment
  <1>3. LineInv'
    BY <1>1, <1>2 DEF EInv, LineInv
  <1>4. LookaheadInv' /\ EofInv'
    BY <1>1 DEF EInv, LookaheadInv, EofInv, Top, Height
  <1> QED  BY <1>3, <1>4 DEF EInv

\* A token, or a character that is none, is in a line of its own text.
LEMMA TokenLines ==
  ASSUME IInv, LInv, EInv, GetToken \/ GetUnknown
  PROVE  EInv'
  <1>1. /\ input'.eof = FALSE /\ input'.read # 0
        /\ phase' = "parsing" \/ (phase' = "exception" /\ UNCHANGED yyla)
    <2>1. input.read \in Nat /\ input' \in {[input EXCEPT !.read = @ + 1],
                                            [input EXCEPT !.read = @ + 1, !.unknown = TRUE]}
      BY ParserAssumption DEF IInv, RegistersOK, GetToken, GetUnknown, ReadToken, ReadUnknown,
                              ReadHuge
    <2>2. input \in [read : 0 .. MaxTokens, eof : BOOLEAN, unknown : BOOLEAN] /\ ~input.eof
      BY DEF IInv, RegistersOK, GetToken, GetUnknown, ReadToken, ReadUnknown, ReadHuge, NextUnit
    <2>3. input'.eof = FALSE /\ input'.read = input.read + 1
      BY <2>1, <2>2
    <2>4. phase' = "parsing" \/ (phase' = "exception" /\ UNCHANGED yyla)
      BY DEF GetToken, GetUnknown, ReadToken, ReadUnknown, ReadHuge, Fetching
    <2> QED  BY <2>1, <2>3, <2>4
  <1>2. PICK n \in Nat : /\ n >= 1 /\ Locate(n) /\ at' = [at EXCEPT !.column = @ + n]
                         /\ yycolumn' \in Int
    <2>1. yycolumn \in Int
      BY DEF LInv, CountersOK
    <2>2. CASE GetToken
      BY <2>1, <2>2, BoundsAreNat DEF GetToken, ReturnToken, Advance, Lengths
    <2>3. CASE GetUnknown
      <3>1. Locate(1) /\ at' = [at EXCEPT !.column = @ + 1] /\ yycolumn' \in Int
        BY <2>1, <2>3 DEF GetUnknown, ReturnUnknown, Advance
      <3> QED  BY <3>1
    <2> QED  BY <2>2, <2>3
  <1>3. /\ yylineno' = yylineno /\ line_before' = yylineno /\ yylloc'.begin.line = line_before
    BY <1>2, Located DEF LInv
  <1>4. /\ at \in [line : Nat, column : Int] /\ yylineno \in Nat /\ line_before \in Nat
        /\ line_before <= yylineno /\ yylineno <= at.line
        /\ at.column >= 1 /\ line_before >= 1 /\ yylineno >= 1
    BY DEF LInv, CountersOK, EInv, LineInv
  <1>5. at'.column \in Int /\ at'.column > 1 /\ at'.line = at.line
    BY <1>2, <1>4
  <1>6. LinesSoFar' = at.line
    BY <1>5 DEF LinesSoFar
  <1>7. LineInv'
    BY <1>3, <1>4, <1>5, <1>6 DEF LineInv
  <1>8. LineExists'
    BY <1>3, <1>4, <1>6 DEF LineExists
  <1>9. LookaheadInv' /\ EofInv'
    BY <1>1, <1>8 DEF LookaheadInv, EofInv
  <1> QED  BY <1>7, <1>9 DEF EInv

\* An end of file is in the line behind the token before it, or is shifted.
LEMMA EofLines ==
  ASSUME IInv, LInv, EInv, GetEof
  PROVE  EInv'
  <1>1. /\ phase = "parsing" /\ yyla = NoToken /\ NeedsLookahead(Top)
        /\ yyla' = Token("EOF", NoName) /\ UNCHANGED <<stack, phase, at>>
        /\ input'.eof = TRUE
    <2>1. input' = [input EXCEPT !.eof = TRUE]
      BY DEF GetEof, ReadEof
    <2>2. input'.eof = TRUE
      BY <2>1 DEF IInv, RegistersOK
    <2> QED  BY <2>2 DEF GetEof, ReadEof, Fetching, ReturnEof
  <1>2. /\ yylineno' = yylineno /\ line_before' = yylineno /\ yylloc'.begin.line = line_before
    <2>1. PICK n \in {0, 1} : Locate(n)
      BY DEF GetEof, ReturnEof
    <2>2. n \in Nat /\ yycolumn' \in Int
      BY DEF GetEof, ReturnEof, LInv, CountersOK
    <2> QED  BY <2>1, <2>2, Located DEF LInv
  <1>3. LineInv'
    <2>1. yylineno >= 1 /\ at.column >= 1
      BY DEF EInv, LineInv
    <2>2. yylineno' >= 1 /\ line_before' >= 1 /\ at'.column >= 1
      BY <1>1, <1>2, <2>1
    <2> QED  BY <1>1, <2>2 DEF LineInv
  <1>4. yyla'.sym = "EOF"
    BY <1>1 DEF Token
  <1>5. LineExists' \/ CanShift(Top, "EOF")
    <2>1. CASE ~input.eof /\ input.read # 0
      <3>1. LinesSoFar' = LinesSoFar
        BY <1>1 DEF LinesSoFar
      <3>2. line_before \in Nat /\ line_before >= 1 /\ line_before <= LinesSoFar
        BY <2>1 DEF EInv, LineInv, LInv, CountersOK
      <3>3. LinesSoFar \in Int
        BY DEF LinesSoFar, LInv, CountersOK
      <3> QED  BY <1>2, <3>1, <3>2, <3>3 DEF LineExists
    <2>2. CASE ~input.eof /\ input.read = 0
      BY <1>1, <2>2, FirstStates DEF EInv, EofInv, FirstState
    <2>3. CASE input.eof
      <3>1. Top \in SUBSET {<<"accept", 2>>}
        <4>1. yyla.sym # "EOF"
          BY <1>1 DEF NoToken, Token
        <4>2. Behind(Top)
          BY <1>1, <2>3, <4>1 DEF EInv, EofInv
        <4> QED  BY <1>1, <4>2, LastState DEF Behind
      <3>2. Expected(Top) # {}
        BY <1>1 DEF NeedsLookahead
      <3> QED  BY <3>1, <3>2, AcceptState DEF CanShift
    <2> QED  BY <2>1, <2>2, <2>3
  <1>6. Top' = Top
    BY <1>1 DEF Top, Height
  <1>7. LookaheadInv' /\ EofInv'
    BY <1>1, <1>4, <1>5, <1>6 DEF LookaheadInv, EofInv
  <1> QED  BY <1>3, <1>7 DEF EInv

\* What all reductions have in common.
LEMMA Reduces ==
  ASSUME IInv,
         \/ OpenScope \/ CloseScope \/ Declare \/ Assign \/ Use
         \/ UnmatchedBrace \/ RecoverStatement \/ MakeProgram \/ MakeNode
  PROVE  \E r \in Reducible \ {"accept"}, table \in Nat : Reduce(r, table)
  <1>1. CASE OpenScope
    <2>1. FreshTable \in Nat
      BY TableType DEF IInv
    <2> QED  BY <1>1, <2>1 DEF OpenScope
  <1>2. CASE CloseScope \/ Declare \/ Assign \/ Use
    <2>1. \E r \in Reducible \ {"accept"} : Reduce(r, 0)
      BY <1>2, Zenon DEF CloseScope, Declare, Assign, Use
    <2> QED  BY <2>1
  <1>3. CASE UnmatchedBrace \/ RecoverStatement \/ MakeProgram \/ MakeNode
    <2>1. \E r \in Reducible \ {"accept"} : Reduce(r, 0)
      BY <1>3 DEF UnmatchedBrace, RecoverStatement, MakeProgram, MakeNode, PlainRules, ErrorRules
    <2> QED  BY <2>1
  <1> QED  BY <1>1, <1>2, <1>3

\* What can be shifted is not reduced on.
LEMMA ShiftFirst ==
  ASSUME yyla.sym = "EOF", CanShift(Top, "EOF")
  PROVE  Reducible = {}
  BY EofIsTerminal DEF Reducible, CanShift, NeedsLookahead

LEMMA ReduceLines ==
  ASSUME IInv, LInv, EInv, UNCHANGED lexVars,
         NEW r \in Reducible \ {"accept"}, NEW table \in Nat, Reduce(r, table)
  PROVE  EInv'
  <1>1. UNCHANGED <<yyla, input, phase>> /\ PushFrom(Height - Width(r), Lhs(r), NoName, table)
    BY DEF Reduce
  <1>2. /\ phase = "parsing" /\ r \in Completed(Top) /\ r \in RuleNames
        /\ Height - Width(r) \in 1 .. Height /\ Lhs(r) \in Symbols
    BY ReducibleRule DEF IInv, Reducible
  <1>3. stack \in Seq(Entries) /\ Height \in Nat
    BY StackType DEF IInv, StackInv
  <1> DEFINE below == Height - Width(r)
             K == stack[below].state
  <1>4. K \in SUBSET Items /\ Top' = Goto(K, Lhs(r))
    <2>1. stack[below] \in Entries
      BY <1>2, <1>3, StackType
    <2>2. /\ Height' = below + 1
          /\ stack'[below + 1] = Entry(Goto(K, Lhs(r)), Lhs(r), NoName, table)
      BY <1>1, <1>2, <1>3, PushedStack
    <2>3. stack'[Height'].state = Goto(K, Lhs(r))
      BY <2>2 DEF Entry
    <2> QED  BY <2>1, <2>3, EntryType DEF Top
  <1>5. LineInv' /\ LineExists' = LineExists
    BY <1>1 DEF EInv, LineInv, lexVars, LineExists, LinesSoFar
  <1>6. ~(yyla.sym = "EOF" /\ CanShift(Top, "EOF"))
    BY ShiftFirst
  <1>7. LookaheadInv'
    BY <1>1, <1>2, <1>5, <1>6 DEF EInv, LookaheadInv
  <1>8. ASSUME input.eof, yyla = NoToken, Behind(Top)
        PROVE  Behind(Top)'
    <2>1. r = "program"
      BY <1>2, <1>8, LastState, AcceptState DEF Behind
    <2>2. Lhs(r) = "program"
      BY <2>1, EofRules DEF Lhs
    <2> QED  BY <1>4, <2>2, EofGotos DEF Behind
  <1>9. ASSUME ~input.eof, input.read = 0
        PROVE  yyla = NoToken /\ Top' = FirstState
    <2>1. yyla = NoToken /\ Top \in {StartState, FirstState}
      BY <1>2, <1>9 DEF EInv, EofInv
    <2>2. ~NeedsLookahead(Top)
      BY <2>1 DEF Reducible
    <2>3. Top = StartState /\ r = "toplevel_none"
      BY <1>2, <2>1, <2>2, FirstStates DEF FirstState
    <2>4. Width(r) = 0 /\ Lhs(r) = "toplevel_stmt_list"
      BY <2>3, ProgramBegins DEF Width, Lhs
    <2>5. K = StartState
      BY <1>3, <2>3, <2>4 DEF Top
    <2> QED  BY <1>4, <2>1, <2>4, <2>5 DEF FirstState
  <1>10. EofInv'
    BY <1>1, <1>2, <1>8, <1>9 DEF EInv, EofInv
  <1> QED  BY <1>5, <1>7, <1>10 DEF EInv

LEMMA ShiftLines ==
  ASSUME IInv, LInv, EInv, UNCHANGED lexVars, Shift
  PROVE  EInv'
  <1>1. /\ phase = "parsing" /\ yyla # NoToken /\ yyla' = NoToken
        /\ PushFrom(Height, yyla.sym, yyla.name, 0) /\ UNCHANGED <<input, phase>>
    BY DEF Shift
  <1>2. yyla.sym \in Symbols /\ yyla.name \in Names \cup {NoName}
    BY <1>1, TerminalSymbols DEF IInv, RegistersOK
  <1>3. stack \in Seq(Entries) /\ Height \in 1 .. Height
    BY StackType DEF IInv, StackInv
  <1>4. Top \in SUBSET Items /\ Top' = Goto(Top, yyla.sym)
    <2>1. stack[Height] \in Entries
      BY <1>3, StackType
    <2>2. /\ Height' = Height + 1
          /\ stack'[Height + 1] = Entry(Goto(Top, yyla.sym), yyla.sym, yyla.name, 0)
      BY <1>1, <1>2, <1>3, PushedStack DEF Top
    <2>3. stack'[Height'].state = Goto(Top, yyla.sym)
      BY <2>2 DEF Entry
    <2> QED  BY <2>1, <2>3, EntryType DEF Top
  <1>5. LineInv'
    BY <1>1 DEF EInv, LineInv, lexVars, LinesSoFar
  <1>6. input.eof => Behind(Top)'
    <2> SUFFICES ASSUME input.eof PROVE Behind(Top)'
      OBVIOUS
    <2>1. yyla.sym = "EOF"
      BY <1>1 DEF EInv, EofInv
    <2> QED  BY <1>4, <2>1, EofGotos DEF Behind
  <1>7. input.eof \/ input.read # 0
    BY <1>1 DEF EInv, EofInv
  <1>8. LookaheadInv' /\ EofInv'
    BY <1>1, <1>6, <1>7 DEF LookaheadInv, EofInv
  <1> QED  BY <1>5, <1>8 DEF EInv

\* The end of file is never passed over by a recovery.
LEMMA RecoverLines ==
  ASSUME IInv, LInv, EInv, UNCHANGED lexVars, Recover
  PROVE  EInv'
  <1>1. /\ phase = "parsing" /\ yyla # NoToken /\ ~CanShift(Top, yyla.sym) /\ ~AtEof
        /\ yyla' = IF yyerrstatus_ = 3 THEN NoToken ELSE yyla
        /\ UNCHANGED <<input, phase>>
    BY DEF Recover, Stuck
  <1>2. LineInv' /\ LineExists' = LineExists
    BY <1>1 DEF EInv, LineInv, lexVars, LineExists, LinesSoFar
  <1>3. LineExists
    BY <1>1 DEF EInv, LookaheadInv
  <1>4. input.eof => yyla.sym = "EOF" /\ yyla' = yyla
    BY <1>1 DEF EInv, EofInv, AtEof
  <1>5. input.eof \/ input.read # 0
    BY <1>1 DEF EInv, EofInv
  <1>6. LookaheadInv' /\ EofInv'
    BY <1>1, <1>2, <1>3, <1>4, <1>5 DEF LookaheadInv, EofInv
  <1> QED  BY <1>2, <1>6 DEF EInv

LEMMA EndLines ==
  ASSUME EInv, UNCHANGED lexVars, Accept \/ Abort \/ Driver
  PROVE  EInv'
  <1>1. UNCHANGED <<yyla, input>> /\ phase' # "parsing"
    BY DEF Accept, Abort, Driver
  <1>2. LineInv' /\ LineExists' = LineExists
    BY <1>1 DEF EInv, LineInv, lexVars, LineExists, LinesSoFar
  <1> QED  BY <1>1, <1>2 DEF EInv, LookaheadInv, EofInv

LEMMA StutterLines ==
  ASSUME EInv, UNCHANGED frontendVars
  PROVE  EInv'
  BY DEF EInv, LineInv, LookaheadInv, EofInv, LineExists, LinesSoFar, Top, Height,
         frontendVars, vars, lexVars

\* Every error is shown with a line that the file has: the index of get_line_content is
\* in range for each location that yy::parser::error or a semantic action hands to it.
THEOREM ErrorLinesExist == FrontendSpec => []ErrorLineExists
  <1>1. IInv /\ LInv /\ EInv /\ [FrontendNext]_frontendVars => EInv'
    <2> SUFFICES ASSUME IInv, LInv, EInv, [FrontendNext]_frontendVars PROVE EInv'
      OBVIOUS
    <2>1. CASE Scanning \/ GetToken \/ GetUnknown \/ GetEof
      BY <2>1, ScanningLines, TokenLines, EofLines
    <2>2. CASE UNCHANGED frontendVars
      BY <2>2, StutterLines
    <2>3. CASE Parsing
      <3>1. UNCHANGED lexVars
        BY <2>3 DEF Parsing
      <3>2. CASE Shift \/ Recover \/ Accept \/ Abort \/ Driver
        BY <3>1, <3>2, ShiftLines, RecoverLines, EndLines
      <3>3. CASE \/ OpenScope \/ CloseScope \/ Declare \/ Assign \/ Use
                 \/ UnmatchedBrace \/ RecoverStatement \/ MakeProgram \/ MakeNode
        BY <3>1, <3>3, Reduces, ReduceLines
      <3>4. CASE Done
        BY <3>1, <3>4, StutterLines DEF Done, frontendVars
      <3> QED  BY <2>3, <3>2, <3>3, <3>4 DEF Parsing
    <2> QED  BY <2>1, <2>2, <2>3 DEF FrontendNext
  <1>2. EInv => ErrorLineExists
    BY DEF EInv, LookaheadInv, LineExists, ErrorLineExists, Stuck
  <1> QED  BY <1>1, <1>2, InitLines, FrontendParses, Invariance, Locations, PTL DEF FrontendSpec
==================================================================================
