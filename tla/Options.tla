--------------------------------- MODULE Options ---------------------------------
(***************************************************************************)
(* Option_parser::parse_options (frontend/src/parse_options.cpp): the      *)
(* command line, argument by argument, as it is typed.  An argument is a   *)
(* record: its text; form, which test of the loop it passes; and behind,   *)
(* the text behind -o, --output= or -O in the same argument.               *)
(***************************************************************************)
EXTENDS Integers, Sequences

CONSTANTS
  Arguments,      \* the arguments that may be given
  NoText,         \* the empty text
  Levels,         \* the texts that are optimization levels
  DefaultLevel,   \* the level without -O
  MaxArguments    \* bound: the arguments of a command line

\* "-o" is also "--output", and "-o=" is "--output=NAME" or "-oNAME".
Forms == {"--", "-o", "-o=", "-O", "-O=", "unknown", "file"}

ASSUME OptionsAssumption ==
  /\ \A arg \in Arguments : {"text", "form", "behind"} \subseteq DOMAIN arg /\ arg.form \in Forms
  /\ NoText \notin Levels /\ DefaultLevel \in Levels
  /\ MaxArguments \in Nat

VARIABLES
  argv,                  \* the arguments read so far
  awaiting,              \* what the next one is: "option", "output", "level" or "file"
  input_file_,
  output_name_,          \* a set that holds the name, if there is one
  optimization_level_,
  options                \* "parsing", "parsed", or "failed": an exception is thrown

optionVars == <<argv, awaiting, input_file_, output_name_, optimization_level_, options>>

OptionsInit ==
  /\ argv = <<>> /\ awaiting = "option"
  /\ input_file_ = NoText /\ output_name_ = {} /\ optimization_level_ = DefaultLevel
  /\ options = "parsing"

----------------------------------------------------------------------------
\* The next argument is arg, read where what is awaited.
Take(what, arg) ==
  /\ options = "parsing" /\ Len(argv) < MaxArguments
  /\ awaiting = what
  /\ argv' = Append(argv, arg)

TakeOption(arg, form) == Take("option", arg) /\ arg.form = form

FailUnless(fine) == options' = IF fine THEN options ELSE "failed"

\* A faulty variant: behind "--" the last name counts.
SetInputBehind(arg) ==
  /\ FailUnless(awaiting = "file" \/ input_file_ = NoText)
  /\ input_file_' = IF options' = "failed" THEN input_file_ ELSE arg.text
  /\ UNCHANGED <<awaiting, output_name_, optimization_level_>>

\* "Multiple input files not supported".  An empty name was none.
SetInput(arg) ==
  /\ FailUnless(input_file_ = NoText)
  /\ input_file_' = IF input_file_ = NoText THEN arg.text ELSE input_file_
  /\ UNCHANGED <<awaiting, output_name_, optimization_level_>>

\* parse_output_name and parse_optimization_level.
SetOutput(text) ==
  /\ FailUnless(text # NoText)
  /\ output_name_' = IF text # NoText THEN {text} ELSE output_name_
  /\ awaiting' = "option"
  /\ UNCHANGED <<input_file_, optimization_level_>>

SetLevel(text) ==
  /\ FailUnless(text \in Levels)
  /\ optimization_level_' = IF text \in Levels THEN text ELSE optimization_level_
  /\ awaiting' = "option"
  /\ UNCHANGED <<input_file_, output_name_>>

Await(what) ==
  /\ awaiting' = what
  /\ UNCHANGED <<input_file_, output_name_, optimization_level_, options>>

EndOfOptions(arg)   == TakeOption(arg, "--") /\ Await("file")
OptionOutput(arg)   == TakeOption(arg, "-o") /\ Await("output")
OptionLevel(arg)    == TakeOption(arg, "-O") /\ Await("level")
AttachedOutput(arg) == TakeOption(arg, "-o=") /\ SetOutput(arg.behind)
AttachedLevel(arg)  == TakeOption(arg, "-O=") /\ SetLevel(arg.behind)
InputFile(arg)      == TakeOption(arg, "file") /\ SetInput(arg)

UnknownOption(arg) ==
  /\ TakeOption(arg, "unknown") /\ options' = "failed"
  /\ UNCHANGED <<awaiting, input_file_, output_name_, optimization_level_>>

\* require_value takes the next argument, whatever it looks like.
OutputValue(arg) == Take("output", arg) /\ SetOutput(arg.text)
LevelValue(arg)  == Take("level", arg) /\ SetLevel(arg.text)

\* Behind "--" every argument is a file.
FileBehind(arg) == Take("file", arg) /\ SetInput(arg)

\* "requires an argument" or "No input file provided", or the options.
EndOfArguments ==
  /\ options = "parsing"
  /\ options' = IF awaiting \in {"output", "level"} \/ input_file_ = NoText
                THEN "failed" ELSE "parsed"
  /\ UNCHANGED <<argv, awaiting, input_file_, output_name_, optimization_level_>>

OptionsNext ==
  \/ \E arg \in Arguments :
       \/ EndOfOptions(arg) \/ OptionOutput(arg) \/ OptionLevel(arg)
       \/ AttachedOutput(arg) \/ AttachedLevel(arg) \/ InputFile(arg) \/ UnknownOption(arg)
       \/ OutputValue(arg) \/ LevelValue(arg) \/ FileBehind(arg)
  \/ EndOfArguments

----------------------------------------------------------------------------
(***************************************************************************)
(* What a command line says, read as a whole.                              *)
(***************************************************************************)
Places == 1 .. Len(argv)

\* An argument is the value of the one before it, or behind the first "--" that
\* is no value, or stands for itself.
Role ==
  LET role[k \in Places] ==
        IF k = 1 THEN "own"
        ELSE IF role[k - 1] = "behind" \/ (role[k - 1] = "own" /\ argv[k - 1].form = "--")
             THEN "behind"
        ELSE IF role[k - 1] = "own" /\ argv[k - 1].form \in {"-o", "-O"} THEN "value"
        ELSE "own"
  IN  role

Files == {k \in Places : Role[k] = "behind" \/ (Role[k] = "own" /\ argv[k].form = "file")}
Named == {k \in Files : argv[k].text # NoText}

\* The values of an option, by the place they are at.
Given(form, attached) ==
  [k \in {k \in Places : \/ Role[k] = "value" /\ argv[k - 1].form = form
                         \/ Role[k] = "own" /\ argv[k].form = attached}
     |-> IF Role[k] = "value" THEN argv[k].text ELSE argv[k].behind]

LastGiven(given) == {given[k] : k \in {k \in DOMAIN given : \A l \in DOMAIN given : l <= k}}

Outputs == Given("-o", "-o=")
Chosen  == Given("-O", "-O=")

WrongCommandLine ==
  \/ Named = {} \/ \E k \in Named, l \in Files : k < l
  \/ \E k \in Places : Role[k] = "own" /\ argv[k].form = "unknown"
  \/ \E k \in DOMAIN Outputs : Outputs[k] = NoText
  \/ \E k \in DOMAIN Chosen : Chosen[k] \notin Levels
  \/ argv # <<>> /\ Role[Len(argv)] = "own" /\ argv[Len(argv)].form \in {"-o", "-O"}

\* The options are what the command line says: its one file that has a name, and
\* the last output name and level.  It is refused only when it is wrong, which
\* a second file is even when its name is empty.
OptionsAreAsGiven ==
  /\ options = "parsed" =>
       /\ ~WrongCommandLine
       /\ \A k \in Named : input_file_ = argv[k].text
       /\ output_name_ = LastGiven(Outputs)
       /\ {optimization_level_} = IF DOMAIN Chosen = {} THEN {DefaultLevel} ELSE LastGiven(Chosen)
  /\ options = "failed" => WrongCommandLine
==================================================================================
