-------------------------------- MODULE MainProofs --------------------------------
(***************************************************************************)
(* Proofs about main(): around the options, the dump and the back ends it  *)
(* still is the parser of module Parser, so that what was proved of parses *)
(* holds; files are written behind a parse without errors only, and the    *)
(* exit status tells whether they are complete, but for a dump whose       *)
(* stream has failed.  And what it does with the options leaves them what  *)
(* module Options reads.                                                   *)
(***************************************************************************)
EXTENDS Main, ParserProofs, OptionsProofs

\* The stages behind a parse without errors.
Compiling == {"dump", "back end", "generate", "write", "clang", "leave"}

OrderInv ==
  DOMAIN files # {} \/ stage \in Compiling \/ exit = "success" => phase = "compiling"

EarlyInv == stage \in {"options", "parse"} => DOMAIN files = {}

\* A stream that failed ends the process, but not before clang was run.
StreamInv ==
  /\ ioError => stage \in {"clang", "leave"} \/ (stage = "exited" /\ exit = "killed")
  /\ stage = "clang" /\ ~ioError => LlFile \in DOMAIN files /\ files[LlFile] = "ir"
  /\ stage = "leave" /\ ~ioError =>
       LlFile \in DOMAIN files
         /\ (files[LlFile] = "ir" \/ (LlFile = ExeFile /\ files[LlFile] = "program"))

\* What is not whole is the dump, until it is closed, or is of a failed stream.
PartInv ==
  \A path \in DOMAIN files :
    /\ files[path] = "part" => ioError \/ (path = DumpFile /\ "GRAPH_DUMP" \in build)
    /\ files[path] = "earlier program" => ioError

DumpInv ==
  /\ stage = "dump" => "GRAPH_DUMP" \in build
  /\ stage \in Compiling \ {"dump"} /\ "GRAPH_DUMP" \in build => DumpFile \in DOMAIN files

\* A file that stays in part is a dump whose stream has failed.
PartIsOfDump(path) == files[path] = "part" => path = DumpFile /\ gvError

\* What is behind the exit status.
ExitInv ==
  /\ exit # "none" => stage = "exited"
  /\ FilesAreWhole
  /\ exit = "success" =>
       /\ "GRAPH_DUMP" \in build => Holds(DumpFile, "dump") \/ gvError
       /\ ~Interprets => \/ Holds(LlFile, "ir") \/ LlFile = DumpFile
                         \/ LlFile = ExeFile /\ Holds(LlFile, "program")

MInv == OrderInv /\ EarlyInv /\ StreamInv /\ PartInv /\ DumpInv /\ ExitInv

----------------------------------------------------------------------------
\* The steps of Main that are none of the parser.
LEMMA MainOutsideParser ==
  ASSUME [MainNext]_mainVars
  PROVE  Parse \/ UNCHANGED vars
  <1> USE DEF At, Proceed, Throw
  <1>1. CASE ParseOptions \/ OptionsRefused \/ CannotOpen \/ OpenFile
    BY <1>1 DEF ParseOptions, OptionsRefused, CannotOpen, OpenFile
  <1>2. CASE ParseFailed \/ ChooseBuild \/ DumpFails \/ Dump \/ Interpret
    BY <1>2 DEF ParseFailed, ChooseBuild, DumpFails, Dump, Interpret
  <1>3. CASE MakePaths \/ Generate \/ WriteIr \/ Clang \/ Leave
    BY <1>3 DEF MakePaths, Generate, WriteIr, Clang, Leave
  <1>4. CASE Exited \/ UNCHANGED mainVars
    BY <1>4 DEF Exited, mainVars
  <1> QED  BY <1>1, <1>2, <1>3, <1>4 DEF MainNext

\* Whatever main() does around it, the parse is one of module Parser.
THEOREM MainParses == MainSpec => Spec
  <1>1. MainInit => Init
    BY DEF MainInit
  <1>2. [MainNext]_mainVars => [Next]_vars
    BY MainOutsideParser DEF Parse
  <1> QED  BY <1>1, <1>2, PTL DEF MainSpec, Spec

\* The files after a Write, and after the dump is closed.
LEMMA Written ==
  ASSUME NEW path, NEW content, Write(path, content)
  PROVE  /\ DOMAIN files' = DOMAIN files \cup {path}
         /\ files'[path] = content
         /\ \A p \in DOMAIN files : p # path => files'[p] = files[p]
  BY DEF Write

LEMMA Closed ==
  ASSUME CloseDump, DumpInv, PartInv, ~ioError
  PROVE  /\ DOMAIN files' = DOMAIN files
         /\ \A p \in DOMAIN files : PartIsOfDump(p)' /\ files'[p] # "earlier program"
         /\ \A p \in DOMAIN files : p # DumpFile => files'[p] = files[p]
         /\ DumpIsOpen => files'[DumpFile] = "dump" \/ gvError'
  <1>1. CASE DumpIsOpen /\ Write(DumpFile, "dump")
    <2>2. /\ DOMAIN files' = DOMAIN files \cup {DumpFile}
          /\ files'[DumpFile] = "dump"
          /\ \A p \in DOMAIN files : p # DumpFile => files'[p] = files[p]
      BY <1>1, Written
    <2>3. DOMAIN files' = DOMAIN files
      BY <1>1, <2>2 DEF DumpIsOpen
    <2>4. \A p \in DOMAIN files : p # DumpFile => files'[p] \notin {"part", "earlier program"}
      BY <2>2 DEF PartInv
    <2> QED  BY <2>2, <2>3, <2>4 DEF PartIsOfDump
  <1>2. CASE DumpIsOpen /\ gvError' = TRUE /\ UNCHANGED files
    BY <1>2 DEF PartInv, PartIsOfDump
  <1>3. CASE ~DumpIsOpen
    BY <1>3 DEF CloseDump, DumpIsOpen, PartInv, PartIsOfDump
  <1> QED  BY <1>1, <1>2, <1>3 DEF CloseDump, Flush

LEMMA PartStays ==
  ASSUME PartInv, UNCHANGED <<files, ioError, build>>
  PROVE  PartInv'
  BY DEF PartInv

----------------------------------------------------------------------------
\* An exception that is thrown while the stream of the IR is not open.
LEMMA ThrowSafe ==
  ASSUME MInv, NEW from, At(from), from \notin {"clang", "leave", "exited"}, Throw
  PROVE  MInv'
  <1> USE DEF At, Throw, LlFile, ExeFile, Interprets
  <1>1. ~ioError /\ ~ioError' /\ stage' = "exited" /\ exit' = "failure"
    BY DEF MInv, StreamInv
  <1>2. UNCHANGED <<phase, build, output_name_>>
    BY DEF vars, optionVars
  <1>3. /\ DOMAIN files' = DOMAIN files
        /\ \A p \in DOMAIN files' : PartIsOfDump(p)' /\ files'[p] # "earlier program"
    BY <1>1, Closed DEF MInv
  <1>4. OrderInv'
    BY <1>1, <1>2, <1>3 DEF OrderInv, MInv, Compiling
  <1>5. EarlyInv' /\ StreamInv' /\ DumpInv'
    BY <1>1 DEF EarlyInv, StreamInv, DumpInv, Compiling
  <1>6. PartInv'
    <2>1. (DumpFile \in DOMAIN files /\ "GRAPH_DUMP" \in build) \/ UNCHANGED files
      BY DEF CloseDump, DumpIsOpen
    <2>2. \A p \in DOMAIN files' : files'[p] = "part" => p = DumpFile
      BY <1>3 DEF PartIsOfDump
    <2>3. CASE UNCHANGED files
      BY <1>1, <1>2, <2>3, PartStays DEF MInv
    <2>4. CASE "GRAPH_DUMP" \in build
      BY <1>2, <1>3, <2>2, <2>4 DEF PartInv
    <2> QED  BY <2>1, <2>3, <2>4
  <1>7. ExitInv'
    BY <1>1, <1>3 DEF ExitInv, FilesAreWhole, PartIsOfDump
  <1> QED  BY <1>4, <1>5, <1>6, <1>7 DEF MInv

\* The process ends, and whatever is open stays as it is.
LEMMA KilledSafe ==
  ASSUME MInv, NEW from, At(from), Killed
  PROVE  MInv'
  <1> USE DEF At, Killed, LlFile, ExeFile, Interprets
  <1>1. stage' = "exited" /\ exit' = "killed"
    OBVIOUS
  <1>2. UNCHANGED <<phase, build, output_name_, ioError, files>>
    BY DEF vars, optionVars
  <1>3. OrderInv'
    BY <1>1, <1>2 DEF OrderInv, MInv, Compiling
  <1>4. EarlyInv' /\ StreamInv' /\ PartInv' /\ DumpInv'
    <2>1. EarlyInv' /\ StreamInv'
      BY <1>1 DEF EarlyInv, StreamInv
    <2>2. PartInv'
      BY <1>2, PartStays DEF MInv
    <2>3. DumpInv'
      BY <1>1 DEF DumpInv, Compiling
    <2> QED  BY <2>1, <2>2, <2>3
  <1>5. ExitInv'
    BY <1>1 DEF ExitInv, FilesAreWhole
  <1> QED  BY <1>3, <1>4, <1>5 DEF MInv

\* The process ends well, from a stage in which the dump is still open.
LEMMA SuccessSafe ==
  ASSUME MInv, NEW from \in Compiling \ {"dump"}, At(from), ~ioError,
         stage' = "exited", exit' = "success", CloseDump, UNCHANGED ioError,
         ~Interprets => from = "leave"
  PROVE  MInv'
  <1> USE DEF At, LlFile, ExeFile, Interprets
  <1>1. UNCHANGED <<phase, build, output_name_>> /\ ~ioError'
    BY DEF vars, optionVars
  <1>2. /\ DOMAIN files' = DOMAIN files
        /\ \A p \in DOMAIN files' : PartIsOfDump(p)' /\ files'[p] # "earlier program"
        /\ \A p \in DOMAIN files : p # DumpFile => files'[p] = files[p]
        /\ "GRAPH_DUMP" \in build =>
             DumpFile \in DOMAIN files' /\ (files'[DumpFile] = "dump" \/ gvError')
    BY Closed DEF MInv, DumpInv, DumpIsOpen
  <1>3. OrderInv'
    BY <1>1, <1>2 DEF OrderInv, MInv, Compiling
  <1>4. EarlyInv' /\ StreamInv' /\ DumpInv'
    BY <1>1 DEF EarlyInv, StreamInv, DumpInv, Compiling
  <1>5. PartInv'
    <2>1. "GRAPH_DUMP" \in build \/ UNCHANGED files
      BY DEF CloseDump, DumpIsOpen
    <2>2. \A p \in DOMAIN files' : files'[p] = "part" => p = DumpFile
      BY <1>2 DEF PartIsOfDump
    <2>3. CASE UNCHANGED files
      BY <1>1, <2>3, PartStays DEF MInv
    <2>4. CASE "GRAPH_DUMP" \in build
      BY <1>1, <1>2, <2>2, <2>4 DEF PartInv
    <2> QED  BY <2>1, <2>3, <2>4
  <1>6. ~Interprets =>
           \/ LlFile \in DOMAIN files' /\ files'[LlFile] = "ir"
           \/ LlFile = DumpFile
           \/ LlFile = ExeFile /\ LlFile \in DOMAIN files' /\ files'[LlFile] = "program"
    BY <1>2 DEF MInv, StreamInv
  <1>7. ExitInv'
    BY <1>1, <1>2, <1>6 DEF ExitInv, FilesAreWhole, Holds, PartIsOfDump
  <1> QED  BY <1>3, <1>4, <1>5, <1>7 DEF MInv

\* Nothing has been written before the dump and the back ends.
LEMMA EarlySafe ==
  ASSUME MInv, ParseOptions \/ OpenFile \/ Parse \/ ChooseBuild
  PROVE  MInv'
  <1>1. /\ stage \in {"options", "parse"} /\ stage' \in {"options", "parse", "dump", "back end"}
        /\ UNCHANGED <<ioError, files, exit>>
    BY DEF ParseOptions, OpenFile, Parse, ChooseBuild
  <1>2. ~ioError /\ exit = "none" /\ DOMAIN files = {}
    BY <1>1 DEF MInv, StreamInv, ExitInv, EarlyInv
  <1>3. stage' \in Compiling => phase' = "compiling"
    BY <1>1 DEF ParseOptions, OpenFile, Parse, ChooseBuild, Compiling, vars
  <1>4. /\ stage' = "back end" => "GRAPH_DUMP" \notin build'
        /\ stage' = "dump" => "GRAPH_DUMP" \in build'
    BY <1>1 DEF ParseOptions, OpenFile, Parse, ChooseBuild
  <1>5. OrderInv' /\ EarlyInv'
    BY <1>1, <1>2, <1>3 DEF OrderInv, EarlyInv
  <1>6. StreamInv' /\ PartInv' /\ DumpInv'
    BY <1>1, <1>2, <1>4 DEF StreamInv, PartInv, DumpInv, Compiling
  <1>7. ExitInv'
    BY <1>1, <1>2 DEF ExitInv, FilesAreWhole
  <1> QED  BY <1>5, <1>6, <1>7 DEF MInv

\* A step between two stages of the compiler, which leaves what was whole.
LEMMA StageSafe ==
  ASSUME MInv, NEW from \in Compiling, At(from), stage' \in Compiling, UNCHANGED exit,
         PartInv', from # "dump" => DOMAIN files \subseteq DOMAIN files',
         from = "dump" => DumpFile \in DOMAIN files',
         stage' # "dump", StreamInv'
  PROVE  MInv'
  <1> USE DEF At
  <1>1. UNCHANGED <<phase, build>> /\ phase = "compiling"
    BY DEF vars, MInv, OrderInv
  <1>2. OrderInv' /\ EarlyInv'
    BY <1>1 DEF OrderInv, EarlyInv, Compiling
  <1>3. DumpInv'
    BY <1>1 DEF DumpInv, MInv
  <1>4. exit = "none" /\ stage' # "exited"
    BY DEF MInv, ExitInv, Compiling
  <1>5. ExitInv'
    BY <1>4 DEF ExitInv, FilesAreWhole
  <1> QED  BY <1>2, <1>3, <1>5 DEF MInv

----------------------------------------------------------------------------
LEMMA DumpSafe ==
  ASSUME MInv, Dump
  PROVE  MInv'
  <1>1. At("dump") /\ Write(DumpFile, "part") /\ UNCHANGED ioError
    BY DEF Dump
  <1>2. UNCHANGED <<phase, build>> /\ phase = "compiling" /\ ~ioError /\ exit = "none" /\ "GRAPH_DUMP" \in build
    BY <1>1 DEF At, vars, MInv, OrderInv, StreamInv, ExitInv, DumpInv, Compiling
  <1>3. PartInv'
    <2>1. /\ DOMAIN files' = DOMAIN files \cup {DumpFile}
          /\ files'[DumpFile] = "part"
          /\ \A p \in DOMAIN files : p # DumpFile => files'[p] = files[p]
      BY <1>1, Written
    <2>2. \A p \in DOMAIN files' : p = DumpFile \/ (p \in DOMAIN files /\ files'[p] = files[p])
      BY <2>1
    <2> QED  BY <1>1, <1>2, <2>1, <2>2 DEF PartInv, MInv
  <1>4. CASE bare
    <2>1. stage' = "exited" /\ exit' = "killed"
      BY <1>4 DEF Dump
    <2>2. OrderInv' /\ EarlyInv'
      BY <1>2, <2>1 DEF OrderInv, EarlyInv
    <2>3. StreamInv' /\ DumpInv'
      BY <2>1 DEF StreamInv, DumpInv, Compiling
    <2>4. ExitInv'
      BY <2>1 DEF ExitInv, FilesAreWhole
    <2> QED  BY <1>3, <2>2, <2>3, <2>4 DEF MInv
  <1>5. CASE ~bare
    <2>1. stage' = "back end" /\ UNCHANGED exit
      BY <1>5 DEF Dump
    <2>2. StreamInv'
      BY <1>1, <1>2, <2>1 DEF StreamInv
    <2>3. DumpFile \in DOMAIN files'
      BY <1>1, Written
    <2> QED  BY <1>1, <1>3, <2>1, <2>2, <2>3, StageSafe DEF Compiling
  <1> QED  BY <1>4, <1>5

\* The compiler up to the process that clang is.
LEMMA WriteSafe ==
  ASSUME MInv, WriteIr
  PROVE  MInv'
  <1> USE DEF At, LlFile, ExeFile
  <1>1. At("write") /\ stage' = "clang" /\ UNCHANGED exit
    BY DEF WriteIr
  <1>2. UNCHANGED <<phase, build, output_name_>> /\ ~ioError
    BY <1>1 DEF vars, optionVars, MInv, StreamInv
  <1>3. CASE UNCHANGED files /\ ioError' = TRUE
    <2>1. PartInv' /\ StreamInv'
      BY <1>1, <1>3 DEF PartInv, StreamInv
    <2> QED  BY <1>1, <1>3, <2>1, StageSafe DEF Compiling
  <1>4. ASSUME NEW content \in {"ir", "part"}, Write(LlFile, content),
               content = "part" <=> ioError'
        PROVE  MInv'
    <2>1. /\ DOMAIN files' = DOMAIN files \cup {LlFile}
          /\ files'[LlFile] = content
          /\ \A p \in DOMAIN files : p # LlFile => files'[p] = files[p]
      BY <1>4, Written
    <2>2. \A p \in DOMAIN files' : p = LlFile \/ (p \in DOMAIN files /\ files'[p] = files[p])
      BY <2>1
    <2>3. PartInv'
      BY <1>2, <1>4, <2>1, <2>2 DEF PartInv, MInv
    <2>4. LlFile' = LlFile
      BY <1>2
    <2>5. StreamInv'
      BY <1>1, <1>4, <2>1, <2>4 DEF StreamInv
    <2> QED  BY <1>1, <2>1, <2>3, <2>5, StageSafe DEF Compiling
  <1>5. CASE Write(LlFile, "ir") /\ UNCHANGED ioError
    BY <1>2, <1>4, <1>5
  <1>6. CASE Write(LlFile, "part") /\ ioError' = TRUE
    BY <1>4, <1>6
  <1> QED  BY <1>3, <1>5, <1>6 DEF WriteIr

LEMMA ClangSafe ==
  ASSUME MInv, Clang
  PROVE  MInv'
  <1>1. At("clang") /\ stage' = "leave" /\ UNCHANGED <<ioError, exit>>
    BY DEF Clang
  <1>2. UNCHANGED <<phase, build, output_name_>>
    BY <1>1 DEF At, vars, optionVars
  <1>3. LlFile' = LlFile /\ ExeFile' = ExeFile
    BY <1>2 DEF LlFile, ExeFile
  <1>4. ~ioError => LlFile \in DOMAIN files /\ files[LlFile] = "ir"
    BY <1>1 DEF At, MInv, StreamInv
  <1>5. CASE UNCHANGED files
    <2>1. PartInv'
      BY <1>1, <1>2, <1>5 DEF MInv, PartInv
    <2>2. StreamInv'
      BY <1>1, <1>3, <1>4, <1>5 DEF StreamInv
    <2> QED  BY <1>1, <1>5, <2>1, <2>2, StageSafe DEF Compiling
  <1>6. CASE Write(ExeFile, IF LlFile \in DOMAIN files THEN "program" ELSE "earlier program")
    <2>1. /\ DOMAIN files' = DOMAIN files \cup {ExeFile}
          /\ files'[ExeFile] = IF LlFile \in DOMAIN files THEN "program" ELSE "earlier program"
          /\ \A p \in DOMAIN files : p # ExeFile => files'[p] = files[p]
      BY <1>6, Written
    <2>2. \A p \in DOMAIN files' : p = ExeFile \/ (p \in DOMAIN files /\ files'[p] = files[p])
      BY <2>1
    <2>3. PartInv'
      BY <1>1, <1>2, <1>4, <2>1, <2>2 DEF PartInv, MInv
    <2>4. StreamInv'
      BY <1>1, <1>3, <1>4, <2>1 DEF StreamInv
    <2> QED  BY <1>1, <2>1, <2>3, <2>4, StageSafe DEF Compiling
  <1> QED  BY <1>5, <1>6 DEF Clang

LEMMA ProceedSafe ==
  ASSUME MInv, NEW from \in Compiling \ {"dump", "clang", "leave"},
         NEW to \in {"generate", "write"}, Proceed(from, to)
  PROVE  MInv'
  <1>1. At(from) /\ stage' = to /\ UNCHANGED <<ioError, files, exit>>
    BY DEF Proceed
  <1>2. UNCHANGED build
    BY <1>1 DEF At
  <1>3. PartInv'
    BY <1>1, <1>2 DEF MInv, PartInv
  <1>4. StreamInv'
    <2>1. ~ioError
      BY <1>1 DEF At, MInv, StreamInv, Compiling
    <2> QED  BY <1>1, <2>1 DEF StreamInv
  <1> QED  BY <1>1, <1>3, <1>4, StageSafe DEF Compiling

----------------------------------------------------------------------------
LEMMA MainStep ==
  ASSUME MInv, [MainNext]_mainVars
  PROVE  MInv'
  <1>1. CASE ParseOptions \/ OpenFile \/ Parse \/ ChooseBuild
    BY <1>1, EarlySafe
  <1>2. CASE OptionsRefused \/ CannotOpen
    BY <1>2, ThrowSafe DEF OptionsRefused, CannotOpen
  <1>3. CASE ParseFailed
    BY <1>3, ThrowSafe DEF ParseFailed
  <1>4. CASE DumpFails
    BY <1>4, ThrowSafe DEF DumpFails
  <1>5. CASE Dump
    BY <1>5, DumpSafe
  <1>6. CASE Interpret
    <2>1. At("back end") /\ Interprets
      BY <1>6 DEF Interpret
    <2>2. ~ioError
      BY <2>1 DEF At, MInv, StreamInv
    <2>3. CASE Throw
      BY <2>1, <2>3, ThrowSafe
    <2>4. CASE Killed
      BY <2>1, <2>4, KilledSafe
    <2>5. CASE stage' = "exited" /\ exit' = "success" /\ CloseDump /\ UNCHANGED ioError
      BY <2>1, <2>2, <2>5, SuccessSafe DEF Compiling
    <2> QED  BY <1>6, <2>3, <2>4, <2>5 DEF Interpret
  <1>7. CASE MakePaths
    <2>1. CASE Proceed("back end", "generate")
      BY <2>1, ProceedSafe DEF Compiling
    <2>2. CASE At("back end") /\ Throw
      BY <2>2, ThrowSafe
    <2> QED  BY <1>7, <2>1, <2>2 DEF MakePaths
  <1>8. CASE Generate
    <2>1. CASE Proceed("generate", "write")
      BY <2>1, ProceedSafe DEF Compiling
    <2>2. CASE At("generate") /\ Throw
      BY <2>2, ThrowSafe
    <2>3. CASE At("generate") /\ Killed
      BY <2>3, KilledSafe
    <2> QED  BY <1>8, <2>1, <2>2, <2>3 DEF Generate
  <1>9. CASE WriteIr \/ Clang
    BY <1>9, WriteSafe, ClangSafe
  <1>10. CASE Leave
    <2>1. At("leave")
      BY <1>10 DEF Leave
    <2>2. CASE ioError
      BY <1>10, <2>1, <2>2, KilledSafe DEF Leave
    <2>3. CASE ~ioError
      BY <1>10, <2>1, <2>3, SuccessSafe DEF Leave, Compiling
    <2> QED  BY <2>2, <2>3
  <1>11. CASE Exited \/ UNCHANGED mainVars
    <2>1. UNCHANGED <<phase, stage, build, ioError, gvError, files, exit, output_name_>>
      BY <1>11 DEF Exited, mainVars, vars, optionVars
    <2>2. OrderInv' /\ EarlyInv' /\ PartInv' /\ DumpInv'
      BY <2>1 DEF MInv, OrderInv, EarlyInv, PartInv, DumpInv
    <2>3. LlFile' = LlFile /\ ExeFile' = ExeFile /\ Interprets' = Interprets
      BY <2>1 DEF LlFile, ExeFile, Interprets
    <2>4. StreamInv' /\ ExitInv'
      BY <2>1, <2>3 DEF MInv, StreamInv, ExitInv, FilesAreWhole, Holds
    <2> QED  BY <2>2, <2>4 DEF MInv
  <1> QED
    BY <1>1, <1>2, <1>3, <1>4, <1>5, <1>6, <1>7, <1>8, <1>9, <1>10, <1>11 DEF MainNext

\* The inductive invariant of main().
THEOREM MainInvariance == MainSpec => []MInv
  <1>1. MainInit => MInv
    BY DEF MainInit, MInv, OrderInv, EarlyInv, StreamInv, PartInv, DumpInv, ExitInv,
           FilesAreWhole, Compiling
  <1> QED  BY <1>1, MainStep, PTL DEF MainSpec

\* What the parser and the driver make sure of for any parse.
LEMMA ParsedWell == VInv /\ CompilesWholePrograms /\ phase = "compiling" => ParsedWhole
  BY DEF VInv, PhaseInv, CompilesWholePrograms, ParsedWhole

\* A program with an error leaves every file as it was.
THEOREM NothingWritten == MainSpec => []NothingWrittenUnlessParsed
  <1>1. MInv /\ VInv /\ CompilesWholePrograms => NothingWrittenUnlessParsed
    BY ParsedWell DEF MInv, OrderInv, NothingWrittenUnlessParsed
  <1> QED  BY <1>1, MainInvariance, MainParses, VerdictInvariance, WholePrograms, PTL

\* Exit status 0 stands for a clean parse, a complete IR file and a dump that is
\* complete unless its stream has failed unseen.
THEOREM SuccessIsWritten == MainSpec => []SuccessMeansWritten
  <1>1. MInv /\ VInv /\ CompilesWholePrograms => SuccessMeansWritten
    BY ParsedWell DEF MInv, OrderInv, ExitInv, SuccessMeansWritten
  <1> QED  BY <1>1, MainInvariance, MainParses, VerdictInvariance, WholePrograms, PTL

\* A process that is not killed leaves no file in part but a dump whose stream has
\* failed.
THEOREM WholeFiles == MainSpec => []FilesAreWhole
  <1>1. MInv => FilesAreWhole
    BY DEF MInv, ExitInv
  <1> QED  BY <1>1, MainInvariance, PTL

----------------------------------------------------------------------------
\* The steps of Main that are none of the option parser.
LEMMA MainOutsideOptions ==
  ASSUME [MainNext]_mainVars
  PROVE  ParseOptions \/ OpenFile \/ UNCHANGED optionVars
  <1> USE DEF At, Proceed, Throw
  <1>1. CASE OptionsRefused \/ CannotOpen \/ Parse
    BY <1>1 DEF OptionsRefused, CannotOpen, Parse
  <1>2. CASE ParseFailed \/ ChooseBuild \/ DumpFails \/ Dump \/ Interpret
    BY <1>2 DEF ParseFailed, ChooseBuild, DumpFails, Dump, Interpret
  <1>3. CASE MakePaths \/ Generate \/ WriteIr \/ Clang \/ Leave
    BY <1>3 DEF MakePaths, Generate, WriteIr, Clang, Leave
  <1>4. CASE Exited \/ UNCHANGED mainVars
    BY <1>4 DEF Exited, mainVars
  <1> QED  BY <1>1, <1>2, <1>3, <1>4 DEF MainNext

\* When driver() opens the program, what the command line says has come true; behind
\* that the options are not read again.
LEMMA OptionsUsed ==
  ASSUME OpenFile
  PROVE  OInv'
  <1>1. argv' = <<>> /\ options' = "used"
    BY DEF OpenFile
  <1>2. argv' \in Seq(Arguments)
    BY <1>1
  <1> QED  BY <1>1, <1>2 DEF OInv

\* When main() has read its command line and until it opens the program it has the
\* file, the output name and the level that the command line names, and only a command
\* line that is wrong is refused: Option_parser::parse_options.
THEOREM OptionsGiven == MainSpec => []OptionsAreAsGiven
  <1>1. MainInit => OInv
    BY OptionsStart DEF MainInit
  <1>2. OInv /\ [MainNext]_mainVars => OInv'
    <2> SUFFICES ASSUME OInv, [MainNext]_mainVars PROVE OInv'
      OBVIOUS
    <2>1. CASE ParseOptions
      BY <2>1, OptionsStep DEF ParseOptions
    <2>2. CASE OpenFile
      BY <2>2, OptionsUsed
    <2>3. CASE UNCHANGED optionVars
      BY <2>3, OptionsStay
    <2> QED  BY <2>1, <2>2, <2>3, MainOutsideOptions
  <1>3. OInv => OptionsAreAsGiven
    BY DEF OInv, OptionsAreAsGiven
  <1> QED  BY <1>1, <1>2, <1>3, PTL DEF MainSpec
===================================================================================
