----------------------------------- MODULE Main -----------------------------------
(***************************************************************************)
(* main() and driver() (frontend/src/main.cpp, driver.cpp): the options of *)
(* module Options, the parse of module Parser, and then what the build     *)
(* says: the graph dump, and the interpreter or the compiler.  Here are    *)
(* the order of these, what they leave on the disk and the exit status;    *)
(* what the back ends do with the tree is in Backends and Codegen.         *)
(***************************************************************************)
EXTENDS Parser, Options

CONSTANTS
  DefaultExe,   \* a.out
  DefaultLl,    \* a.ll
  WithLl,       \* the path with its extension replaced by .ll, as a function
  DumpFile      \* dump/dump.gv

VARIABLES
  stage,     \* what driver() does next
  build,     \* the options of the build, a set: "GRAPH_DUMP", "INTERPRET"
  bare,      \* TRUE when a return without a value is in the tree
  ioError,   \* TRUE when the stream of the IR file has failed
  gvError,   \* TRUE when the stream of the dump has failed behind its opening
  files,     \* what the files hold that were written
  exit       \* the end of the process: "none", "success", "failure" or "killed"

mainVars == <<vars, optionVars, stage, build, bare, ioError, gvError, files, exit>>

MainInit ==
  /\ Init /\ OptionsInit
  /\ stage = "options" /\ build = {} /\ bare = FALSE
  /\ ioError = FALSE /\ gvError = FALSE
  /\ files = [path \in {} |-> "nothing"] /\ exit = "none"

----------------------------------------------------------------------------
\* driver() is at stage from; the options, the parse and the build are settled.
At(from) == stage = from /\ UNCHANGED <<vars, optionVars, build, bare>>

\* Nothing else is written from stage from on to stage to.
Proceed(from, to) == At(from) /\ stage' = to /\ UNCHANGED <<ioError, gvError, files, exit>>

Write(path, content) == files' = [p \in DOMAIN files \cup {path} |->
                                    IF p = path THEN content ELSE files[p]]

DumpIsOpen == "GRAPH_DUMP" \in build /\ DumpFile \in DOMAIN files

\* The last of the text is written, or is not, and nobody asks the stream.
Flush ==
  \/ ~gvError /\ Write(DumpFile, "dump") /\ UNCHANGED gvError
  \/ gvError' = TRUE /\ UNCHANGED files

\* A faulty variant: the dump is closed behind the back end only.
CloseDumpLast == IF DumpIsOpen /\ exit' = "success" THEN Flush ELSE UNCHANGED <<gvError, files>>

\* The ofstream of the dump is closed, and with that flushed, when driver() is
\* left, be it by an exception.
CloseDump == IF DumpIsOpen THEN Flush ELSE UNCHANGED <<gvError, files>>

\* An exception is caught in main().
Throw == stage' = "exited" /\ exit' = "failure" /\ CloseDump /\ UNCHANGED ioError

\* A signal, or the exit of LLVM on a fatal error: nothing is closed.
Killed == stage' = "exited" /\ exit' = "killed" /\ UNCHANGED <<ioError, gvError, files>>

----------------------------------------------------------------------------
ParseOptions ==
  /\ stage = "options" /\ OptionsNext
  /\ UNCHANGED <<vars, stage, build, bare, ioError, gvError, files, exit>>

OptionsRefused == At("options") /\ options = "failed" /\ Throw

\* "Can't open program file".
CannotOpen == At("options") /\ options = "parsed" /\ Throw

\* Behind this nothing reads argv.
OpenFile ==
  /\ stage = "options" /\ options = "parsed"
  /\ stage' = "parse" /\ options' = "used" /\ argv' = <<>> /\ awaiting' = "option"
  /\ UNCHANGED <<vars, input_file_, output_name_, optimization_level_,
                 build, bare, ioError, gvError, files, exit>>

Parse ==
  /\ stage = "parse" /\ phase \notin Final
  /\ Next
  /\ bare' = (bare \/ "return_none" \in Reducible)
  /\ UNCHANGED <<optionVars, stage, build, ioError, gvError, files, exit>>

\* "parse failed", "unknown error", or what std::stoi threw.
ParseFailed == At("parse") /\ phase \in Final \ {"compiling"} /\ Throw

\* A faulty variant: the errors are printed and the tree is used all the same.
ChooseBuildUnchecked ==
  /\ stage = "parse" /\ phase \in Final
  /\ build' \in SUBSET {"GRAPH_DUMP", "INTERPRET"}
  /\ stage' = IF "GRAPH_DUMP" \in build' THEN "dump" ELSE "back end"
  /\ UNCHANGED <<vars, optionVars, bare, ioError, gvError, files, exit>>

\* The build is of no consequence up to here.
ChooseBuild ==
  /\ stage = "parse" /\ phase = "compiling"
  /\ build' \in SUBSET {"GRAPH_DUMP", "INTERPRET"}
  /\ stage' = IF "GRAPH_DUMP" \in build' THEN "dump" ELSE "back end"
  /\ UNCHANGED <<vars, optionVars, bare, ioError, gvError, files, exit>>

\* The directory cannot be made, or the file not be opened.
DumpFails == At("dump") /\ Throw

\* The file is there but the last of its text is still in the buffer, or lost with
\* it.  The stream may fail here as well; only its opening is asked for.
Dump ==
  /\ At("dump")
  /\ Write(DumpFile, "part")
  /\ gvError' \in BOOLEAN /\ UNCHANGED ioError
  /\ IF bare THEN stage' = "exited" /\ exit' = "killed" ELSE stage' = "back end" /\ UNCHANGED exit

Interprets == "INTERPRET" \in build

\* The program ends, reads an unknown variable, or divides by zero.
Interpret ==
  /\ At("back end") /\ Interprets
  /\ \/ stage' = "exited" /\ exit' = "success" /\ CloseDump /\ UNCHANGED ioError
     \/ Throw
     \/ Killed

----------------------------------------------------------------------------
ExeFile == IF output_name_ = {} THEN DefaultExe ELSE CHOOSE name \in output_name_ : TRUE
LlFile  == IF output_name_ = {} THEN DefaultLl ELSE WithLl[ExeFile]

\* make_compile_paths makes the directory or throws.
MakePaths ==
  ~Interprets /\ (Proceed("back end", "generate") \/ (At("back end") /\ Throw))

\* Names that do not resolve throw; values that are none crash.
Generate ==
  \/ Proceed("generate", "write")
  \/ At("generate") /\ (Throw \/ Killed)

\* The IR file is written, or broken off, or cannot be opened; the error code is
\* not looked at.
WriteIr ==
  /\ At("write") /\ stage' = "clang"
  /\ \/ Write(LlFile, "ir") /\ UNCHANGED ioError
     \/ Write(LlFile, "part") /\ ioError' = TRUE
     \/ UNCHANGED files /\ ioError' = TRUE
  /\ UNCHANGED <<gvError, exit>>

\* clang compiles what is at the path, which may be from an earlier run; that it
\* fails is not looked at.
Clang ==
  /\ At("clang") /\ stage' = "leave"
  /\ \/ UNCHANGED files
     \/ /\ LlFile \in DOMAIN files => files[LlFile] = "ir"
        /\ Write(ExeFile, IF LlFile \in DOMAIN files THEN "program" ELSE "earlier program")
  /\ UNCHANGED <<ioError, gvError, exit>>

\* A faulty variant: the destructor of the stream passes over the error.
LeaveSilently ==
  /\ At("leave") /\ stage' = "exited" /\ exit' = "success" /\ CloseDump /\ UNCHANGED ioError

\* The destructor of the stream is the first to notice its error.
Leave ==
  /\ At("leave")
  /\ IF ioError THEN Killed
     ELSE stage' = "exited" /\ exit' = "success" /\ CloseDump /\ UNCHANGED ioError

Exited == stage = "exited" /\ UNCHANGED mainVars

MainNext ==
  \/ ParseOptions \/ OptionsRefused \/ CannotOpen \/ OpenFile
  \/ Parse \/ ParseFailed \/ ChooseBuild
  \/ DumpFails \/ Dump \/ Interpret
  \/ MakePaths \/ Generate \/ WriteIr \/ Clang \/ Leave \/ Exited

MainSpec == MainInit /\ [][MainNext]_mainVars

----------------------------------------------------------------------------
(***************************************************************************)
(* Properties.                                                             *)
(***************************************************************************)
ParsedWhole == phase = "compiling" /\ errors_ = {} /\ root /\ ~dropped

\* A program with an error leaves every file as it was: nothing is dumped,
\* compiled or overwritten before the parse has ended without one.
NothingWrittenUnlessParsed == DOMAIN files # {} => ParsedWhole

\* The file is there, with this content.
Holds(path, content) == path \in DOMAIN files /\ files[path] = content

\* Exit status 0 stands for a program that was parsed to its end without an
\* error, for a dump that is complete unless its stream has failed unseen, and for
\* an IR file that is, or that clang has replaced by the program when both have one
\* path; but not for a program that clang accepted.
SuccessMeansWritten ==
  exit = "success" =>
    /\ ParsedWhole
    /\ "GRAPH_DUMP" \in build =>
         Holds(DumpFile, "dump") \/ gvError \/ DumpFile \in {LlFile, ExeFile}
    /\ ~Interprets => \/ Holds(LlFile, "ir") \/ LlFile = DumpFile
                      \/ LlFile = ExeFile /\ Holds(LlFile, "program")

\* Unless the process is killed, or LLVM ends it, the only file it leaves in part is
\* a dump whose stream has failed, and it leaves no program made from an IR file of
\* an earlier run.
FilesAreWhole ==
  stage = "exited" /\ exit # "killed" =>
    \A path \in DOMAIN files :
       /\ files[path] = "part" => path = DumpFile /\ gvError
       /\ files[path] # "earlier program"
===================================================================================
