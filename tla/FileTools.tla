------------------------------ MODULE FileTools ------------------------------
(***************************************************************************)
(* The file tools of internal/agent/tools/file.go, called by agents that   *)
(* share a work directory.  No tool takes a lock: every system call is a   *)
(* step of its own, and other tools run between any two.  A file is the    *)
(* sequence of its lines; the directory holds files and one subdirectory.  *)
(***************************************************************************)
EXTENDS Naturals, Sequences, FiniteSets, SequencesExt

CONSTANTS
    FileAgents,         \* callers of the tools
    TopFiles, SubFiles, \* names in the work directory, and in its subdirectory
    Lines, FirstLine,   \* lines of text, and the one that files start with
    MaxFileSize,        \* maxFileSize
    MaxResults,         \* max_results of a search
    MaxToolCalls            \* bound: calls in all

FileNames == TopFiles \cup SubFiles
NoFile == <<"no file">>
Sub == "sub"
Top == "."

ASSUME FileAssumption ==
    /\ MaxFileSize \in Nat /\ MaxResults \in Nat /\ MaxToolCalls \in Nat /\ FirstLine \in Lines
    /\ IsFiniteSet(FileNames) /\ TopFiles \cap SubFiles = {} /\ Sub \notin FileNames

VARIABLES
    disk,      \* disk[f]: the lines of a file, or NoFile
    hasSub,    \* the subdirectory exists
    inode,     \* inode[f]: how often the name was removed; a handle of an older one writes nothing seen
    fpc,       \* fpc[a]: the system call that comes next
    args,      \* args[a]: the input of the call
    handle,    \* handle[a]: the inode that was opened
    text,      \* text[a]: the lines that were read
    todo,      \* todo[a]: entries that a walk has yet to visit
    out,       \* out[a]: the lines found or the paths listed
    success,   \* ToolResult.Success
    before,    \* before[a]: the disk when the call began (history)
    alone,     \* alone[a]: nobody else changed the disk since (history)
    callsMade

fileVars == <<disk, hasSub, inode, fpc, args, handle, text, todo, out, success, before, alone, callsMade>>
diskVars == <<disk, hasSub, inode>>

NoArgs == [tool |-> "none"]

Exists(d, f) == d[f] # NoFile

(* What the schemas let a caller ask for. *)
Reads == [tool : {"read"}, path : FileNames, offset : {0, 1}, limit : {2}]
Writes == [tool : {"write"}, path : FileNames, line : Lines, append : BOOLEAN]
Edits == {e \in [tool : {"edit"}, path : FileNames, line : Lines, new : Lines] : e.line # e.new}
Deletes == [tool : {"delete"}, path : FileNames \cup {Sub}, recursive : BOOLEAN]
Lists == [tool : {"list"}, path : {Top, Sub}, recursive : BOOLEAN, pattern : {FileNames \cup {Sub}, SubFiles}]
Searches == [tool : {"search"}, path : {Top, Sub}, line : Lines]

FileInit ==
    /\ disk \in [FileNames -> {NoFile, <<FirstLine>>, <<FirstLine, FirstLine>>}]
    /\ hasSub = (\E f \in SubFiles : Exists(disk, f))
    /\ inode = [f \in FileNames |-> 0]
    /\ fpc = [a \in FileAgents |-> "idle"] /\ args = [a \in FileAgents |-> NoArgs]
    /\ handle = [a \in FileAgents |-> 0] /\ text = [a \in FileAgents |-> <<>>]
    /\ todo = [a \in FileAgents |-> {}] /\ out = [a \in FileAgents |-> <<>>]
    /\ success = [a \in FileAgents |-> FALSE]
    /\ before = [a \in FileAgents |-> NoFile] /\ alone = [a \in FileAgents |-> FALSE]
    /\ callsMade = 0

-----------------------------------------------------------------------------
(* Moves of one call.                                                        *)
NextCall(a, l) == fpc' = [fpc EXCEPT ![a] = l]
Finish(a, ok) == NextCall(a, "done") /\ success' = [success EXCEPT ![a] = ok]
Touch(a) == alone' = [b \in FileAgents |-> alone[b] /\ b = a]

CallTool(a, in, first) ==
    /\ fpc[a] = "idle" /\ callsMade < MaxToolCalls
    /\ NextCall(a, first) /\ args' = [args EXCEPT ![a] = in]
    /\ before' = [before EXCEPT ![a] = disk] /\ alone' = [alone EXCEPT ![a] = TRUE]
    /\ callsMade' = callsMade + 1
    /\ UNCHANGED <<diskVars, handle, text, todo, out, success>>

ToolAnswered(a) ==
    /\ fpc[a] = "done" /\ NextCall(a, "idle")
    /\ args' = [args EXCEPT ![a] = NoArgs] /\ handle' = [handle EXCEPT ![a] = 0]
    /\ text' = [text EXCEPT ![a] = <<>>] /\ out' = [out EXCEPT ![a] = <<>>]
    /\ success' = [success EXCEPT ![a] = FALSE]
    /\ before' = [before EXCEPT ![a] = NoFile] /\ alone' = [alone EXCEPT ![a] = FALSE]
    /\ UNCHANGED <<diskVars, todo, callsMade>>

CallReadFile(a, in) == CallTool(a, in, "stat")
CallWriteFile(a, in) == CallTool(a, in, "mkdir")
CallEditFile(a, in) == CallTool(a, in, "stat")
CallDeleteFile(a, in) == CallTool(a, in, "statDelete")
CallListFiles(a, in) == CallTool(a, in, "readDir")
CallSearchFiles(a, in) == CallTool(a, in, "walk")

-----------------------------------------------------------------------------
(* os.Stat and the check of the size, for a read and for an edit. *)
StatRefuses(a) ==
    /\ fpc[a] = "stat"
    /\ ~Exists(disk, args[a].path) \/ Len(disk[args[a].path]) > MaxFileSize
    /\ Finish(a, FALSE)
    /\ UNCHANGED <<diskVars, args, handle, text, todo, out, before, alone, callsMade>>

StatAllows(a) ==
    /\ fpc[a] = "stat"
    /\ Exists(disk, args[a].path) /\ Len(disk[args[a].path]) <= MaxFileSize
    /\ NextCall(a, args[a].tool)
    /\ UNCHANGED <<diskVars, args, handle, text, todo, out, success, before, alone, callsMade>>

(* data[offset:end] *)
Slice(s, offset, limit) ==
    IF offset >= Len(s) THEN <<>>
    ELSE SubSeq(s, offset + 1, IF offset + limit > Len(s) THEN Len(s) ELSE offset + limit)

ReadFile(a) ==
    LET f == args[a].path IN
    /\ fpc[a] = "read"
    /\ IF Exists(disk, f)
         THEN out' = [out EXCEPT ![a] = Slice(disk[f], args[a].offset, args[a].limit)] /\ Finish(a, TRUE)
         ELSE Finish(a, FALSE) /\ UNCHANGED out
    /\ UNCHANGED <<diskVars, args, handle, text, todo, before, alone, callsMade>>

(* Mutant: strings.Replace(text, old, new, 1). *)
ReplaceFirst(s, old, new) ==
    [i \in DOMAIN s |-> IF s[i] = old /\ \A j \in 1 .. i - 1 : s[j] # old THEN new ELSE s[i]]

(* strings.ReplaceAll *)
ReplaceAllOf(s, old, new) == [i \in DOMAIN s |-> IF s[i] = old THEN new ELSE s[i]]

(* The text is read and searched; what is written back is computed from it. *)
EditReads(a) ==
    LET f == args[a].path IN
    /\ fpc[a] = "edit"
    /\ IF Exists(disk, f) /\ args[a].line \in Range(disk[f])
         THEN /\ text' = [text EXCEPT ![a] = ReplaceAllOf(disk[f], args[a].line, args[a].new)]
              /\ NextCall(a, "open") /\ UNCHANGED success
         ELSE Finish(a, FALSE) /\ UNCHANGED text
    /\ UNCHANGED <<diskVars, args, handle, todo, out, before, alone, callsMade>>

(* os.MkdirAll, which makes the parent directory. *)
WriteMkdir(a) ==
    /\ fpc[a] = "mkdir"
    /\ hasSub' = (hasSub \/ args[a].path \in SubFiles)
    /\ text' = [text EXCEPT ![a] = <<args[a].line>>]
    /\ NextCall(a, "open")
    /\ UNCHANGED <<disk, inode, args, handle, todo, out, success, before, alone, callsMade>>

Appends(a) == args[a].tool = "write" /\ args[a].append

(* os.OpenFile with O_TRUNC, or with O_APPEND; without the directory it fails. *)
OpenForWrite(a) ==
    LET f == args[a].path IN
    /\ fpc[a] = "open"
    /\ IF f \in SubFiles /\ ~hasSub
         THEN Finish(a, FALSE) /\ UNCHANGED <<disk, handle, alone>>
         ELSE /\ disk' = [disk EXCEPT ![f] = IF Appends(a) /\ Exists(disk, f) THEN @ ELSE <<>>]
              /\ handle' = [handle EXCEPT ![a] = inode[f]]
              /\ Touch(a) /\ NextCall(a, "writeAll") /\ UNCHANGED success
    /\ UNCHANGED <<hasSub, inode, args, text, todo, out, before, callsMade>>

(* At the end with O_APPEND, else over what there is from the start. *)
Written(c, new, append) ==
    IF append THEN c \o new
    ELSE new \o SubSeq(c, Len(new) + 1, Len(c))

WriteAll(a, ok) ==
    LET f == args[a].path IN
    /\ fpc[a] = "writeAll"
    /\ disk' = IF ok /\ Exists(disk, f) /\ handle[a] = inode[f]
                 THEN [disk EXCEPT ![f] = Written(@, text[a], Appends(a))] ELSE disk
    /\ Touch(a) /\ Finish(a, ok)
    /\ UNCHANGED <<hasSub, inode, args, handle, text, todo, out, before, callsMade>>

-----------------------------------------------------------------------------
(* DeleteFile: a directory only with recursive, entry by entry.              *)
DeleteStat(a) ==
    LET p == args[a].path IN
    /\ fpc[a] = "statDelete"
    /\ IF p = Sub
         THEN IF hasSub /\ args[a].recursive THEN NextCall(a, "removeAll") /\ UNCHANGED success ELSE Finish(a, FALSE)
         ELSE IF Exists(disk, p) THEN NextCall(a, "remove") /\ UNCHANGED success ELSE Finish(a, FALSE)
    /\ UNCHANGED <<diskVars, args, handle, text, todo, out, before, alone, callsMade>>

Unlink(f) == disk' = [disk EXCEPT ![f] = NoFile] /\ inode' = [inode EXCEPT ![f] = @ + 1]

(* os.Remove *)
DeleteRemoves(a) ==
    LET f == args[a].path IN
    /\ fpc[a] = "remove"
    /\ IF Exists(disk, f) THEN Unlink(f) /\ Touch(a) /\ Finish(a, TRUE)
       ELSE Finish(a, FALSE) /\ UNCHANGED <<disk, inode, alone>>
    /\ UNCHANGED <<hasSub, args, handle, text, todo, out, before, callsMade>>

(* os.RemoveAll *)
RemoveEntry(a, f) ==
    /\ fpc[a] = "removeAll" /\ f \in SubFiles /\ Exists(disk, f)
    /\ Unlink(f) /\ Touch(a)
    /\ UNCHANGED <<hasSub, fpc, args, handle, text, todo, out, success, before, callsMade>>

DeleteDirectory(a) ==
    /\ fpc[a] = "removeAll" /\ \A f \in SubFiles : ~Exists(disk, f)
    /\ hasSub' = FALSE /\ Touch(a) /\ Finish(a, TRUE)
    /\ UNCHANGED <<disk, inode, args, handle, text, todo, out, before, callsMade>>

-----------------------------------------------------------------------------
(* Walks.  The entries of a directory are read when the walk enters it.      *)
Entries(p) ==
    IF p = Sub THEN {f \in SubFiles : hasSub /\ Exists(disk, f)}
    ELSE {f \in TopFiles : Exists(disk, f)} \cup (IF hasSub THEN {Sub} ELSE {})

(* ReadDir and the first results.  A directory that is not there is an error. *)
ListReadsDir(a) ==
    /\ fpc[a] = "readDir"
    /\ IF args[a].path = Sub /\ ~hasSub
         THEN Finish(a, FALSE) /\ UNCHANGED out
         ELSE /\ out' = [out EXCEPT ![a] = SetToSeq(Entries(args[a].path) \cap args[a].pattern)]
              /\ IF args[a].recursive THEN NextCall(a, "walk") /\ UNCHANGED success ELSE Finish(a, TRUE)
    /\ UNCHANGED <<diskVars, args, handle, text, todo, before, alone, callsMade>>

WalkStarts(a) ==
    /\ fpc[a] = "walk"
    /\ todo' = [todo EXCEPT ![a] = Entries(args[a].path)]
    /\ NextCall(a, "walking")
    /\ UNCHANGED <<diskVars, args, handle, text, out, success, before, alone, callsMade>>

WalkEnters(a) ==
    /\ fpc[a] = "walking" /\ Sub \in todo[a]
    /\ todo' = [todo EXCEPT ![a] = (@ \ {Sub}) \cup Entries(Sub)]
    /\ UNCHANGED <<diskVars, fpc, args, handle, text, out, success, before, alone, callsMade>>

WalkEnds(a) ==
    /\ fpc[a] = "walking" /\ todo[a] = {}
    /\ Finish(a, TRUE)
    /\ UNCHANGED <<diskVars, args, handle, text, todo, out, before, alone, callsMade>>

(* Mutant: addedPaths is not looked at. *)
GatherBlindly(a, f) == f \in SubFiles /\ f \in args[a].pattern

(* gatherRecursive: direct children of the work directory, and what was      *)
(* added before, are skipped.                                                *)
Gathers(a, f) == f \in SubFiles /\ f \notin Range(out[a]) /\ f \in args[a].pattern

ListVisits(a, f) ==
    /\ fpc[a] = "walking" /\ args[a].tool = "list" /\ f \in todo[a] \ {Sub}
    /\ todo' = [todo EXCEPT ![a] = @ \ {f}]
    /\ out' = IF Exists(disk, f) /\ Gathers(a, f) THEN [out EXCEPT ![a] = Append(@, f)] ELSE out
    /\ UNCHANGED <<diskVars, fpc, args, handle, text, success, before, alone, callsMade>>

(* The lines of a file that match, and the first n of them. *)
Matches(s, line) == {i \in DOMAIN s : s[i] = line}
FirstOf(n, places) == {i \in places : Cardinality({j \in places : j < i}) < n}
Hits(f, places) == {<<f, i>> : i \in places}

(* filepath.SkipDir, returned for a file: the rest of its directory.         *)
SkipDirOf(f, entries) == IF f \in SubFiles THEN entries \ SubFiles ELSE entries \cap SubFiles

(* One file: too large a file and one that cannot be read are passed over;   *)
(* the match that finds no room ends the directory.                          *)
SearchVisits(a, f) ==
    LET searched == Exists(disk, f) /\ Len(disk[f]) <= MaxFileSize
        places == IF searched THEN Matches(disk[f], args[a].line) ELSE {}
        room == MaxResults - Len(out[a])
        rest == todo[a] \ {f}
    IN  /\ fpc[a] = "walking" /\ args[a].tool = "search" /\ f \in todo[a] \ {Sub}
        /\ out' = [out EXCEPT ![a] = @ \o SetToSeq(Hits(f, FirstOf(room, places)))]
        /\ todo' = [todo EXCEPT ![a] = IF Cardinality(places) > room THEN SkipDirOf(f, rest) ELSE rest]
        /\ UNCHANGED <<diskVars, fpc, args, handle, text, success, before, alone, callsMade>>

-----------------------------------------------------------------------------
ToolCalls(a) ==
    \/ \E in \in Reads : CallReadFile(a, in)
    \/ \E in \in Writes : CallWriteFile(a, in)
    \/ \E in \in Edits : CallEditFile(a, in)
    \/ \E in \in Deletes : CallDeleteFile(a, in)
    \/ \E in \in Lists : CallListFiles(a, in)
    \/ \E in \in Searches : CallSearchFiles(a, in)

ToolSteps(a) ==
    \/ StatRefuses(a) \/ StatAllows(a) \/ ReadFile(a) \/ EditReads(a)
    \/ WriteMkdir(a) \/ OpenForWrite(a) \/ (\E ok \in BOOLEAN : WriteAll(a, ok))
    \/ DeleteStat(a) \/ DeleteRemoves(a) \/ DeleteDirectory(a)
    \/ ListReadsDir(a) \/ WalkStarts(a) \/ WalkEnters(a) \/ WalkEnds(a)
    \/ \E f \in FileNames : RemoveEntry(a, f) \/ ListVisits(a, f) \/ SearchVisits(a, f)

FileNext == \E a \in FileAgents : ToolCalls(a) \/ ToolSteps(a) \/ ToolAnswered(a)

-----------------------------------------------------------------------------
FileTypeOK ==
    /\ \A f \in FileNames : disk[f] = NoFile \/ Range(disk[f]) \subseteq Lines
    /\ callsMade \in 0 .. MaxToolCalls /\ hasSub \in BOOLEAN

(* The whole answer of a search, and of a recursive list. *)
AllHits(d, p, line) ==
    UNION {IF Exists(d, f) /\ Len(d[f]) <= MaxFileSize THEN Hits(f, Matches(d[f], line)) ELSE {}
             : f \in IF p = Sub THEN SubFiles ELSE FileNames}

Below(d, p) == {f \in IF p = Sub THEN SubFiles ELSE FileNames : Exists(d, f)}

(* What a call does when it is alone: an edit replaced every occurrence, a   *)
(* write or an append left the rest alone, a delete took only what it names, *)
(* a read gives the part that was asked for, and a search and a recursive    *)
(* list leave nothing out, save what is over max_results (file.go:790).      *)
Exact(a) ==
    LET in == args[a]   was == before[a] IN
    CASE in.tool = "read" -> out[a] = Slice(was[in.path], in.offset, in.limit) /\ disk = was
      [] in.tool = "write" -> disk = [was EXCEPT ![in.path] =
                                 IF in.append /\ Exists(was, in.path) THEN Append(@, in.line) ELSE <<in.line>>]
      [] in.tool = "edit" -> /\ \A f \in FileNames \ {in.path} : disk[f] = was[f]
                             /\ Len(disk[in.path]) = Len(was[in.path])
                             /\ in.line \notin Range(disk[in.path])
      [] in.tool = "delete" -> disk = [f \in FileNames |->
                                 IF f = in.path \/ (in.path = Sub /\ f \in SubFiles) THEN NoFile ELSE was[f]]
      [] in.tool = "search" -> /\ Range(out[a]) \subseteq AllHits(was, in.path, in.line) /\ disk = was
                               /\ Len(out[a]) < MaxResults => Range(out[a]) = AllHits(was, in.path, in.line)
      [] in.tool = "list" -> /\ Range(out[a]) \ {Sub} \subseteq Below(was, in.path) /\ disk = was
                             /\ in.recursive => Below(was, in.path) \cap in.pattern \subseteq Range(out[a])

(* A call that is answered with success, and that no other call disturbed,   *)
(* did exactly what it says.                                                 *)
UndisturbedIsExact ==
    \A a \in FileAgents : fpc[a] = "done" /\ alone[a] /\ success[a] => Exact(a)

(* Whatever others do meanwhile, a list names no path twice, and a search    *)
(* neither reports a line twice nor more than max_results (file.go:408).     *)
ReportedOnce ==
    \A a \in FileAgents : args[a].tool \in {"list", "search"} =>
        /\ Cardinality(Range(out[a])) = Len(out[a])
        /\ args[a].tool = "search" => Len(out[a]) <= MaxResults

-----------------------------------------------------------------------------
(* The inductive invariant behind them: what a call has in hand at each of   *)
(* its system calls, what it may have reported so far, and how far it has    *)
(* got if nobody disturbed it.                                               *)
FileSpec == FileInit /\ [][FileNext]_fileVars

SystemCalls == {"idle", "stat", "read", "edit", "mkdir", "open", "writeAll", "statDelete", "remove",
                "removeAll", "readDir", "walk", "walking", "done"}
Inputs == Reads \cup Writes \cup Edits \cup Deletes \cup Lists \cup Searches
Reported == Lines \cup FileNames \cup {Sub} \cup (FileNames \X Nat)

FileFunctions ==
    /\ disk \in [FileNames -> {NoFile} \cup Seq(Lines)] /\ inode \in [FileNames -> Nat] /\ hasSub \in BOOLEAN
    /\ fpc \in [FileAgents -> SystemCalls] /\ args \in [FileAgents -> Inputs \cup {NoArgs}]
    /\ handle \in [FileAgents -> Nat] /\ text \in [FileAgents -> Seq(Lines)]
    /\ todo \in [FileAgents -> SUBSET (FileNames \cup {Sub})] /\ out \in [FileAgents -> Seq(Reported)]
    /\ success \in [FileAgents -> BOOLEAN] /\ alone \in [FileAgents -> BOOLEAN]
    /\ before \in [FileAgents -> {NoFile} \cup [FileNames -> {NoFile} \cup Seq(Lines)]]
    /\ callsMade \in 0 .. MaxToolCalls

(* There is no file in a directory that is not there. *)
SubInv == \A f \in SubFiles : Exists(disk, f) => hasSub

(* The input of a call, by the system call that comes next; a walk stays     *)
(* below its directory.                                                      *)
ArgsInv(a) ==
    /\ fpc[a] = "idle" => args[a] = NoArgs
    /\ fpc[a] # "idle" => before[a] \in [FileNames -> {NoFile} \cup Seq(Lines)]
    /\ fpc[a] = "stat" => args[a] \in Reads \cup Edits
    /\ fpc[a] = "read" => args[a] \in Reads
    /\ fpc[a] = "edit" => args[a] \in Edits
    /\ fpc[a] = "mkdir" => args[a] \in Writes
    /\ fpc[a] \in {"open", "writeAll"} => args[a] \in Writes \cup Edits
    /\ fpc[a] \in {"statDelete", "remove", "removeAll"} => args[a] \in Deletes
    /\ fpc[a] = "remove" => args[a].path \in FileNames
    /\ fpc[a] = "removeAll" => args[a].path = Sub
    /\ fpc[a] = "readDir" => args[a] \in Lists
    /\ fpc[a] \in {"walk", "walking"} => args[a] \in Searches \cup {l \in Lists : l.recursive}
    /\ fpc[a] = "walking" /\ args[a].path = Sub => todo[a] \subseteq SubFiles
    /\ fpc[a] = "done" => args[a] \in Inputs

(* A search has reported nothing of what it has yet to visit. *)
Unreported(a, f) == \A h \in Range(out[a]) : h[1] # f

OnceInv(a) ==
    /\ args[a].tool \in {"list", "search"} => IsInjective(out[a])
    /\ args[a].tool = "search" => Len(out[a]) <= MaxResults /\ Range(out[a]) \subseteq FileNames \X Nat
    /\ fpc[a] \notin {"walk", "walking", "done"} => out[a] = <<>>
    /\ fpc[a] = "walk" /\ args[a].tool = "search" => out[a] = <<>>
    /\ fpc[a] = "walking" /\ args[a].tool = "search" =>
          /\ \A f \in todo[a] : Unreported(a, f)
          /\ Sub \in todo[a] => todo[a] \cap SubFiles = {} /\ \A f \in SubFiles : Unreported(a, f)

(* What an undisturbed call has done to the disk, and has yet to write. *)
DiskInv(a) ==
    LET in == args[a]   was == before[a] IN
    /\ fpc[a] \in SystemCalls \ {"idle", "writeAll", "removeAll", "done"} => disk = was
    /\ fpc[a] = "done" /\ in.tool \in {"read", "list", "search"} => disk = was
    /\ fpc[a] \in {"open", "writeAll"} =>
          /\ in.tool = "write" => text[a] = <<in.line>>
          /\ in.tool = "edit" => Exists(was, in.path) /\ text[a] = ReplaceAllOf(was[in.path], in.line, in.new)
    /\ fpc[a] = "writeAll" =>
          /\ handle[a] = inode[in.path]
          /\ disk = [was EXCEPT ![in.path] = IF Appends(a) /\ Exists(was, in.path) THEN @ ELSE <<>>]
    /\ fpc[a] = "removeAll" =>
          \A f \in FileNames : disk[f] = was[f] \/ (f \in SubFiles /\ disk[f] = NoFile)

(* What an undisturbed walk has yet to find is below what it has to visit. *)
Pending(a, f) == f \in todo[a] \/ (f \in SubFiles /\ Sub \in todo[a])

WalkInv(a) ==
    LET in == args[a]   was == before[a] IN
    /\ fpc[a] \in {"walk", "walking"} /\ in.tool = "list" =>
          /\ Range(out[a]) \ {Sub} \subseteq Below(was, in.path)
          /\ \A f \in Below(was, in.path) \cap in.pattern :
                f \in Range(out[a]) \/ (f \in SubFiles /\ (fpc[a] = "walk" \/ Pending(a, f)))
    /\ fpc[a] = "walking" /\ in.tool = "search" =>
          /\ Range(out[a]) \subseteq AllHits(was, in.path, in.line)
          /\ Len(out[a]) < MaxResults =>
                \A h \in AllHits(was, in.path, in.line) : h \in Range(out[a]) \/ Pending(a, h[1])

FileInv ==
    /\ FileFunctions /\ SubInv
    /\ \A a \in FileAgents : ArgsInv(a) /\ OnceInv(a) /\ (alone[a] => DiskInv(a) /\ WalkInv(a))
    /\ UndisturbedIsExact

-----------------------------------------------------------------------------
(* What the descriptions of the tools say; the code does not keep it.        *)

(* A write that is answered with success is on the disk: not when the file   *)
(* was removed or truncated between two system calls, and an edit writes     *)
(* back what it read, over an append that came in between.                   *)
SuccessIsStored ==
    \A a \in FileAgents : fpc[a] = "done" /\ success[a] /\ args[a].tool = "write" =>
        Exists(disk, args[a].path) \/ \E b \in FileAgents : b # a /\ args[b].tool = "delete"
                                                            /\ before[b][args[a].path] = <<args[a].line>>

(* A tool that fails leaves the file as it was. *)
FailureChangesNothing ==
    \A a \in FileAgents : fpc[a] = "done" /\ alone[a] /\ ~success[a] => disk = before[a]

(* maxFileSize is the "maximum file size in bytes". *)
SizeLimited == \A f \in FileNames : Exists(disk, f) => Len(disk[f]) <= MaxFileSize
=============================================================================
