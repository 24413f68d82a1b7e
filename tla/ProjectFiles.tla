---------------------------- MODULE ProjectFiles ----------------------------
(***************************************************************************)
(* write_file and read_file on one path of the project, as the fake runner *)
(* carries them out (src/fake-runner.ts): commands run concurrently and    *)
(* await every call to the file system, each of which is one step here.    *)
(*                                                                         *)
(* A file is the writes its content is made of. An append may take two     *)
(* calls (its content may be larger than what one call writes), and any    *)
(* call that changes something may fail and change nothing. The path       *)
(* itself was found to be relative and inside the project before.          *)
(* FakeRunner composes these commands with the runner's others.            *)
(***************************************************************************)
EXTENDS Naturals, SequencesExt

CONSTANTS
  Commands,
  Original,    \* the content of a file that was there before
  None         \* no file, no job

ASSUME CommandsAssumption == IsFiniteSet(Commands) /\ {Original, None} \cap Commands = {}

Modes   == {"overwrite", "create_new", "append", "read"}
\* What the path names at first; other: a directory or a symbolic link.
Kinds   == {"none", "file", "other"}
\* refused: INVALID_ARGUMENT or FORBIDDEN_PATH.  failed: the file system's error.
Results == {"done", "refused", "failed"}

VARIABLES
  kind,
  parent,    \* whether the directory of the path exists
  access,    \* mode asked for; pc; outcome; file opened; content read; commands
             \* that were over when it began
  linked,    \* the file that the path names
  content,   \* of each file, by the command that made it
  temps      \* temporary files

files == <<kind, parent, access, linked, content, temps>>

Files == Commands \cup {Original}
Parts == {<<Original, 1>>} \cup (Commands \X {1, 2})

FilesTypeOK ==
  /\ kind \in Kinds /\ parent \in BOOLEAN
  /\ \A c \in Commands :
       /\ access[c].mode \in Modes \cup {"none"}
       /\ access[c].pc \in {"start", "mkdir", "target", "open", "temp", "place",
                             "unlink", "write", "rest", "read", "over"}
       /\ access[c].outcome \in Results
       /\ access[c].opened \in Files \cup {None}
       /\ access[c].seen \in Seq(Parts)
       /\ access[c].before \subseteq Commands
  /\ linked \in Files \cup {None} /\ (linked # None => kind # "other" /\ parent)
  /\ content \in [Files -> Seq(Parts)]
  /\ temps \subseteq Commands
  /\ \A c \in temps : access[c].mode \in {"overwrite", "create_new"} /\ parent

Whole(c) == <<<<c, 1>>, <<c, 2>>>>

FilesInit ==
  /\ kind \in Kinds
  /\ parent \in (IF kind = "none" THEN BOOLEAN ELSE {TRUE})
  /\ access = [c \in Commands |-> [mode |-> "none", pc |-> "start", outcome |-> "done",
                                   opened |-> None, seen |-> <<>>, before |-> {}]]
  /\ linked = IF kind = "file" THEN Original ELSE None
  /\ content = [f \in Files |-> IF f = Original THEN <<<<Original, 1>>>> ELSE <<>>]
  /\ temps = {}

-----------------------------------------------------------------------------
Over == {c \in Commands : access[c].pc = "over"}

At(c, pc)       == access[c].pc = pc
Goes(c, pc)     == access' = [access EXCEPT ![c].pc = pc]
Ends(c, result) == access' = [access EXCEPT ![c].pc = "over", ![c].outcome = result]

\* The directory is made by the writes that lack it.
FromParent(mode) ==
  IF parent THEN "target" ELSE IF mode = "read" THEN "over" ELSE "mkdir"

\* resolveSafeProjectPath
ResolvePath(c, mode) ==
  /\ At(c, "start")
  /\ access' = [access EXCEPT ![c] = [@ EXCEPT
       !.mode = mode, !.before = Over, !.pc = FromParent(mode),
       !.outcome = IF FromParent(mode) = "over" THEN "refused" ELSE "done"]]
  /\ UNCHANGED <<kind, parent, linked, content, temps>>

\* EEXIST is passed over: another command made the directory meanwhile.
MakeParent(c) ==
  /\ At(c, "mkdir")
  /\ Goes(c, "target")
  /\ parent' = TRUE
  /\ UNCHANGED <<kind, linked, content, temps>>

\* lstatIfExists and assertRegularFileTarget
RefusesTarget(c) ==
  \/ kind = "other"
  \/ access[c].mode = "read" /\ linked = None
  \/ access[c].mode = "create_new" /\ linked # None

LookUpTarget(c) ==
  /\ At(c, "target")
  /\ IF RefusesTarget(c) THEN Ends(c, "refused")
     ELSE Goes(c, IF access[c].mode \in {"append", "read"} THEN "open" ELSE "temp")
  /\ UNCHANGED <<kind, parent, linked, content, temps>>

-----------------------------------------------------------------------------
(* overwrite and create_new: a temporary file, put in place at once.        *)

WriteTemp(c) ==
  /\ At(c, "temp")
  /\ temps' = temps \cup {c}
  /\ content' = [content EXCEPT ![c] = Whole(c)]
  /\ Goes(c, "place")
  /\ UNCHANGED <<kind, parent, linked>>

\* Mutant of Place: what link refuses is put in place by rename.
PlaceByRename(c) ==
  /\ At(c, "place")
  /\ linked' = c /\ temps' = temps \ {c}
  /\ Goes(c, "unlink")
  /\ UNCHANGED <<kind, parent, content>>

\* rename, or link, which fails with EEXIST when the path names a file.
Place(c) ==
  /\ At(c, "place")
  /\ \/ access[c].mode = "overwrite" /\ linked' = c /\ temps' = temps \ {c}
        /\ Goes(c, "unlink")
     \/ access[c].mode = "create_new" /\ linked = None /\ linked' = c /\ UNCHANGED temps
        /\ Goes(c, "unlink")
     \/ access[c].mode = "create_new" /\ linked # None /\ UNCHANGED <<linked, temps>>
        /\ access' = [access EXCEPT ![c].pc = "unlink", ![c].outcome = "refused"]
  /\ UNCHANGED <<kind, parent, content>>

\* The write of the temporary file, the rename or the link fails. What was
\* written may stay, and is unlinked like the rest.
FailToPlace(c) ==
  /\ \/ At(c, "temp") /\ temps' \in {temps, temps \cup {c}}
     \/ At(c, "place") /\ UNCHANGED temps
  /\ access' = [access EXCEPT ![c].pc = "unlink", ![c].outcome = "failed"]
  /\ UNCHANGED <<kind, parent, linked, content>>

\* finally: unlink, ENOENT passed over; any other error is the command's.
Unlink(c) ==
  /\ At(c, "unlink")
  /\ \/ Goes(c, "over") /\ temps' = temps \ {c}
     \/ c \in temps /\ Ends(c, "failed") /\ UNCHANGED temps
  /\ UNCHANGED <<kind, parent, linked, content>>

-----------------------------------------------------------------------------
(* append and read.                                                         *)

\* O_APPEND and O_CREAT, or O_RDONLY.
Open(c) ==
  /\ At(c, "open")
  /\ linked' = IF linked = None THEN c ELSE linked
  /\ access' = [access EXCEPT ![c].opened = linked',
                                ![c].pc = IF access[c].mode = "read" THEN "read" ELSE "write"]
  /\ UNCHANGED <<kind, parent, content, temps>>

\* At the end the file has when it is written.
Appended(c, part) == Append(content[access[c].opened], <<c, part>>)

WriteAppend(c) ==
  /\ \/ At(c, "write")
        /\ content' = [content EXCEPT ![access[c].opened] = Appended(c, 1)]
        /\ Goes(c, "rest")
     \/ At(c, "rest")
        /\ content' = [content EXCEPT ![access[c].opened] = Appended(c, 2)]
        /\ Ends(c, "done")
  /\ UNCHANGED <<kind, parent, linked, temps>>

\* The directory or the append fails; half of an append may have been written.
Fail(c) ==
  /\ access[c].mode # "read" /\ access[c].pc \in {"mkdir", "open", "write", "rest"}
  /\ Ends(c, "failed")
  /\ UNCHANGED <<kind, parent, linked, content, temps>>

Read(c) ==
  /\ At(c, "read")
  /\ access' = [access EXCEPT ![c].pc = "over",
                                ![c].seen = content[access[c].opened]]
  /\ UNCHANGED <<kind, parent, linked, content, temps>>

FileStep(c) ==
  \/ \E mode \in Modes : ResolvePath(c, mode)
  \/ MakeParent(c) \/ LookUpTarget(c)
  \/ WriteTemp(c) \/ Place(c) \/ FailToPlace(c) \/ Unlink(c)
  \/ Open(c) \/ WriteAppend(c) \/ Fail(c) \/ Read(c)

-----------------------------------------------------------------------------
Done(c)  == access[c].pc = "over" /\ access[c].outcome = "done"
Wrote(c) == Done(c) /\ access[c].mode # "read"

\* The parts hold what c wrote, or what replaced it: an overwrite that was
\* not over when c began.
Reflects(parts, c) ==
  \/ ToSet(Whole(c)) \subseteq ToSet(parts)
  \/ \E e \in Commands :
       /\ access[e].mode = "overwrite" /\ e \notin access[c].before
       /\ IsPrefix(Whole(e), parts)

\* create_new makes a file where there was none: no other create_new made it
\* too, and no write that was over before made it.
CreatedOnce ==
  \A c \in Commands : Wrote(c) /\ access[c].mode = "create_new" =>
    /\ kind = "none"
    /\ \A d \in Commands \ {c} : Wrote(d) =>
         access[d].mode # "create_new" /\ d \notin access[c].before

\* A read that begins when a write is over finds all of it, or of what
\* replaced it since.
ReadIsRecent ==
  \A c, d \in Commands :
    Done(c) /\ access[c].mode = "read" /\ d \in access[c].before /\ Wrote(d)
      => Reflects(access[c].seen, d)

\* The file that the path names holds what was answered as written.
AnsweredWritesStay ==
  \A c \in Commands : Wrote(c) => linked # None /\ Reflects(content[linked], c)

(* "Overwrites are atomic temp-write-and-rename operations"                *)
(* (agent-colab-bridge-spec.md:1013), create_new is exclusive although it  *)
(* looks up the target two awaits before it puts the file in place, and    *)
(* what was answered as written is read and stays, through appends and     *)
(* failures of others, until an overwrite that was not over before         *)
(* replaces it (runFakeWriteFile, runFakeReadFile).                        *)
WritesHold == CreatedOnce /\ ReadIsRecent /\ AnsweredWritesStay
=============================================================================
