------------------------------ MODULE SdFiles ------------------------------
(***************************************************************************)
(* The sd library of the Lua computer: the working directory, the commands *)
(* on files and directories, and the open files, which programs know by    *)
(* the number of a slot.  The card is external: its directories, what it   *)
(* finds under a path and that it may be full or missing.                  *)
(***************************************************************************)
EXTENDS Integers, Sequences, SequencesExt, FiniteSets

CONSTANTS
    Slash, Up,       \* "/" and ".."; the other parts of a path are names
    HomeDir,         \* "lua"
    Places,          \* where files and directories may be: sequences of names
    FileArgs,        \* paths the commands are called with
    DirArgs, NewDirArgs,  \* paths sd.cd is called with; sd.mkdir and sd.rmdir
    MaxOpen,         \* MAX_OPEN_FILES
    Bytes, MaxSize,  \* what is written, and how much of it a file may hold
    Dir, NoneThere   \* a directory; no file, no open file

Slots == 0 .. MaxOpen - 1
FileContents == SeqOf(Bytes, MaxSize)
OpenModes == {"r", "w", "a"}
OpenFiles == [at : Places \cup {<<>>}, mode : OpenModes, pos : Nat, stale : BOOLEAN]

ASSUME SdFilesAssumption ==
    /\ MaxOpen \in Nat \ {0} /\ MaxSize \in Nat
    /\ Slash # Up /\ <<HomeDir>> \in Places /\ <<>> \notin Places
    /\ NoneThere \notin OpenFiles \cup FileContents /\ Dir \notin FileContents \cup {NoneThere}

VARIABLES
    disk,        \* the files and directories of the card
    mounted,
    currentWorkDir,
    openFiles,
    held,        \* history: handles of the running program, each with its file
    leftOpen,    \* history: slots of programs that ended without closing them
    there        \* history: the directory the user went to, as names

sdVars == <<disk, mounted, currentWorkDir, openFiles, held, leftOpen, there>>
handles == <<openFiles, held, leftOpen>>
place == <<currentWorkDir, there>>

-----------------------------------------------------------------------------
(* What the card finds under a path: separators may be doubled, a trailing *)
(* one or ".." leads nowhere.                                              *)
Parts(path) == SelectSeq(path, LAMBDA t : t # Slash)

At(path) ==
    IF path = <<Slash>> THEN <<>>
    ELSE IF path = <<>> \/ Last(path) = Slash \/ Contains(path, Up) THEN NoneThere
    ELSE Parts(path)

IsDir(p) == p = <<>> \/ (p \in Places /\ disk[p] = Dir)
IsFile(p) == p \in Places /\ disk[p] \in FileContents
Exists(p) == mounted /\ (IsDir(p) \/ IsFile(p))
CanCreate(p) == mounted /\ p \in Places /\ disk[p] = NoneThere /\ IsDir(Front(p))
Below(p) == {q \in Places : Len(q) = Len(p) + 1 /\ Front(q) = p /\ disk[q] # NoneThere}

(* A slip: absolute names are put behind the working directory as well.    *)
resolve_lua_pathGlued(path) == currentWorkDir \o path

resolve_lua_path(path) ==
    IF path # <<>> /\ Head(path) = Slash THEN path ELSE currentWorkDir \o path

Target(path) == At(resolve_lua_path(path))

(* A card that is full takes nothing.                                      *)
Added(old, b) == {old} \cup (IF Len(old) < MaxSize THEN {Append(old, b)} ELSE {})

-----------------------------------------------------------------------------
TrimSlash(path) == IF Len(path) > 1 /\ Last(path) = Slash THEN Front(path) ELSE path

NoDoubleSlash(path) ==
    LET keep(i) == ~(path[i] = Slash /\ i > 1 /\ path[i - 1] = Slash)
        F[i \in 0 .. Len(path)] ==
            IF i = 0 THEN <<>> ELSE IF keep(i) THEN Append(F[i - 1], path[i]) ELSE F[i - 1]
    IN F[Len(path)]

WithSlash(path) == IF Last(path) = Slash THEN path ELSE Append(path, Slash)

(* cd(".."): the path up to the last slash but one.                        *)
Parent(path) ==
    LET p == TrimSlash(path)
        last == CHOOSE i \in 1 .. Len(p) : p[i] = Slash /\ \A j \in i + 1 .. Len(p) : p[j] # Slash
    IN IF last > 1 THEN SubSeq(p, 1, last - 1) ELSE <<Slash>>

(* A slip: the slash in front of a relative path is not set, the one       *)
(* behind the new directory neither.                                       *)
CdTargetGlued(arg) ==
    NoDoubleSlash(IF arg = <<Up>> THEN Parent(currentWorkDir)
                  ELSE IF arg # <<>> /\ Head(arg) = Slash THEN Tail(arg)
                  ELSE currentWorkDir \o arg)

CdTarget(arg) ==
    NoDoubleSlash(IF arg = <<Up>> THEN Parent(currentWorkDir)
                  ELSE IF arg # <<>> /\ Head(arg) = Slash THEN arg
                  ELSE WithSlash(currentWorkDir) \o arg)

Cd(arg) ==
    LET path == CdTarget(arg)
    IN /\ path = <<Slash>> \/ Exists(At(TrimSlash(path)))
       /\ currentWorkDir' = WithSlash(path)
       /\ there' = IF arg = <<Up>> THEN (IF there = <<>> THEN <<>> ELSE Front(there))
                   ELSE IF arg # <<>> /\ Head(arg) = Slash THEN Parts(arg)
                   ELSE there \o Parts(arg)
       /\ UNCHANGED <<disk, mounted, handles>>

-----------------------------------------------------------------------------
RemoveFile(arg) ==
    LET p == Target(arg)
    IN /\ mounted /\ IsFile(p)
       /\ disk' = [disk EXCEPT ![p] = NoneThere]
       /\ UNCHANGED <<mounted, place, handles>>

Mkdir(arg) ==
    /\ CanCreate(Target(arg))
    /\ disk' = [disk EXCEPT ![Target(arg)] = Dir]
    /\ UNCHANGED <<mounted, place, handles>>

Rmdir(arg) ==
    LET p == Target(arg)
    IN /\ mounted /\ p # <<>> /\ IsDir(p) /\ Below(p) = {}
       /\ disk' = [disk EXCEPT ![p] = NoneThere]
       /\ UNCHANGED <<mounted, place, handles>>

(* What is below p is below q then.                                        *)
Renamed(p, q) ==
    LET from(x) == p \o SubSeq(x, Len(q) + 1, Len(x))
    IN [x \in Places |-> IF IsPrefix(p, x) THEN NoneThere
                         ELSE IF IsPrefix(q, x) /\ from(x) \in Places THEN disk[from(x)]
                         ELSE disk[x]]

(* Bound: everything that moves has a place.                               *)
Rename(from, to) ==
    LET p == Target(from)
        q == Target(to)
    IN /\ mounted /\ p \in Places /\ disk[p] # NoneThere
       /\ CanCreate(q) /\ ~IsPrefix(p, q)
       /\ \A x \in Places : IsPrefix(p, x) /\ disk[x] # NoneThere => q \o SubSeq(x, Len(p) + 1, Len(x)) \in Places
       /\ disk' = Renamed(p, q)
       /\ UNCHANGED <<mounted, place, handles>>

(* A file that is the target is removed first, a directory stays; then the *)
(* target may fail to open.  What the card did not take is not noticed,    *)
(* the source as its own target is read while it is written, and a         *)
(* directory has nothing to read.                                          *)
CopyResult(p, q) ==
    LET source == IF IsFile(p) THEN disk[p] ELSE <<>>
        copies == {<<>>} \cup {SubSeq(source, 1, n) : n \in 0 .. Len(source)}
    IN IF IsFile(q) \/ CanCreate(q) THEN {[disk EXCEPT ![q] = c] : c \in copies \cup {NoneThere}}
       ELSE {disk}

Copy(from, to) ==
    LET p == Target(from)
        q == Target(to)
    IN /\ UNCHANGED <<mounted, place, handles>>
       /\ Exists(p)
       /\ disk' \in CopyResult(p, q)

-----------------------------------------------------------------------------
FreeSlots == {i \in Slots : openFiles[i] = NoneThere}

(* A slip: the number of open files, as if they were always the first ones.*)
get_free_file_slot_Counts == Cardinality(Slots \ FreeSlots)

get_free_file_slot == IF FreeSlots = {} THEN -1 ELSE CHOOSE i \in FreeSlots : \A j \in FreeSlots : i <= j

(* A directory opens too, but there is nothing to read or write.           *)
Opens(p, mode) == Exists(p) \/ (mode # "r" /\ CanCreate(p))

(* sd.open: opening to write empties the file, to append does not.         *)
OpenFile(arg, mode) ==
    LET slot == get_free_file_slot
        p == Target(arg)
        old == IF IsFile(p) THEN disk[p] ELSE <<>>
    IN /\ slot # -1
       /\ Opens(p, mode)
       /\ openFiles' = [openFiles EXCEPT ![slot] =
              [at |-> p, mode |-> mode, pos |-> 0, stale |-> FALSE]]
       /\ disk' = IF IsDir(p) THEN disk ELSE [disk EXCEPT ![p] = IF mode = "w" THEN <<>> ELSE old]
       /\ held' = held \cup {<<slot, p>>}
       /\ UNCHANGED <<mounted, place, leftOpen>>

Valid(h) == h \in Slots /\ openFiles[h] # NoneThere
Usable(h) == Valid(h) /\ ~openFiles[h].stale /\ IsFile(openFiles[h].at)

Read(h) ==
    /\ Usable(h) /\ openFiles[h].mode = "r"
    /\ openFiles[h].pos < Len(disk[openFiles[h].at])
    /\ openFiles' = [openFiles EXCEPT ![h].pos = @ + 1]
    /\ UNCHANGED <<disk, mounted, place, held, leftOpen>>

Seek(h, pos) ==
    /\ Usable(h) /\ pos <= Len(disk[openFiles[h].at])
    /\ openFiles' = [openFiles EXCEPT ![h].pos = pos]
    /\ UNCHANGED <<disk, mounted, place, held, leftOpen>>

Write(h, b) ==
    /\ Usable(h) /\ openFiles[h].mode # "r"
    /\ LET f == openFiles[h]
           old == disk[f.at]
       IN \E new \in IF f.mode = "w" /\ f.pos < Len(old) THEN {[old EXCEPT ![f.pos + 1] = b]}
                   ELSE IF f.mode = "w" /\ f.pos > Len(old) THEN {old}
                   ELSE Added(old, b) :
            /\ disk' = [disk EXCEPT ![f.at] = new]
            /\ openFiles' = [openFiles EXCEPT ![h].pos = IF new = old \/ f.mode = "a" THEN @ ELSE @ + 1]
    /\ UNCHANGED <<mounted, place, held, leftOpen>>

CloseFile(h) ==
    /\ Valid(h)
    /\ openFiles' = [openFiles EXCEPT ![h] = NoneThere]
    /\ held' = {e \in held : e[1] # h}
    /\ leftOpen' = leftOpen \ {h}
    /\ UNCHANGED <<disk, mounted, place>>

(* A program ends, by an error for example: nobody closes its files.       *)
ProgramEnds ==
    /\ leftOpen' = leftOpen \cup {e[1] : e \in held}
    /\ held' = {}
    /\ UNCHANGED <<disk, mounted, place, openFiles>>

Unmount ==
    /\ mounted
    /\ mounted' = FALSE
    /\ openFiles' = [s \in Slots |-> IF openFiles[s] = NoneThere THEN NoneThere
                                     ELSE [openFiles[s] EXCEPT !.stale = TRUE]]
    /\ UNCHANGED <<disk, place, held, leftOpen>>

Mount ==
    /\ ~mounted
    /\ mounted' = TRUE
    /\ UNCHANGED <<disk, place, handles>>

-----------------------------------------------------------------------------
SdInit ==
    /\ disk = [p \in Places |-> IF p = <<HomeDir>> THEN Dir ELSE NoneThere]
    /\ mounted = TRUE
    /\ currentWorkDir = <<Slash, HomeDir, Slash>>
    /\ openFiles = [s \in Slots |-> NoneThere]
    /\ held = {}
    /\ leftOpen = {}
    /\ there = <<HomeDir>>

SdNext ==
    \/ \E a \in DirArgs : Cd(a)
    \/ \E a \in FileArgs : RemoveFile(a)
    \/ \E a \in NewDirArgs : Mkdir(a) \/ Rmdir(a)
    \/ \E a, b \in FileArgs : Copy(a, b) \/ Rename(a, b)
    \/ \E a \in FileArgs, m \in OpenModes : OpenFile(a, m)
    \/ \E h \in Slots : Read(h) \/ CloseFile(h) \/ (\E n \in 0 .. MaxSize : Seek(h, n))
    \/ \E h \in Slots, b \in Bytes : Write(h, b)
    \/ ProgramEnds
    \/ Unmount
    \/ Mount

SdSpec == SdInit /\ [][SdNext]_sdVars

-----------------------------------------------------------------------------
(* A handle is good for the file it was opened for until it is closed, and *)
(* a slot is taken exactly as long as a program, running or ended, did not *)
(* close it: get_free_file_slot never hands out a slot in use, and a       *)
(* failed sd.open costs none.                                              *)
HandlesKeepTheirFile ==
    /\ {s \in Slots : openFiles[s] # NoneThere} = leftOpen \cup {e[1] : e \in held}
    /\ \A e \in held : openFiles[e[1]].at = e[2] /\ e[1] \notin leftOpen

(* currentWorkDir starts and ends with one slash, has no double ones, and  *)
(* leads to the directory the user went to with sd.cd, whatever mixture of *)
(* absolute, relative and upward steps led there.                          *)
WorkDirFollowsCd ==
    /\ Head(currentWorkDir) = Slash /\ Last(currentWorkDir) = Slash
    /\ currentWorkDir = NoDoubleSlash(currentWorkDir)
    /\ Parts(currentWorkDir) = there

(* A command changes the files it names and no other, wherever the user    *)
(* went before: a relative name means a file in the directory there is, an *)
(* absolute one, with doubled slashes too, does not depend on it.  sd.copy *)
(* leaves its source alone, unless both names mean one file, and a handle  *)
(* writes to the file that was opened, whatever the same name means now    *)
(* (resolve_lua_path, sd.cd and the commands on files).                    *)
Meant(arg) == IF arg # <<>> /\ Head(arg) = Slash THEN Parts(arg) ELSE there \o Parts(arg)
From(p) == {x \in Places : IsPrefix(p, x)}
ChangesOnly(ps) == \A x \in Places \ ps : disk'[x] = disk[x]

OnlyNamedFilesChange ==
    [][disk' # disk =>
       /\ \A a \in FileArgs : RemoveFile(a) \/ (\E m \in OpenModes : OpenFile(a, m)) => ChangesOnly({Meant(a)})
       /\ \A a \in NewDirArgs : Mkdir(a) \/ Rmdir(a) => ChangesOnly({Meant(a)})
       /\ \A a, b \in FileArgs :
            /\ Copy(a, b) => ChangesOnly({Meant(b)})
            /\ Rename(a, b) => ChangesOnly(From(Meant(a)) \cup From(Meant(b)))
       /\ \A e \in held, b \in Bytes : Write(e[1], b) => ChangesOnly({e[2]})]_sdVars

=============================================================================
