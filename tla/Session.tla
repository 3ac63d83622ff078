------------------------------ MODULE Session -------------------------------
(***************************************************************************)
(* What happens between the prompt and the card: run() and edit(), typed,  *)
(* started with F1 to F3 or called by programs, the editor's two ways of   *)
(* writing a file, and what they leave in the global variables for the     *)
(* next command.  Keys and texts inside the editor are the module Editor.  *)
(***************************************************************************)
EXTENDS Integers, Sequences

CONSTANTS
    Names,       \* file names as commands get them
    Absolute,    \* those that start with a slash, with the path they mean
    Dirs, Home,  \* working directories, and "/lua/"
    PathOf,      \* currentWorkDir + filename
    Paths, NoPath,  \* the files, and what a path without directory leads to
    Texts, Empty, Cut,  \* programs; Cut: what a write left that did not end
    NoFile,
    Endings,     \* the ways each program may end
    FirstLine,   \* of each program, as messages quote it
    NoChunk, Success,
    Saved,       \* the card at the start
    NoName,
    MaxDepth     \* how deep run() and edit() are nested

Contents == Texts \cup {Empty, Cut}

(* An error message, split at its colons: of each text between them, what  *)
(* toInt() makes of it.                                                    *)
Messages == Seq(Int) \ {<<>>}

(* An error names the program and the line it was raised in; raised by a C *)
(* function or a library on the card, by error() with its own position or  *)
(* none, for want of memory or with a value that is no string (an empty    *)
(* message then), it may say anything.                                     *)
Failures == [chunk : Contents \cup {NoChunk}, line : Nat \ {0}, says : Messages]

(* A pointer to the string of a call of run() or edit(), 0: none any more. *)
Pointers == [name : Names, owner : Nat, freed : BOOLEAN]

ASSUME SessionAssumption ==
    /\ DOMAIN Absolute \subseteq Names /\ \A n \in DOMAIN Absolute : Absolute[n] \in Paths
    /\ Home \in Dirs
    /\ PathOf \in [Dirs \X Names -> Paths \cup {NoPath}]
    /\ NoPath \notin Paths /\ NoFile \notin Contents /\ NoName \notin Pointers
    /\ FirstLine \in [Contents -> Messages] /\ NoChunk \notin Contents
    /\ Endings \in [Contents -> SUBSET (Failures \cup {Success})] /\ Success \notin Failures
    /\ Saved \in [Paths \cup {NoPath} -> Texts \cup {NoFile}] /\ Saved[NoPath] = NoFile
    /\ MaxDepth \in Nat \ {0}

VARIABLES
    card,         \* the files on the SD card
    workDir,      \* currentWorkDir
    textBuffer,
    fehlerZeile,
    name,         \* currentEditingFilename, a pointer into a string of Lua
    frames,       \* the calls of run() and edit() under way
    asked,        \* history: what the user wanted each file to hold
    harmed,       \* history: files a write failed for, or the power
    lastError     \* history: the error reported last, and the program it ended

vars == <<card, workDir, textBuffer, fehlerZeile, name, frames, asked, harmed, lastError>>
files == <<card, asked, harmed>>

NoError == [text |-> Empty, how |-> Success]

Depth == Len(frames)
Top == frames[Depth]
AtTop(at) == frames # <<>> /\ Top.at = at

(* Lua runs at the prompt and in the programs, not in the editor.          *)
LuaRuns == frames = <<>> \/ AtTop("program")

-----------------------------------------------------------------------------
(* A slip: a name that is set already is kept.                             *)
NameOfFirst(n) ==
    IF name = NoName THEN [name |-> n, owner |-> Depth + 1, freed |-> FALSE] ELSE name

(* currentEditingFilename points to the argument of a call.  The string is *)
(* alive while the call is under way; after that a collection may free it, *)
(* unless the program kept the name elsewhere.                             *)
NameOf(n) == [name |-> n, owner |-> Depth + 1, freed |-> FALSE]

Collected(p) ==
    IF p # NoName /\ p.owner = 0 THEN {p, [p EXCEPT !.freed = TRUE]} ELSE {p}

LeftBy(p, d) == IF p # NoName /\ p.owner = d THEN [p EXCEPT !.owner = 0] ELSE p

(* A call returns, after a full collection.                                *)
Return ==
    /\ \E p \in Collected(name) : name' = LeftBy(p, Depth)
    /\ frames' = SubSeq(frames, 1, Depth - 1)

-----------------------------------------------------------------------------
(* run(n) and edit(n); old is what currentEditingFilename is without them. *)

(* The file is not there or cannot be opened: the buffer is empty already. *)
RunFails(n, old) ==
    /\ textBuffer' = Empty
    /\ name' \in Collected(old)
    /\ UNCHANGED <<workDir, fehlerZeile, frames, lastError, files>>

RunPath(n) == IF n \in DOMAIN Absolute THEN Absolute[n] ELSE PathOf[workDir, n]

RunLoads(n) ==
    LET path == RunPath(n)
    IN  /\ Depth < MaxDepth
        /\ card[path] # NoFile
        /\ textBuffer' = card[path]
        /\ name' = NameOf(n)
        /\ frames' = Append(frames, [op |-> "run", name |-> n, path |-> path,
                                     text |-> card[path], at |-> "program"])
        /\ UNCHANGED <<workDir, fehlerZeile, lastError, files>>

Run(n, old) == RunFails(n, old) \/ RunLoads(n)

Editing(n, path) ==
    frames' = Append(frames, [op |-> "edit", name |-> n, path |-> path,
                              text |-> Empty, at |-> "editor"])

(* The name is taken for relative even with a slash.  A file that is not   *)
(* there, or cannot be opened, is an empty text.                           *)
Edit(n) ==
    LET path == PathOf[workDir, n]
    IN  /\ Depth < MaxDepth
        /\ textBuffer' \in {Empty} \cup ({card[path]} \ {NoFile})
        /\ name' = NameOf(n)
        /\ Editing(n, path)
        /\ UNCHANGED <<workDir, fehlerZeile, lastError, files>>

(* Typed at the prompt or called by a program; F1 runs the file manager.   *)
Command(n) == LuaRuns /\ (Run(n, name) \/ Edit(n))

(* F2 and F3: without a name the command is a syntax error, and what a     *)
(* freed string holds is anything.                                         *)
LastFileKey(op, n) ==
    /\ frames = <<>>
    /\ name # NoName
    /\ name.freed \/ n = name.name
    /\ IF op = "run" THEN Run(n, NoName) ELSE Edit(n)

LastFileKeyError ==
    /\ frames = <<>>
    /\ name # NoName => name.freed
    /\ name' = NoName
    /\ UNCHANGED <<workDir, textBuffer, fehlerZeile, frames, lastError, files>>

(* Other commands and programs: sd.cd, and anything that makes Lua collect.*)
ChangeDir(d) ==
    /\ LuaRuns
    /\ workDir' = d
    /\ UNCHANGED <<textBuffer, fehlerZeile, name, frames, lastError, files>>

CollectGarbage ==
    /\ LuaRuns
    /\ name' \in Collected(name)
    /\ UNCHANGED <<workDir, textBuffer, fehlerZeile, frames, lastError, files>>

-----------------------------------------------------------------------------
(* In the editor. *)

Goto(at) == frames' = [frames EXCEPT ![Depth].at = at]

Opened(path) == card' = [card EXCEPT ![path] = Empty]

(* What a write leaves: the text, or less; nobody looks at the result.     *)
Writes(path) == \E c \in {textBuffer, Cut} :
    /\ card' = [card EXCEPT ![path] = c]
    /\ harmed' = IF c = textBuffer THEN harmed \ {path} ELSE harmed \cup {path}

Type(t) ==
    /\ AtTop("editor")
    /\ textBuffer' = t
    /\ UNCHANGED <<workDir, fehlerZeile, name, frames, lastError, files>>

(* A slip: quitting saves as well.                                         *)
QuitSaves ==
    /\ AtTop("editor")
    /\ Goto("save")
    /\ UNCHANGED <<workDir, textBuffer, fehlerZeile, name, lastError, files>>

Quit ==
    /\ AtTop("editor")
    /\ Return
    /\ UNCHANGED <<workDir, textBuffer, fehlerZeile, lastError, files>>

(* The menu writes the file ...                                            *)
Save ==
    /\ AtTop("editor")
    /\ asked' = [p \in Paths |-> IF p = Top.path THEN textBuffer ELSE asked[p]]
    /\ \/ Goto("save") /\ UNCHANGED card
       \/ Top.path # NoPath /\ Goto("menu") /\ Opened(Top.path)
    /\ UNCHANGED <<workDir, textBuffer, fehlerZeile, name, harmed, lastError>>

MenuWrites ==
    /\ AtTop("menu")
    /\ Writes(Top.path)
    /\ Goto("save")
    /\ UNCHANGED <<workDir, textBuffer, fehlerZeile, name, asked, lastError>>

(* ... and edit() writes it once more, or reports that it cannot.          *)
SaveFails ==
    /\ AtTop("save")
    /\ harmed' = harmed \cup ({Top.path} \cap Paths)
    /\ Return
    /\ UNCHANGED <<card, workDir, textBuffer, fehlerZeile, asked, lastError>>

(* A slip: whether the file is open is not asked.                          *)
SaveOpensUnasked ==
    /\ AtTop("save")
    /\ Opened(Top.path)
    /\ Goto("write")
    /\ UNCHANGED <<workDir, textBuffer, fehlerZeile, name, asked, harmed, lastError>>

SaveOpens ==
    /\ AtTop("save")
    /\ Top.path # NoPath
    /\ Opened(Top.path)
    /\ Goto("write")
    /\ UNCHANGED <<workDir, textBuffer, fehlerZeile, name, asked, harmed, lastError>>

(* The program in the buffer is started, whatever the file holds now.      *)
SaveWrites ==
    /\ AtTop("write")
    /\ Writes(Top.path)
    /\ frames' = [frames EXCEPT ![Depth].at = "program", ![Depth].text = textBuffer]
    /\ UNCHANGED <<workDir, textBuffer, fehlerZeile, name, asked, lastError>>

-----------------------------------------------------------------------------
(* The end of a program. *)

(* luaL_where puts the position in front.                                  *)
Message(r) == IF r.chunk = NoChunk THEN r.says ELSE FirstLine[r.chunk] \o <<r.line>> \o r.says

(* The number between the first two colons; line 1 if there are no two.    *)
Reported(r) == LET m == Message(r) IN IF Len(m) < 3 THEN 1 ELSE m[2]

(* A slip: edit() takes the line from the message before it sets line 1.   *)
LineAfterReset(op, r) ==
    IF op = "edit" THEN 1 ELSE IF r # Success THEN Reported(r) ELSE fehlerZeile

(* run() leaves the line alone if nothing failed.                          *)
LineAfter(op, r) ==
    IF r # Success THEN Reported(r) ELSE IF op = "edit" THEN 1 ELSE fehlerZeile

EndProgram ==
    /\ AtTop("program")
    /\ \E r \in Endings[Top.text] :
        /\ fehlerZeile' = LineAfter(Top.op, r)
        /\ lastError' = IF r = Success /\ Top.op = "run" THEN lastError ELSE [text |-> Top.text, how |-> r]
    /\ Return
    /\ UNCHANGED <<workDir, textBuffer, files>>

(* The power goes.  A file being written holds any part of the old or the  *)
(* new text.                                                               *)
Written == IF AtTop("menu") \/ AtTop("write") THEN {Top.path} ELSE {}

Crash ==
    /\ card' \in {[p \in DOMAIN card |-> IF p \in Written THEN c ELSE card[p]] : c \in Contents}
    /\ harmed' = harmed \cup Written \cup (IF AtTop("save") THEN {Top.path} \cap Paths ELSE {})
    /\ workDir' = Home /\ textBuffer' = Empty /\ fehlerZeile' = 1
    /\ name' = NoName /\ frames' = <<>>
    /\ lastError' = NoError
    /\ UNCHANGED asked

-----------------------------------------------------------------------------
Init ==
    /\ card = Saved
    /\ workDir = Home /\ textBuffer = Empty /\ fehlerZeile = 1
    /\ name = NoName /\ frames = <<>>
    /\ asked = [p \in Paths |-> card[p]] /\ harmed = {}
    /\ lastError = NoError

Prompt ==
    \/ \E n \in Names : Command(n) \/ \E op \in {"run", "edit"} : LastFileKey(op, n)
    \/ LastFileKeyError
    \/ \E d \in Dirs : ChangeDir(d)
    \/ CollectGarbage
    \/ EndProgram

InEditor == (\E t \in Texts : Type(t)) \/ Quit \/ Save \/ MenuWrites
            \/ SaveFails \/ SaveOpens \/ SaveWrites

Next == Prompt \/ InEditor \/ Crash

Spec == Init /\ [][Next]_vars

-----------------------------------------------------------------------------
(* Properties. *)

Frame == [op : {"run", "edit"}, name : Names, path : Paths \cup {NoPath}, text : Contents,
          at : {"editor", "menu", "save", "write", "program"}]

(* Nothing is ever written where there is no directory, and no string is   *)
(* freed while the call it was passed to is under way.                     *)
TypeOK ==
    /\ card \in [Paths \cup {NoPath} -> Contents \cup {NoFile}] /\ card[NoPath] = NoFile
    /\ workDir \in Dirs /\ textBuffer \in Contents /\ fehlerZeile \in Int
    /\ frames \in Seq(Frame) /\ Depth <= MaxDepth
    /\ \A d \in 1 .. Depth - 1 : frames[d].at = "program"
    /\ name \in Pointers \cup {NoName}
    /\ name # NoName => /\ name.owner <= Depth
                        /\ name.owner > 0 => ~name.freed /\ frames[name.owner].name = name.name
    /\ asked \in [Paths -> Contents \cup {NoFile}] /\ harmed \subseteq Paths

(* The title line of the editor names the file that is edited, through a   *)
(* pointer to a string that is alive: whatever programs called each other, *)
(* failed or were collected before.                                        *)
TitleNamesFile ==
    frames # <<>> /\ Top.at # "program" =>
        name # NoName /\ ~name.freed /\ name.owner = Depth /\ name.name = Top.name

(* A file holds what the user last wanted saved in it, unless a write of it*)
(* failed or the power went during one: neither programs that call edit()  *)
(* and run() nor quitting change another text or another file.             *)
Saving(p) == frames # <<>> /\ Top.path = p /\ Top.at \in {"menu", "save", "write"}

FilesKeepSavedText ==
    \A p \in Paths : p \notin harmed /\ ~Saving(p) => card[p] = asked[p]

(* "Fehler im Programm laesst den Cursor beim Aufrufen des Editors in die  *)
(* Fehlerzeile springen": the line kept for the editor is the one a program*)
(* failed in last, through programs that run() or edit() others and whose  *)
(* errors come in between, and through all that run() then ran well, until *)
(* edit() runs one well.  The message must name the program itself, whose  *)
(* first line has no colon; if it has no two colons, the line is 1.        *)
ErrorLineKnown ==
    LET r == lastError.how IN
    /\ r = Success => fehlerZeile = 1
    /\ r # Success /\ r.chunk = lastError.text /\ Len(FirstLine[r.chunk]) = 1 => fehlerZeile = r.line
    /\ r # Success /\ Len(Message(r)) < 3 => fehlerZeile = 1

(* "F2 -> letzte Datei editieren (edit), F3 -> letzte Datei ausfuehren":   *)
(* the file these keys start is the one the name was set for.              *)
LastFileStarted ==
    [][\A op \in {"run", "edit"}, n \in Names : LastFileKey(op, n) => n = name.name]_vars

=============================================================================
