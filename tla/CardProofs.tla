----------------------------- MODULE CardProofs -----------------------------
(***************************************************************************)
(* What is left on the card.  First run(), edit() and the saving of files, *)
(* for every set of files, names and directories and every depth to which  *)
(* programs call each other; then the files of the sd library, for every   *)
(* card, number of slots and set of paths: a handle is good for its file   *)
(* and no slot is handed out twice.                                        *)
(***************************************************************************)
EXTENDS Session, SdFiles, Extrema, SequenceTheorems, TLAPS

USE SessionAssumption

(* What is written is what the user wanted saved, and goes to a file.      *)
SavesWhatWasAsked ==
    frames # <<>> =>
        /\ Top.at \in {"menu", "save", "write"} /\ Top.path \in Paths => asked[Top.path] = textBuffer
        /\ Top.at \in {"menu", "write"} => Top.path # NoPath

ErrorTyped == lastError \in [text : Contents, how : Failures \cup {Success}]

Inv == /\ TypeOK /\ ErrorTyped /\ SavesWhatWasAsked
       /\ TitleNamesFile /\ FilesKeepSavedText /\ ErrorLineKnown

-----------------------------------------------------------------------------
(* The calls under way. *)

Ats == {"editor", "menu", "save", "write", "program"}

(* A call begins: Lua runs, all the other calls are programs.              *)
LEMMA Pushed ==
    ASSUME TypeOK, LuaRuns, Depth < MaxDepth, NEW f \in Frame, frames' = Append(frames, f)
    PROVE  /\ frames' \in Seq(Frame) /\ frames' # <<>>
           /\ Depth \in Nat /\ Depth' = Depth + 1 /\ Depth' <= MaxDepth
           /\ Top' = f /\ frames'[Depth'] = f
           /\ \A d \in 1 .. Depth : frames'[d] = frames[d] /\ frames'[d].at = "program"
<1>1. frames \in Seq(Frame) /\ Depth \in Nat
  BY DEF TypeOK, Depth
<1>2. /\ frames' \in Seq(Frame) /\ Len(frames') = Depth + 1 /\ frames'[Depth + 1] = f
      /\ \A d \in 1 .. Depth : frames'[d] = frames[d]
  BY <1>1, AppendProperties DEF Depth
<1>3. frames' # <<>> /\ Depth' = Depth + 1 /\ Top' = f
  BY <1>1, <1>2 DEF Depth, Top
<1>4. ASSUME NEW d \in 1 .. Depth
      PROVE  frames[d].at = "program"
  <2>1. d \in 1 .. Depth - 1 \/ d = Depth
    BY <1>1
  <2>2. d = Depth => frames[d].at = "program"
    BY <1>1 DEF LuaRuns, AtTop, Top, Depth
  <2> QED
    BY <2>1, <2>2 DEF TypeOK
<1>5. Depth + 1 <= MaxDepth
  BY <1>1
<1> QED
  BY <1>1, <1>2, <1>3, <1>4, <1>5

(* A call ends.                                                            *)
LEMMA Popped ==
    ASSUME TypeOK, frames # <<>>, frames' = SubSeq(frames, 1, Depth - 1)
    PROVE  /\ frames' \in Seq(Frame)
           /\ Depth \in Nat \ {0} /\ Depth' = Depth - 1 /\ Depth' <= MaxDepth
           /\ \A d \in 1 .. Depth - 1 : frames'[d] = frames[d] /\ frames'[d].at = "program"
           /\ frames' # <<>> => Top'.at = "program"
<1>1. frames \in Seq(Frame) /\ Depth \in Nat \ {0} /\ Depth <= MaxDepth
  BY DEF TypeOK, Depth
<1>2. /\ frames' \in Seq(Frame) /\ Len(frames') = Depth - 1
      /\ \A d \in 1 .. Depth - 1 : frames'[d] = frames[d]
  <2> DEFINE k == Depth - 1
             s == SubSeq(frames, 1, k)
  <2>1. k \in Nat /\ k <= Depth /\ \A d \in 1 .. k : frames[d] \in Frame
    BY <1>1 DEF Depth
  <2>2. frames' = s
    OBVIOUS
  <2> HIDE DEF k
  <2>3. s \in Seq(Frame) /\ Len(s) = k /\ \A d \in 1 .. k : s[d] = frames[d]
    BY <2>1, SubSeqProperties
  <2> QED
    BY <2>2, <2>3 DEF k
<1>3. \A d \in 1 .. Depth - 1 : frames[d].at = "program"
  BY DEF TypeOK
<1>4. frames' # <<>> => Depth - 1 \in 1 .. Depth - 1
  BY <1>1, <1>2
<1>5. Top' = frames'[Depth - 1] /\ Depth' = Depth - 1
  BY <1>2 DEF Top, Depth
<1> QED
  BY <1>1, <1>2, <1>3, <1>4, <1>5

(* The call on top goes on.                                                *)
LEMMA Changed ==
    ASSUME TypeOK, frames # <<>>, NEW f \in Frame, f.name = Top.name,
           frames' = [frames EXCEPT ![Depth] = f]
    PROVE  /\ frames' \in Seq(Frame) /\ frames' # <<>>
           /\ Depth \in Nat \ {0} /\ Depth' = Depth /\ Top' = f
           /\ \A d \in 1 .. Depth - 1 : frames'[d] = frames[d]
           /\ \A d \in 1 .. Depth : frames'[d].name = frames[d].name
<1>1. frames \in Seq(Frame) /\ Depth \in Nat \ {0} /\ frames \in [1 .. Depth -> Frame]
  BY DEF TypeOK, Depth
<1>2. frames' \in [1 .. Depth -> Frame] /\ frames' \in Seq(Frame) /\ Len(frames') = Depth
  BY <1>1
<1>3. frames'[Depth] = f /\ \A d \in 1 .. Depth - 1 : frames'[d] = frames[d]
  BY <1>1
<1>4. Depth' = Depth /\ Top' = f /\ frames' # <<>>
  BY <1>1, <1>2, <1>3 DEF Depth, Top
<1>5. \A d \in 1 .. Depth : d \in 1 .. Depth - 1 \/ d = Depth
  BY <1>1
<1> QED
  BY <1>1, <1>2, <1>3, <1>4, <1>5 DEF Top

(* Going to another place in the call on top.                              *)
LEMMA Moved ==
    ASSUME TypeOK, frames # <<>>, NEW to \in Ats, Goto(to)
    PROVE  /\ frames' \in Seq(Frame) /\ frames' # <<>>
           /\ Depth \in Nat \ {0} /\ Depth' = Depth
           /\ Top'.at = to /\ Top'.path = Top.path /\ Top'.name = Top.name
           /\ \A d \in 1 .. Depth - 1 : frames'[d] = frames[d]
           /\ \A d \in 1 .. Depth : frames'[d].name = frames[d].name
<1> DEFINE f == [Top EXCEPT !.at = to]
<1>1. Top \in Frame
  BY DEF TypeOK, Top, Depth
<1>2. f \in Frame /\ f.name = Top.name /\ f.path = Top.path /\ f.at = to
  BY <1>1 DEF Frame, Ats
<1>3. frames' = [frames EXCEPT ![Depth] = f]
  BY DEF Goto, Top
<1> HIDE DEF f
<1> QED
  BY <1>2, <1>3, Changed

-----------------------------------------------------------------------------
(* The pointer to the name. *)

PointerOK(p) == p \in Pointers \cup {NoName}

(* A collection frees no string of a call that is under way.               *)
LEMMA CollectionKeepsNames ==
    ASSUME NEW p, PointerOK(p), NEW q \in Collected(p)
    PROVE  /\ PointerOK(q) /\ (q = NoName <=> p = NoName)
           /\ q # NoName => /\ q.name = p.name /\ q.owner = p.owner /\ q.owner \in Nat
                            /\ q.owner > 0 => q.freed = p.freed
<1>1. CASE p = NoName
  BY <1>1 DEF Collected, PointerOK
<1>2. CASE p # NoName
  <2>1. p \in Pointers
    BY <1>2 DEF PointerOK
  <2>2. [p EXCEPT !.freed = TRUE] \in Pointers
    BY <2>1 DEF Pointers
  <2>3. q = p \/ (q = [p EXCEPT !.freed = TRUE] /\ p.owner = 0)
    BY DEF Collected
  <2>4. CASE q = p
    BY <1>2, <2>1, <2>4 DEF Pointers, PointerOK
  <2>5. CASE q = [p EXCEPT !.freed = TRUE] /\ p.owner = 0
    <3>1. q.name = p.name /\ q.owner = p.owner /\ q.owner \in Nat /\ ~(q.owner > 0)
      BY <2>1, <2>5 DEF Pointers
    <3>2. q \in Pointers /\ q # NoName
      BY <2>2, <2>5
    <3> QED
      BY <1>2, <3>1, <3>2 DEF PointerOK
  <2> QED
    BY <2>3, <2>4, <2>5
<1> QED
  BY <1>1, <1>2

(* The name as it is left to the calls below the one that returns.         *)
NameFits(p, fs, n) ==
    /\ PointerOK(p)
    /\ p # NoName => /\ p.owner <= n
                     /\ p.owner > 0 => ~p.freed /\ fs[p.owner].name = p.name

LEMMA ReturnKeepsName ==
    ASSUME TypeOK, frames # <<>>, Return
    PROVE  NameFits(name', frames', Depth')
<1>1. PICK p \in Collected(name) : name' = LeftBy(p, Depth)
  BY DEF Return
<1>2. /\ Depth \in Nat \ {0} /\ Depth' = Depth - 1
      /\ \A d \in 1 .. Depth - 1 : frames'[d] = frames[d]
  BY Popped DEF Return
<1>3. PointerOK(name)
  BY DEF TypeOK, PointerOK
<1>4. /\ PointerOK(p) /\ (p = NoName <=> name = NoName)
      /\ p # NoName => /\ p.name = name.name /\ p.owner = name.owner /\ p.owner \in Nat
                       /\ p.owner > 0 => p.freed = name.freed
  BY <1>1, <1>3, CollectionKeepsNames
<1>5. CASE p = NoName
  BY <1>1, <1>4, <1>5 DEF LeftBy, NameFits
<1>6. CASE p # NoName /\ p.owner = Depth
  <2>1. name' = [p EXCEPT !.owner = 0]
    BY <1>1, <1>6 DEF LeftBy
  <2>2. name' \in Pointers /\ name'.owner = 0
    BY <1>4, <1>6, <2>1 DEF PointerOK, Pointers
  <2> QED
    BY <1>2, <2>2 DEF NameFits, PointerOK
<1>7. CASE p # NoName /\ p.owner # Depth
  <2>1. name' = p
    BY <1>1, <1>7 DEF LeftBy
  <2>2. p.owner <= Depth - 1
    BY <1>2, <1>4, <1>7 DEF TypeOK
  <2>3. p.owner > 0 => frames'[p.owner].name = p.name /\ ~p.freed
    BY <1>2, <1>4, <1>7, <2>2 DEF TypeOK
  <2> QED
    BY <1>2, <1>4, <2>1, <2>2, <2>3 DEF NameFits
<1> QED
  BY <1>5, <1>6, <1>7

(* A call that begins sets the name to its argument.                       *)
LEMMA NewNameFits ==
    ASSUME TypeOK, LuaRuns, Depth < MaxDepth, NEW f \in Frame, frames' = Append(frames, f),
           name' = NameOf(f.name)
    PROVE  NameFits(name', frames', Depth') /\ name' # NoName /\ ~name'.freed
           /\ name'.owner = Depth' /\ name'.name = f.name
<1>1. Depth \in Nat /\ Depth' = Depth + 1 /\ frames'[Depth'] = f
  BY Pushed
<1>2. f.name \in Names
  BY DEF Frame
<1>3. name' \in Pointers /\ name'.owner = Depth' /\ name'.name = f.name /\ name'.freed = FALSE
  BY <1>1, <1>2 DEF NameOf, Pointers
<1>4. name' # NoName
  BY <1>3
<1>5. frames'[name'.owner].name = name'.name
  BY <1>1, <1>3
<1>6. name'.owner <= Depth'
  BY <1>1, <1>3
<1>7. PointerOK(name')
  BY <1>3 DEF PointerOK
<1>8. NameFits(name', frames', Depth')
  BY <1>3, <1>5, <1>6, <1>7 DEF NameFits
<1> QED
  BY <1>3, <1>4, <1>8

(* A collection while Lua runs, or a command that fails.                   *)
LEMMA CollectedNameFits ==
    ASSUME TypeOK, NEW old \in {name, NoName}, name' \in Collected(old), frames' = frames
    PROVE  NameFits(name', frames', Depth')
<1>1. Depth' = Depth /\ Depth \in Nat
  BY DEF Depth, TypeOK
<1>2. PointerOK(old) /\ PointerOK(name)
  BY DEF TypeOK, PointerOK
<1>3. /\ PointerOK(name') /\ (name' = NoName <=> old = NoName)
      /\ name' # NoName => /\ name'.name = old.name /\ name'.owner = old.owner /\ name'.owner \in Nat
                           /\ name'.owner > 0 => name'.freed = old.freed
  BY <1>2, CollectionKeepsNames
<1>4. CASE name' = NoName
  BY <1>3, <1>4 DEF NameFits
<1>5. CASE name' # NoName
  <2>1. old = name /\ name # NoName
    BY <1>3, <1>5
  <2> QED
    BY <1>1, <1>3, <1>5, <2>1 DEF NameFits, TypeOK
<1> QED
  BY <1>4, <1>5

-----------------------------------------------------------------------------
(* The steps. *)

(* Run() and edit() that fail.                                             *)
LEMMA RunFailsKeeps ==
    ASSUME Inv, LuaRuns, NEW n \in Names, NEW old \in {name, NoName}, RunFails(n, old)
    PROVE  Inv'
<1>1. TypeOK
  BY DEF Inv
<1>2. frames' = frames /\ card' = card /\ asked' = asked /\ harmed' = harmed
  BY DEF RunFails, files
<1>3. Depth' = Depth /\ Top' = Top
  BY <1>2 DEF Depth, Top
<1>4. NameFits(name', frames', Depth')
  BY <1>1, <1>2, CollectedNameFits DEF RunFails
<1>5. TypeOK'
  BY <1>1, <1>2, <1>3, <1>4 DEF RunFails, TypeOK, NameFits, PointerOK, Contents
<1>6. frames # <<>> => Top.at = "program"
  BY DEF LuaRuns, AtTop
<1>7. (SavesWhatWasAsked /\ TitleNamesFile)'
  BY <1>2, <1>3, <1>6 DEF SavesWhatWasAsked, TitleNamesFile
<1>8. FilesKeepSavedText'
  BY <1>2, <1>3, <1>6 DEF Inv, FilesKeepSavedText, Saving
<1>9. (ErrorTyped /\ ErrorLineKnown)'
  BY DEF Inv, RunFails, ErrorTyped, ErrorLineKnown
<1> QED
  BY <1>5, <1>7, <1>8, <1>9 DEF Inv

(* A call of run() or edit() begins.                                       *)
LEMMA CallKeeps ==
    ASSUME Inv, LuaRuns, Depth < MaxDepth, NEW f \in Frame, f.at \in {"program", "editor"},
           frames' = Append(frames, f), name' = NameOf(f.name), textBuffer' \in Contents,
           UNCHANGED <<workDir, fehlerZeile, lastError, card, asked, harmed>>
    PROVE  Inv'
<1>1. TypeOK
  BY DEF Inv
<1>2. /\ frames' \in Seq(Frame) /\ frames' # <<>>
      /\ Depth \in Nat /\ Depth' = Depth + 1 /\ Depth' <= MaxDepth
      /\ Top' = f
      /\ \A d \in 1 .. Depth : frames'[d] = frames[d] /\ frames'[d].at = "program"
  BY <1>1, Pushed
<1>3. /\ NameFits(name', frames', Depth') /\ name' # NoName /\ ~name'.freed
      /\ name'.owner = Depth' /\ name'.name = f.name
  BY <1>1, NewNameFits
<1>4. \A d \in 1 .. Depth' - 1 : frames'[d].at = "program"
  <2>1. Depth' - 1 = Depth
    BY <1>2
  <2> QED
    BY <1>2, <2>1
<1>5. TypeOK'
  BY <1>1, <1>2, <1>3, <1>4 DEF TypeOK, NameFits, PointerOK
<1>6. (SavesWhatWasAsked /\ TitleNamesFile)'
  BY <1>2, <1>3 DEF SavesWhatWasAsked, TitleNamesFile
<1>7. FilesKeepSavedText'
  <2>1. \A p \in Paths : ~Saving(p)
    BY DEF LuaRuns, AtTop, Saving
  <2> QED
    BY <2>1 DEF Inv, FilesKeepSavedText
<1>8. (ErrorTyped /\ ErrorLineKnown)'
  BY DEF Inv, ErrorTyped, ErrorLineKnown
<1> QED
  BY <1>5, <1>6, <1>7, <1>8 DEF Inv

LEMMA RunLoadsKeeps ==
    ASSUME Inv, LuaRuns, NEW n \in Names, RunLoads(n)
    PROVE  Inv'
<1> DEFINE path == RunPath(n)
           f == [op |-> "run", name |-> n, path |-> path, text |-> card[path], at |-> "program"]
<1>1. path \in Paths \cup {NoPath}
  BY DEF RunPath, Inv, TypeOK
<1>2. card[path] \in Contents /\ Depth < MaxDepth
  BY <1>1 DEF RunLoads, Inv, TypeOK
<1>3. /\ frames' = Append(frames, f) /\ textBuffer' = card[path] /\ name' = NameOf(n)
      /\ UNCHANGED <<workDir, fehlerZeile, lastError, card, asked, harmed>>
  BY DEF RunLoads, files
<1>4. f \in Frame /\ f.name = n /\ f.at = "program"
  BY <1>1, <1>2 DEF Frame
<1> HIDE DEF f, path
<1> QED
  BY <1>2, <1>3, <1>4, CallKeeps

LEMMA EditKeeps ==
    ASSUME Inv, LuaRuns, NEW n \in Names, Edit(n)
    PROVE  Inv'
<1> DEFINE path == PathOf[workDir, n]
           f == [op |-> "edit", name |-> n, path |-> path, text |-> Empty, at |-> "editor"]
<1>1. path \in Paths \cup {NoPath}
  BY DEF Inv, TypeOK
<1>2. textBuffer' \in Contents /\ Depth < MaxDepth
  <2>1. card[path] \in Contents \cup {NoFile} /\ Empty \in Contents
    BY <1>1 DEF Inv, TypeOK, Contents
  <2>2. Depth < MaxDepth /\ textBuffer' \in {Empty} \cup ({card[path]} \ {NoFile})
    BY DEF Edit
  <2> QED
    BY <2>1, <2>2
<1>3. /\ frames' = Append(frames, f) /\ name' = NameOf(n)
      /\ UNCHANGED <<workDir, fehlerZeile, lastError, card, asked, harmed>>
  BY DEF Edit, Editing, files
<1>4. f \in Frame /\ f.name = n /\ f.at = "editor"
  BY <1>1 DEF Frame, Contents
<1> HIDE DEF f, path
<1> QED
  BY <1>2, <1>3, <1>4, CallKeeps

(* Steps that leave the calls and the card alone.                          *)
LEMMA QuietKeeps ==
    ASSUME Inv, UNCHANGED <<frames, card, asked, harmed, fehlerZeile, lastError>>,
           workDir' \in Dirs, textBuffer' \in Contents,
           frames # <<>> /\ Top.at \in {"menu", "save", "write"} => textBuffer' = textBuffer,
           NameFits(name', frames', Depth'),
           frames # <<>> /\ Top.at # "program" => name' = name
    PROVE  Inv'
<1>1. Depth' = Depth /\ Top' = Top
  BY DEF Depth, Top
<1>2. TypeOK'
  BY <1>1 DEF Inv, TypeOK, NameFits, PointerOK
<1>3. (SavesWhatWasAsked /\ TitleNamesFile)'
  BY <1>1 DEF Inv, SavesWhatWasAsked, TitleNamesFile
<1>4. FilesKeepSavedText'
  BY <1>1 DEF Inv, FilesKeepSavedText, Saving
<1>5. (ErrorTyped /\ ErrorLineKnown)'
  BY DEF Inv, ErrorTyped, ErrorLineKnown
<1> QED
  BY <1>2, <1>3, <1>4, <1>5 DEF Inv

(* The name as it is fits the calls under way.                             *)
LEMMA NameFitsNow ==
    ASSUME Inv
    PROVE  NameFits(name, frames, Depth)
BY DEF Inv, TypeOK, NameFits, PointerOK

LEMMA QuietStepsKeep ==
    ASSUME Inv,
           \/ LastFileKeyError
           \/ \E d \in Dirs : ChangeDir(d)
           \/ CollectGarbage
           \/ \E t \in Texts : Type(t)
    PROVE  Inv'
<1>1. NameFits(name, frames, Depth) /\ TypeOK
  BY NameFitsNow DEF Inv
<1>2. frames' = frames => Depth' = Depth
  BY DEF Depth
<1>3. workDir \in Dirs /\ textBuffer \in Contents
  BY <1>1 DEF TypeOK
<1>4. CASE LastFileKeyError
  <2>1. NameFits(NoName, frames, Depth)
    BY DEF NameFits, PointerOK
  <2> QED
    BY <1>2, <1>3, <1>4, <2>1, QuietKeeps DEF LastFileKeyError, files
<1>5. CASE \E d \in Dirs : ChangeDir(d)
  BY <1>1, <1>2, <1>3, <1>5, QuietKeeps DEF ChangeDir, files
<1>6. CASE CollectGarbage
  <2>1. frames' = frames /\ name' \in Collected(name) /\ LuaRuns
    BY <1>6 DEF CollectGarbage
  <2>2. NameFits(name', frames', Depth')
    BY <1>1, <2>1, CollectedNameFits
  <2>3. frames # <<>> => Top.at = "program"
    BY <2>1 DEF LuaRuns, AtTop
  <2> QED
    BY <1>3, <1>6, <2>2, <2>3, QuietKeeps DEF CollectGarbage, files
<1>7. CASE \E t \in Texts : Type(t)
  <2>1. AtTop("editor") /\ textBuffer' \in Contents
    BY <1>7 DEF Type, Contents
  <2> QED
    BY <1>1, <1>2, <1>3, <1>7, <2>1, QuietKeeps DEF Type, AtTop, files
<1> QED
  BY <1>4, <1>5, <1>6, <1>7

(* A call of run() or edit() returns.                                      *)
LEMMA ReturnKeeps ==
    ASSUME Inv, frames # <<>>, Return, UNCHANGED <<card, workDir, textBuffer, asked>>,
           harmed' \subseteq Paths, harmed \subseteq harmed',
           fehlerZeile' \in Int, ErrorTyped', ErrorLineKnown',
           Top.at \in {"menu", "save", "write"} => \A p \in Paths : p = Top.path => p \in harmed'
    PROVE  Inv'
<1>1. TypeOK
  BY DEF Inv
<1>2. /\ frames' \in Seq(Frame)
      /\ Depth \in Nat \ {0} /\ Depth' = Depth - 1 /\ Depth' <= MaxDepth
      /\ \A d \in 1 .. Depth - 1 : frames'[d] = frames[d] /\ frames'[d].at = "program"
      /\ frames' # <<>> => Top'.at = "program"
  BY <1>1, Popped DEF Return
<1>3. NameFits(name', frames', Depth')
  BY <1>1, ReturnKeepsName
<1>4. \A d \in 1 .. Depth' - 1 : frames'[d].at = "program"
  BY <1>2
<1>5. TypeOK'
  BY <1>1, <1>2, <1>3, <1>4 DEF TypeOK, NameFits, PointerOK
<1>6. (SavesWhatWasAsked /\ TitleNamesFile)'
  BY <1>2 DEF SavesWhatWasAsked, TitleNamesFile
<1>7. FilesKeepSavedText'
  <2>1. \A p \in Paths : Saving(p) => p \in harmed'
    BY DEF Saving
  <2> QED
    BY <2>1 DEF Inv, FilesKeepSavedText
<1> QED
  BY <1>5, <1>6, <1>7 DEF Inv

(* The line that is read from a message is the one of the position it      *)
(* begins with, unless the line quoted there has a colon.                  *)
LEMMA ReportsLine ==
    ASSUME NEW r \in Failures
    PROVE  /\ Reported(r) \in Int
           /\ r.chunk # NoChunk /\ Len(FirstLine[r.chunk]) = 1 => Reported(r) = r.line
           /\ Len(Message(r)) < 3 => Reported(r) = 1
<1> DEFINE m == Message(r)
<1>1. r.chunk \in Contents \cup {NoChunk} /\ r.line \in Int /\ r.says \in Seq(Int) /\ Len(r.says) > 0
  <2>1. r.says \in Messages
    BY DEF Failures
  <2>2. r.says \in Seq(Int) /\ r.says # <<>>
    BY <2>1 DEF Messages
  <2> QED
    BY <2>2 DEF Failures
<1>2. CASE r.chunk = NoChunk
  <2>1. m \in Seq(Int)
    BY <1>1, <1>2 DEF Message
  <2>2. Len(m) >= 3 => m[2] \in Int
    BY <2>1
  <2> QED
    BY <1>2, <2>1, <2>2 DEF Reported
<1>3. CASE r.chunk # NoChunk
  <2> DEFINE q == FirstLine[r.chunk]
             n == <<r.line>>
  <2>1. q \in Seq(Int) /\ Len(q) >= 1
    <3>1. q \in Messages
      BY <1>1, <1>3
    <3> HIDE DEF q
    <3> QED
      BY <3>1 DEF Messages
  <2>2. n \in Seq(Int) /\ Len(n) = 1 /\ n[1] = r.line
    BY <1>1
  <2>3. m = (q \o n) \o r.says
    BY <1>3 DEF Message
  <2> HIDE DEF q, n, m
  <2>4. q \o n \in Seq(Int) /\ Len(q \o n) = Len(q) + 1 /\ (Len(q) = 1 => (q \o n)[2] = r.line)
    <3>1. /\ q \o n \in Seq(Int) /\ Len(q \o n) = Len(q) + Len(n)
          /\ \A i \in 1 .. Len(q) + Len(n) : (q \o n)[i] = IF i <= Len(q) THEN q[i] ELSE n[i - Len(q)]
      BY <2>1, <2>2, ConcatProperties
    <3> QED
      BY <2>1, <2>2, <3>1
  <2>5. m \in Seq(Int) /\ Len(m) >= 3 /\ m[2] = (q \o n)[2]
    <3> DEFINE e == q \o n
    <3>1. e \in Seq(Int) /\ Len(e) >= 2
      BY <2>1, <2>4
    <3> HIDE DEF e
    <3>2. /\ e \o r.says \in Seq(Int) /\ Len(e \o r.says) = Len(e) + Len(r.says)
          /\ \A i \in 1 .. Len(e) + Len(r.says) : (e \o r.says)[i] = IF i <= Len(e) THEN e[i] ELSE r.says[i - Len(e)]
      BY <1>1, <3>1, ConcatProperties
    <3>3. Len(r.says) \in Nat /\ Len(r.says) > 0
      BY <1>1
    <3>4. m = e \o r.says
      BY <2>3 DEF e
    <3>5. m \in Seq(Int) /\ Len(m) >= 3 /\ m[2] = e[2]
      BY <3>1, <3>2, <3>3, <3>4
    <3> QED
      BY <3>5 DEF e
  <2>6. Reported(r) = m[2] /\ ~(Len(Message(r)) < 3)
    <3>1. Message(r) = m /\ Len(m) \in Nat
      BY <2>5 DEF m
    <3>2. ~(Len(m) < 3)
      BY <2>5, <3>1
    <3> QED
      BY <3>1, <3>2 DEF Reported
  <2>7. m[2] \in Int /\ (Len(q) = 1 => m[2] = r.line)
    BY <2>1, <2>4, <2>5
  <2> QED
    BY <1>3, <2>6, <2>7 DEF q
<1> QED
  BY <1>2, <1>3

LEMMA ReturnsKeep ==
    ASSUME Inv, Quit \/ SaveFails \/ EndProgram
    PROVE  Inv'
<1>1. TypeOK /\ harmed \subseteq Paths /\ fehlerZeile \in Int
  BY DEF Inv, TypeOK
<1>2. CASE Quit
  <2>1. (ErrorTyped /\ ErrorLineKnown)'
    BY <1>2 DEF Inv, Quit, ErrorTyped, ErrorLineKnown
  <2> QED
    BY <1>1, <1>2, <2>1, ReturnKeeps DEF Quit, AtTop, files
<1>3. CASE SaveFails
  <2>1. (ErrorTyped /\ ErrorLineKnown)'
    BY <1>3 DEF Inv, SaveFails, ErrorTyped, ErrorLineKnown
  <2>2. harmed' \subseteq Paths /\ harmed \subseteq harmed' /\ \A p \in Paths : p = Top.path => p \in harmed'
    BY <1>1, <1>3 DEF SaveFails
  <2> QED
    BY <1>1, <1>3, <2>1, <2>2, ReturnKeeps DEF SaveFails, AtTop
<1>4. CASE EndProgram
  <2>1. Top \in Frame /\ frames # <<>> /\ Top.at = "program"
    BY <1>1, <1>4 DEF EndProgram, AtTop, TypeOK, Top, Depth
  <2>2. Top.text \in Contents
    BY <2>1 DEF Frame
  <2>3. PICK r \in Endings[Top.text] :
            /\ fehlerZeile' = LineAfter(Top.op, r)
            /\ lastError' = IF r = Success /\ Top.op = "run" THEN lastError ELSE [text |-> Top.text, how |-> r]
    BY <1>4 DEF EndProgram
  <2>4. r \in Failures \cup {Success} /\ Top.op \in {"run", "edit"}
    BY <2>1, <2>2 DEF Frame
  <2>5. fehlerZeile' \in Int /\ (ErrorTyped /\ ErrorLineKnown)'
    <3>1. CASE r \in Failures
      <4>1. fehlerZeile' = Reported(r) /\ lastError' = [text |-> Top.text, how |-> r] /\ r # Success
        BY <2>3, <3>1 DEF LineAfter
      <4> QED
        BY <2>2, <3>1, <4>1, ReportsLine DEF ErrorTyped, ErrorLineKnown
    <3>2. CASE r = Success /\ Top.op = "run"
      BY <1>1, <2>3, <3>2 DEF LineAfter, Inv, ErrorTyped, ErrorLineKnown
    <3>3. CASE r = Success /\ Top.op = "edit"
      <4>1. fehlerZeile' = 1 /\ lastError' = [text |-> Top.text, how |-> Success]
        BY <2>3, <3>3 DEF LineAfter
      <4> QED
        BY <2>2, <4>1 DEF ErrorTyped, ErrorLineKnown
    <3> QED
      BY <2>4, <3>1, <3>2, <3>3
  <2> QED
    BY <1>1, <1>4, <2>1, <2>5, ReturnKeeps DEF EndProgram, files
<1> QED
  BY <1>2, <1>3, <1>4

(* The call on top goes on in the editor, or from there to the program:    *)
(* what is written is the text that was asked for, or the write is harmed. *)
LEMMA GoesOnKeeps ==
    ASSUME Inv, frames # <<>>, Top.at # "program",
           frames' \in Seq(Frame), frames' # <<>>, Depth' = Depth,
           Top'.path = Top.path, Top'.name = Top.name,
           \A d \in 1 .. Depth - 1 : frames'[d] = frames[d],
           \A d \in 1 .. Depth : frames'[d].name = frames[d].name,
           UNCHANGED <<workDir, textBuffer, fehlerZeile, name, lastError>>,
           card' \in [Paths \cup {NoPath} -> Contents \cup {NoFile}], card'[NoPath] = NoFile,
           asked' \in [Paths -> Contents \cup {NoFile}], harmed' \subseteq Paths,
           SavesWhatWasAsked', FilesKeepSavedText'
    PROVE  Inv'
<1>1. TypeOK /\ Depth \in Nat \ {0}
  BY DEF Inv, TypeOK, Depth
<1>2. NameFits(name', frames', Depth')
  <2>1. name' = name /\ NameFits(name, frames, Depth)
    BY NameFitsNow
  <2>2. name # NoName /\ name.owner > 0 => name.owner \in 1 .. Depth
    BY <1>1 DEF TypeOK, Pointers
  <2> QED
    BY <2>1, <2>2 DEF NameFits
<1>3. TypeOK'
  BY <1>1, <1>2 DEF TypeOK, NameFits, PointerOK
<1>4. TitleNamesFile'
  BY DEF Inv, TitleNamesFile
<1>5. (ErrorTyped /\ ErrorLineKnown)'
  BY DEF Inv, ErrorTyped, ErrorLineKnown
<1> QED
  BY <1>3, <1>4, <1>5 DEF Inv

LEMMA SaveKeeps ==
    ASSUME Inv, Save
    PROVE  Inv'
<1>1. TypeOK /\ frames # <<>> /\ Top.at = "editor" /\ textBuffer \in Contents
  BY DEF Inv, Save, AtTop, TypeOK
<1>2. Top \in Frame
  BY <1>1 DEF TypeOK, Top, Depth
<1>3. asked' = [p \in Paths |-> IF p = Top.path THEN textBuffer ELSE asked[p]]
  BY DEF Save
<1>4. asked' \in [Paths -> Contents \cup {NoFile}]
  BY <1>1, <1>3 DEF TypeOK
<1>5. \A p \in Paths : p # Top.path => asked'[p] = asked[p]
  BY <1>3
<1>6. ASSUME NEW to \in {"save", "menu"}, Goto(to), to = "menu" => Top.path # NoPath,
             card' \in [Paths \cup {NoPath} -> Contents \cup {NoFile}], card'[NoPath] = NoFile,
             \A p \in Paths : p # Top.path => card'[p] = card[p]
      PROVE  Inv'
  <2>1. /\ frames' \in Seq(Frame) /\ frames' # <<>>
        /\ Depth \in Nat \ {0} /\ Depth' = Depth
        /\ Top'.at = to /\ Top'.path = Top.path /\ Top'.name = Top.name
        /\ \A d \in 1 .. Depth - 1 : frames'[d] = frames[d]
        /\ \A d \in 1 .. Depth : frames'[d].name = frames[d].name
    BY <1>1, <1>6, Moved DEF Ats
  <2>2. SavesWhatWasAsked'
    BY <1>3, <1>6, <2>1 DEF SavesWhatWasAsked, Save
  <2>3. FilesKeepSavedText'
    <3> SUFFICES ASSUME NEW p \in Paths, p \notin harmed', ~Saving(p)'
                 PROVE  card'[p] = asked'[p]
      BY DEF FilesKeepSavedText
    <3>1. p # Top.path
      BY <1>6, <2>1 DEF Saving
    <3>2. ~Saving(p) /\ p \notin harmed
      BY <3>1 DEF Saving, Save
    <3> QED
      BY <1>5, <1>6, <3>1, <3>2 DEF Inv, FilesKeepSavedText
  <2>4. UNCHANGED <<workDir, textBuffer, fehlerZeile, name, lastError>> /\ harmed' \subseteq Paths
    BY <1>1 DEF Save, TypeOK
  <2> QED
    BY <1>1, <1>4, <1>6, <2>1, <2>2, <2>3, <2>4, GoesOnKeeps
<1>7. CASE Goto("save") /\ UNCHANGED card
  BY <1>1, <1>6, <1>7 DEF TypeOK
<1>8. CASE Top.path # NoPath /\ Goto("menu") /\ Opened(Top.path)
  <2>1. card' = [card EXCEPT ![Top.path] = Empty]
    BY <1>8 DEF Opened
  <2>2. /\ card' \in [Paths \cup {NoPath} -> Contents \cup {NoFile}] /\ card'[NoPath] = NoFile
        /\ \A p \in Paths : p # Top.path => card'[p] = card[p]
    BY <1>1, <1>8, <2>1 DEF TypeOK, Contents
  <2> QED
    BY <1>6, <1>8, <2>2
<1> QED
  BY <1>7, <1>8 DEF Save

LEMMA SaveOpensKeeps ==
    ASSUME Inv, SaveOpens
    PROVE  Inv'
<1>1. TypeOK /\ frames # <<>> /\ Top.at = "save" /\ Top.path # NoPath
  BY DEF Inv, SaveOpens, AtTop
<1>2. Goto("write") /\ card' = [card EXCEPT ![Top.path] = Empty]
  BY DEF SaveOpens, Opened
<1>3. /\ frames' \in Seq(Frame) /\ frames' # <<>>
      /\ Depth \in Nat \ {0} /\ Depth' = Depth
      /\ Top'.at = "write" /\ Top'.path = Top.path /\ Top'.name = Top.name
      /\ \A d \in 1 .. Depth - 1 : frames'[d] = frames[d]
      /\ \A d \in 1 .. Depth : frames'[d].name = frames[d].name
  BY <1>1, <1>2, Moved DEF Ats
<1>4. /\ card' \in [Paths \cup {NoPath} -> Contents \cup {NoFile}] /\ card'[NoPath] = NoFile
      /\ \A p \in Paths : p # Top.path => card'[p] = card[p]
  BY <1>1, <1>2 DEF TypeOK, Contents
<1>5. UNCHANGED <<workDir, textBuffer, fehlerZeile, name, asked, harmed, lastError>>
  BY DEF SaveOpens
<1>6. SavesWhatWasAsked'
  BY <1>1, <1>3, <1>5 DEF Inv, SavesWhatWasAsked
<1>7. FilesKeepSavedText'
  BY <1>3, <1>4, <1>5 DEF Inv, FilesKeepSavedText, Saving
<1>8. asked' \in [Paths -> Contents \cup {NoFile}] /\ harmed' \subseteq Paths
  BY <1>1, <1>5 DEF TypeOK
<1> QED
  BY <1>1, <1>3, <1>4, <1>5, <1>6, <1>7, <1>8, GoesOnKeeps

(* What a write leaves in the file.                                        *)
LEMMA WritesOneFile ==
    ASSUME TypeOK, NEW path \in Paths, Writes(path)
    PROVE  /\ card' \in [Paths \cup {NoPath} -> Contents \cup {NoFile}] /\ card'[NoPath] = NoFile
           /\ harmed' \subseteq Paths
           /\ \A p \in Paths : p # path => card'[p] = card[p] /\ (p \in harmed' <=> p \in harmed)
           /\ path \notin harmed' => card'[path] = textBuffer
<1>1. PICK c \in {textBuffer, Cut} :
          /\ card' = [card EXCEPT ![path] = c]
          /\ harmed' = IF c = textBuffer THEN harmed \ {path} ELSE harmed \cup {path}
  BY DEF Writes
<1>2. c \in Contents
  BY DEF TypeOK, Contents
<1>3. CASE c = textBuffer
  BY <1>1, <1>2, <1>3 DEF TypeOK
<1>4. CASE c # textBuffer
  BY <1>1, <1>2, <1>4 DEF TypeOK
<1> QED
  BY <1>3, <1>4

LEMMA WritesKeep ==
    ASSUME Inv, MenuWrites \/ SaveWrites
    PROVE  Inv'
<1>1. TypeOK /\ frames # <<>> /\ Top.at \in {"menu", "write"} /\ textBuffer \in Contents
  BY DEF Inv, TypeOK, MenuWrites, SaveWrites, AtTop
<1>2. Top \in Frame
  BY <1>1 DEF TypeOK, Top, Depth
<1>3. Top.path \in Paths
  BY <1>1, <1>2 DEF Inv, SavesWhatWasAsked, Frame
<1>4. UNCHANGED <<workDir, textBuffer, fehlerZeile, name, asked, lastError>> /\ Writes(Top.path)
  BY DEF MenuWrites, SaveWrites
<1>5. /\ card' \in [Paths \cup {NoPath} -> Contents \cup {NoFile}] /\ card'[NoPath] = NoFile
      /\ harmed' \subseteq Paths
      /\ \A p \in Paths : p # Top.path => card'[p] = card[p] /\ (p \in harmed' <=> p \in harmed)
      /\ Top.path \notin harmed' => card'[Top.path] = textBuffer
  BY <1>1, <1>3, <1>4, WritesOneFile
<1>6. /\ frames' \in Seq(Frame) /\ frames' # <<>>
      /\ Depth \in Nat \ {0} /\ Depth' = Depth
      /\ Top'.at \in {"save", "program"} /\ Top'.path = Top.path /\ Top'.name = Top.name
      /\ \A d \in 1 .. Depth - 1 : frames'[d] = frames[d]
      /\ \A d \in 1 .. Depth : frames'[d].name = frames[d].name
  <2>1. CASE MenuWrites
    BY <1>1, <2>1, Moved DEF MenuWrites, Ats
  <2>2. CASE SaveWrites
    <3> DEFINE f == [Top EXCEPT !.at = "program", !.text = textBuffer]
    <3>1. f \in Frame /\ f.name = Top.name /\ f.path = Top.path /\ f.at = "program"
      BY <1>1, <1>2 DEF Frame
    <3>2. frames' = [frames EXCEPT ![Depth] = f]
      BY <1>1, <2>2 DEF SaveWrites, Top, TypeOK, Depth
    <3> HIDE DEF f
    <3> QED
      BY <1>1, <3>1, <3>2, Changed
  <2> QED
    BY <2>1, <2>2
<1>7. SavesWhatWasAsked'
  BY <1>1, <1>4, <1>6 DEF Inv, SavesWhatWasAsked
<1>8. FilesKeepSavedText'
  <2> SUFFICES ASSUME NEW p \in Paths, p \notin harmed'
               PROVE  card'[p] = asked'[p]
    BY DEF FilesKeepSavedText
  <2>1. CASE p = Top.path
    BY <1>1, <1>3, <1>4, <1>5, <2>1 DEF Inv, SavesWhatWasAsked
  <2>2. CASE p # Top.path
    <3>1. ~Saving(p) /\ p \notin harmed
      BY <1>5, <2>2 DEF Saving
    <3> QED
      BY <1>4, <1>5, <2>2, <3>1 DEF Inv, FilesKeepSavedText
  <2> QED
    BY <2>1, <2>2
<1>9. asked' \in [Paths -> Contents \cup {NoFile}]
  BY <1>1, <1>4 DEF TypeOK
<1> QED
  BY <1>1, <1>4, <1>5, <1>6, <1>7, <1>8, <1>9, GoesOnKeeps

(* The power goes.                                                         *)
LEMMA CrashKeeps ==
    ASSUME Inv, Crash
    PROVE  Inv'
<1>1. TypeOK
  BY DEF Inv
<1>2. PICK c \in Contents : card' = [p \in DOMAIN card |-> IF p \in Written THEN c ELSE card[p]]
  BY DEF Crash
<1>3. Written \subseteq Paths
  <2>1. frames # <<>> => Top \in Frame
    BY <1>1 DEF TypeOK, Top, Depth
  <2>2. (AtTop("menu") \/ AtTop("write")) => Top.path \in Paths
    BY <2>1 DEF Inv, SavesWhatWasAsked, AtTop, Frame
  <2> QED
    BY <2>2 DEF Written
<1>4. /\ card' \in [Paths \cup {NoPath} -> Contents \cup {NoFile}] /\ card'[NoPath] = NoFile
      /\ \A p \in Paths : p \notin Written => card'[p] = card[p]
  BY <1>1, <1>2, <1>3 DEF TypeOK
<1>5. /\ frames' = <<>> /\ name' = NoName /\ workDir' = Home /\ textBuffer' = Empty
      /\ fehlerZeile' = 1 /\ asked' = asked /\ lastError' = [text |-> Empty, how |-> Success]
  BY DEF Crash, NoError
<1>6. Depth' = 0
  BY <1>5 DEF Depth
<1>7. harmed' \subseteq Paths /\ harmed \subseteq harmed' /\ Written \subseteq harmed'
      /\ \A p \in Paths : Saving(p) => p \in harmed'
  BY <1>1, <1>3 DEF Crash, TypeOK, Saving, AtTop, Written
<1>8. TypeOK'
  BY <1>1, <1>4, <1>5, <1>6, <1>7 DEF TypeOK, Contents
<1>9. (SavesWhatWasAsked /\ TitleNamesFile)'
  BY <1>5 DEF SavesWhatWasAsked, TitleNamesFile
<1>10. FilesKeepSavedText'
  BY <1>4, <1>5, <1>7 DEF Inv, FilesKeepSavedText
<1>11. (ErrorTyped /\ ErrorLineKnown)'
  BY <1>5 DEF ErrorTyped, ErrorLineKnown, Contents
<1> QED
  BY <1>8, <1>9, <1>10, <1>11 DEF Inv

-----------------------------------------------------------------------------
LEMMA InvInit == Init => Inv
<1> SUFFICES ASSUME Init
             PROVE  Inv
  OBVIOUS
<1>1. /\ card = Saved /\ workDir = Home /\ textBuffer = Empty /\ fehlerZeile = 1
      /\ name = NoName /\ frames = <<>> /\ asked = [p \in Paths |-> card[p]] /\ harmed = {}
      /\ lastError = [text |-> Empty, how |-> Success]
  BY DEF Init, NoError
<1>2. frames \in Seq(Frame) /\ Depth = 0
  BY <1>1 DEF Depth
<1>3. TypeOK
  BY <1>1, <1>2 DEF TypeOK, Contents
<1> QED
  BY <1>1, <1>3 DEF Inv, ErrorTyped, SavesWhatWasAsked, TitleNamesFile, FilesKeepSavedText,
                    ErrorLineKnown, Contents

LEMMA InvStep == Inv /\ [Next]_vars => Inv'
<1> SUFFICES ASSUME Inv, [Next]_vars
             PROVE  Inv'
  OBVIOUS
<1>1. ASSUME NEW n \in Names, Command(n)
      PROVE  Inv'
  BY <1>1, RunFailsKeeps, RunLoadsKeeps, EditKeeps DEF Command, Run
<1>2. ASSUME NEW n \in Names, NEW op \in {"run", "edit"}, LastFileKey(op, n)
      PROVE  Inv'
  <2>1. LuaRuns
    BY <1>2 DEF LastFileKey, LuaRuns
  <2> QED
    BY <1>2, <2>1, RunFailsKeeps, RunLoadsKeeps, EditKeeps DEF LastFileKey, Run
<1>3. CASE LastFileKeyError \/ (\E d \in Dirs : ChangeDir(d)) \/ CollectGarbage \/ (\E t \in Texts : Type(t))
  BY <1>3, QuietStepsKeep
<1>4. CASE Quit \/ SaveFails \/ EndProgram
  BY <1>4, ReturnsKeep
<1>5. CASE Save \/ SaveOpens \/ MenuWrites \/ SaveWrites
  BY <1>5, SaveKeeps, SaveOpensKeeps, WritesKeep
<1>6. CASE Crash
  BY <1>6, CrashKeeps
<1>7. CASE UNCHANGED vars
  <2>1. Depth' = Depth /\ Top' = Top
    BY <1>7 DEF vars, Depth, Top
  <2> QED
    BY <1>7, <2>1 DEF vars, Inv, TypeOK, ErrorTyped, SavesWhatWasAsked, TitleNamesFile,
                      FilesKeepSavedText, Saving, ErrorLineKnown
<1> QED
  BY <1>1, <1>2, <1>3, <1>4, <1>5, <1>6, <1>7 DEF Next, Prompt, InEditor

LEMMA InvAlways == Spec => []Inv
BY InvInit, InvStep, PTL DEF Spec

(* The state has its types; nothing is written where there is no directory,*)
(* and no string is freed while the call it was passed to is under way.    *)
THEOREM SessionTypeCorrect == Spec => []TypeOK
<1>1. Inv => TypeOK
  BY DEF Inv
<1> QED
  BY <1>1, InvAlways, PTL

(* The title line of the editor names the file that is edited.             *)
THEOREM SessionTitleRight == Spec => []TitleNamesFile
<1>1. Inv => TitleNamesFile
  BY DEF Inv
<1> QED
  BY <1>1, InvAlways, PTL

(* A file holds what the user last wanted saved in it, unless a write of   *)
(* it failed or the power went during one.                                 *)
THEOREM SessionKeepsFiles == Spec => []FilesKeepSavedText
<1>1. Inv => FilesKeepSavedText
  BY DEF Inv
<1> QED
  BY <1>1, InvAlways, PTL

(* The line kept for the editor is the one a program failed in last, if its*)
(* message names the program itself, whose first line has no colon; it is  *)
(* line 1 if the message has no two colons.                                *)
THEOREM SessionErrorLine == Spec => []ErrorLineKnown
<1>1. Inv => ErrorLineKnown
  BY DEF Inv
<1> QED
  BY <1>1, InvAlways, PTL

-----------------------------------------------------------------------------
(* The files of the sd library. *)

HIDE SessionAssumption
USE SdFilesAssumption

-----------------------------------------------------------------------------
(* What a file may hold. *)

LEMMA FileContentsAreSequences ==
    ASSUME NEW s
    PROVE  s \in FileContents <=> s \in Seq(Bytes) /\ Len(s) <= MaxSize
<1>1. ASSUME s \in FileContents
      PROVE  s \in Seq(Bytes) /\ Len(s) <= MaxSize
  <2>1. PICK m \in 0 .. MaxSize : s \in [1 .. m -> Bytes]
    BY <1>1 DEF FileContents, SeqOf
  <2> QED
    BY <2>1
<1>2. ASSUME s \in Seq(Bytes), Len(s) <= MaxSize
      PROVE  s \in FileContents
  <2>1. Len(s) \in 0 .. MaxSize /\ s \in [1 .. Len(s) -> Bytes]
    BY <1>2
  <2> QED
    BY <2>1 DEF FileContents, SeqOf
<1> QED
  BY <1>1, <1>2

(* A beginning of a file.                                                  *)
LEMMA BeginningOfFile ==
    ASSUME NEW s \in FileContents, NEW n \in 0 .. Len(s)
    PROVE  SubSeq(s, 1, n) \in FileContents
<1> DEFINE w == SubSeq(s, 1, n)
<1>1. s \in Seq(Bytes) /\ Len(s) <= MaxSize /\ n \in Nat /\ n <= Len(s)
  BY FileContentsAreSequences
<1>2. w \in Seq(Bytes) /\ Len(w) = n
  BY <1>1
<1> HIDE DEF w
<1>3. w \in FileContents
  BY <1>1, <1>2, FileContentsAreSequences
<1> QED
  BY <1>3 DEF w

LEMMA EmptyFile == <<>> \in FileContents
<1> DEFINE w == <<>>
<1>1. w \in Seq(Bytes) /\ Len(w) = 0
  OBVIOUS
<1> HIDE DEF w
<1>2. Len(w) <= MaxSize
  BY <1>1
<1>3. w \in FileContents
  BY ONLY <1>1, <1>2, FileContentsAreSequences
<1> QED
  BY <1>3 DEF w

LEMMA ChangedFile ==
    ASSUME NEW s \in FileContents, NEW b \in Bytes
    PROVE  /\ \A k \in 1 .. Len(s) : [s EXCEPT ![k] = b] \in FileContents
           /\ Len(s) < MaxSize => Append(s, b) \in FileContents
<1>1. s \in Seq(Bytes) /\ Len(s) <= MaxSize /\ Len(s) \in Nat
  BY FileContentsAreSequences
<1>2. ASSUME NEW k \in 1 .. Len(s)
      PROVE  [s EXCEPT ![k] = b] \in FileContents
  <2> DEFINE w == [s EXCEPT ![k] = b]
  <2>1. w \in Seq(Bytes) /\ Len(w) = Len(s)
    BY <1>1
  <2> HIDE DEF w
  <2>2. w \in FileContents
    BY <1>1, <2>1, FileContentsAreSequences
  <2> QED
    BY <2>2 DEF w
<1>3. ASSUME Len(s) < MaxSize
      PROVE  Append(s, b) \in FileContents
  <2> DEFINE w == Append(s, b)
  <2>1. w \in Seq(Bytes) /\ Len(w) = Len(s) + 1
    BY <1>1
  <2> HIDE DEF w
  <2>2. w \in FileContents
    BY <1>1, <1>3, <2>1, FileContentsAreSequences
  <2> QED
    BY <2>2 DEF w
<1> QED
  BY <1>2, <1>3

-----------------------------------------------------------------------------
(* The invariant. *)

SdTypeOK ==
    /\ disk \in [Places -> FileContents \cup {Dir, NoneThere}]
    /\ openFiles \in [Slots -> OpenFiles \cup {NoneThere}]
    /\ held \subseteq Slots \X (Places \cup {<<>>})
    /\ leftOpen \subseteq Slots

SdInv == SdTypeOK /\ HandlesKeepTheirFile

(* get_free_file_slot finds a free slot if there is one.                   *)
LEMMA FreeSlotIsFree ==
    get_free_file_slot = -1 \/ get_free_file_slot \in FreeSlots
<1>1. FreeSlots \in SUBSET Nat
  BY DEF FreeSlots, Slots
<1>2. CASE FreeSlots = {}
  BY <1>2 DEF get_free_file_slot
<1>3. CASE FreeSlots # {}
  <2>1. \E x \in FreeSlots : \A y \in FreeSlots : x <= y
    BY <1>1, <1>3, MinOfNat
  <2> DEFINE S == FreeSlots
             x == CHOOSE x \in S : \A y \in S : x <= y
  <2>2. x \in S
    <3> HIDE DEF S
    <3>1. \E z \in S : \A y \in S : z <= y
      BY <2>1 DEF S
    <3> QED
      BY <3>1
  <2> QED
    BY <1>3, <2>2 DEF get_free_file_slot
<1> QED
  BY <1>2, <1>3

(* What is at a place where a file can be opened, and the names of places. *)
LEMMA OpensAtPlaces ==
    ASSUME NEW p, NEW mode \in OpenModes, Opens(p, mode)
    PROVE  p \in Places \cup {<<>>} /\ (~IsDir(p) => p \in Places)
BY DEF Opens, Exists, IsDir, IsFile, CanCreate

(* Steps that touch no slot.                                               *)
LEMMA SlotsKept ==
    ASSUME SdInv, UNCHANGED <<openFiles, held, leftOpen>>,
           disk' \in [Places -> FileContents \cup {Dir, NoneThere}]
    PROVE  SdInv'
BY DEF SdInv, SdTypeOK, HandlesKeepTheirFile

(* Steps in one slot that is in use.                                       *)
LEMMA SlotChanged ==
    ASSUME SdInv, NEW h, Valid(h), NEW f \in OpenFiles, f.at = openFiles[h].at,
           openFiles' = [openFiles EXCEPT ![h] = f], UNCHANGED <<held, leftOpen>>,
           disk' \in [Places -> FileContents \cup {Dir, NoneThere}]
    PROVE  SdInv'
<1>1. h \in Slots /\ openFiles \in [Slots -> OpenFiles \cup {NoneThere}] /\ openFiles[h] # NoneThere
  BY DEF Valid, SdInv, SdTypeOK
<1>2. openFiles' \in [Slots -> OpenFiles \cup {NoneThere}]
  BY <1>1
<1>3. \A s \in Slots : /\ openFiles'[s] # NoneThere <=> openFiles[s] # NoneThere
                       /\ openFiles'[s].at = openFiles[s].at
  BY <1>1
<1>4. {s \in Slots : openFiles'[s] # NoneThere} = {s \in Slots : openFiles[s] # NoneThere}
  BY <1>3
<1>5. \A e \in held : e[1] \in Slots
  BY DEF SdInv, SdTypeOK
<1>6. HandlesKeepTheirFile'
  BY <1>3, <1>4, <1>5 DEF SdInv, HandlesKeepTheirFile
<1> QED
  BY <1>2, <1>6 DEF SdInv, SdTypeOK

-----------------------------------------------------------------------------
(* The steps. *)

(* Commands on files and directories touch no slot.                        *)
LEMMA CommandsKeep ==
    ASSUME SdInv,
           \/ \E a \in DirArgs : Cd(a)
           \/ \E a \in FileArgs : RemoveFile(a)
           \/ \E a \in NewDirArgs : Mkdir(a) \/ Rmdir(a)
           \/ \E a, b \in FileArgs : Copy(a, b) \/ Rename(a, b)
           \/ Mount
    PROVE  SdInv'
<1> DEFINE Disks == [Places -> FileContents \cup {Dir, NoneThere}]
<1>1. disk \in Disks
  BY DEF SdInv, SdTypeOK
<1>2. UNCHANGED <<openFiles, held, leftOpen>>
  BY DEF Cd, RemoveFile, Mkdir, Rmdir, Copy, Rename, Mount, handles
<1>3. ASSUME NEW a \in DirArgs, Cd(a)
      PROVE  disk' \in Disks
  BY <1>1, <1>3 DEF Cd
<1>4. ASSUME NEW a \in FileArgs, RemoveFile(a)
      PROVE  disk' \in Disks
  BY <1>1, <1>4 DEF RemoveFile
<1>5. ASSUME NEW a \in NewDirArgs, Mkdir(a) \/ Rmdir(a)
      PROVE  disk' \in Disks
  BY <1>1, <1>5 DEF Mkdir, Rmdir
<1>6. ASSUME NEW a \in FileArgs, NEW b \in FileArgs, Copy(a, b)
      PROVE  disk' \in Disks
  <2> DEFINE p == Target(a)
             q == Target(b)
             source == IF IsFile(p) THEN disk[p] ELSE <<>>
  <2>1. disk' \in CopyResult(p, q)
    BY <1>6 DEF Copy
  <2>2. source \in FileContents
    BY EmptyFile DEF IsFile
  <2>3. disk' = disk \/ \E c \in {<<>>, NoneThere} \cup {SubSeq(source, 1, n) : n \in 0 .. Len(source)} :
                           disk' = [disk EXCEPT ![q] = c]
    BY <2>1 DEF CopyResult
  <2> HIDE DEF p, q, source
  <2>4. CASE disk' = disk
    BY <1>1, <2>4
  <2>5. CASE \E c \in {<<>>, NoneThere} \cup {SubSeq(source, 1, n) : n \in 0 .. Len(source)} :
               disk' = [disk EXCEPT ![q] = c]
    <3>1. PICK c \in {<<>>, NoneThere} \cup {SubSeq(source, 1, n) : n \in 0 .. Len(source)} :
              disk' = [disk EXCEPT ![q] = c]
      BY <2>5
    <3>2. c \in FileContents \cup {NoneThere}
      BY <2>2, <3>1, EmptyFile, BeginningOfFile
    <3> QED
      BY <1>1, <3>1, <3>2
  <2> QED
    BY <2>3, <2>4, <2>5
<1>7. ASSUME NEW a \in FileArgs, NEW b \in FileArgs, Rename(a, b)
      PROVE  disk' \in Disks
  <2> DEFINE p == Target(a)
             q == Target(b)
             from(x) == p \o SubSeq(x, Len(q) + 1, Len(x))
  <2>1. disk' = [x \in Places |-> IF IsPrefix(p, x) THEN NoneThere
                                  ELSE IF IsPrefix(q, x) /\ from(x) \in Places THEN disk[from(x)]
                                  ELSE disk[x]]
    BY <1>7 DEF Rename, Renamed
  <2> HIDE DEF p, q, from
  <2> QED
    BY <1>1, <2>1
<1>8. ASSUME Mount
      PROVE  disk' \in Disks
  BY <1>1, <1>8 DEF Mount
<1> QED
  BY <1>2, <1>3, <1>4, <1>5, <1>6, <1>7, <1>8, SlotsKept

LEMMA OpenKeeps ==
    ASSUME SdInv, NEW arg \in FileArgs, NEW mode \in OpenModes, OpenFile(arg, mode)
    PROVE  SdInv'
<1> DEFINE slot == get_free_file_slot
           p == Target(arg)
           old == IF IsFile(p) THEN disk[p] ELSE <<>>
           f == [at |-> p, mode |-> mode, pos |-> 0, stale |-> FALSE]
<1>1. /\ slot # -1 /\ Opens(p, mode)
      /\ openFiles' = [openFiles EXCEPT ![slot] = f]
      /\ disk' = IF IsDir(p) THEN disk ELSE [disk EXCEPT ![p] = IF mode = "w" THEN <<>> ELSE old]
      /\ held' = held \cup {<<slot, p>>}
      /\ leftOpen' = leftOpen
  BY DEF OpenFile
<1>2. slot \in Slots /\ openFiles[slot] = NoneThere
  BY <1>1, FreeSlotIsFree DEF FreeSlots
<1>3. p \in Places \cup {<<>>}
  BY <1>1, OpensAtPlaces
<1>4. f \in OpenFiles /\ f.at = p
  BY <1>3 DEF OpenFiles
<1>5. old \in FileContents
  BY EmptyFile DEF IsFile
<1> HIDE DEF slot, p, old, f
<1>6. /\ openFiles \in [Slots -> OpenFiles \cup {NoneThere}]
      /\ disk \in [Places -> FileContents \cup {Dir, NoneThere}]
      /\ held \subseteq Slots \X (Places \cup {<<>>}) /\ leftOpen \subseteq Slots
      /\ {s \in Slots : openFiles[s] # NoneThere} = leftOpen \cup {e[1] : e \in held}
      /\ \A e \in held : openFiles[e[1]].at = e[2] /\ e[1] \notin leftOpen
  BY DEF SdInv, SdTypeOK, HandlesKeepTheirFile
<1>7. SdTypeOK'
  <2>1. disk' \in [Places -> FileContents \cup {Dir, NoneThere}]
    BY <1>1, <1>5, <1>6, EmptyFile
  <2>2. openFiles' \in [Slots -> OpenFiles \cup {NoneThere}]
    BY <1>1, <1>4, <1>6
  <2>3. held' \subseteq Slots \X (Places \cup {<<>>})
    BY <1>1, <1>2, <1>3, <1>6
  <2> QED
    BY <1>1, <1>6, <2>1, <2>2, <2>3 DEF SdTypeOK
<1>8. slot \notin leftOpen /\ \A e \in held : e[1] # slot
  BY <1>2, <1>6
<1>9. openFiles'[slot] = f /\ \A s \in Slots : s # slot => openFiles'[s] = openFiles[s]
  BY <1>1, <1>2, <1>6
<1>10. {s \in Slots : openFiles'[s] # NoneThere} = {s \in Slots : openFiles[s] # NoneThere} \cup {slot}
  BY <1>2, <1>4, <1>9
<1>11. {e[1] : e \in held'} = {e[1] : e \in held} \cup {slot}
  <2> DEFINE new == <<slot, p>>
  <2>1. new[1] = slot /\ held' = held \cup {new}
    BY <1>1
  <2> HIDE DEF new
  <2> QED
    BY ONLY <2>1
<1>12. \A e \in held' : openFiles'[e[1]].at = e[2] /\ e[1] \notin leftOpen'
  <2> TAKE e \in held'
  <2>1. CASE e \in held
    <3>1. e[1] \in Slots /\ e[1] # slot
      BY <1>6, <1>8, <2>1
    <3> QED
      BY <1>1, <1>6, <1>9, <2>1, <3>1
  <2>2. CASE e = <<slot, p>>
    BY <1>1, <1>4, <1>8, <1>9, <2>2
  <2> QED
    BY <1>1, <2>1, <2>2
<1>13. HandlesKeepTheirFile'
  BY <1>1, <1>6, <1>10, <1>11, <1>12 DEF HandlesKeepTheirFile
<1> QED
  BY <1>7, <1>13 DEF SdInv

(* Reading, seeking and writing with a handle.                             *)
LEMMA UseKeeps ==
    ASSUME SdInv, NEW h \in Slots,
           Read(h) \/ (\E n \in 0 .. MaxSize : Seek(h, n)) \/ (\E b \in Bytes : Write(h, b))
    PROVE  SdInv'
<1> DEFINE f == openFiles[h]
<1>1. Valid(h) /\ IsFile(f.at)
  BY DEF Read, Seek, Write, Usable
<1>2. f \in OpenFiles /\ disk \in [Places -> FileContents \cup {Dir, NoneThere}]
  BY <1>1 DEF Valid, SdInv, SdTypeOK
<1>3. f.pos \in Nat /\ f.at \in Places /\ disk[f.at] \in FileContents
  BY <1>1, <1>2 DEF OpenFiles, IsFile
<1>4. openFiles \in [Slots -> OpenFiles \cup {NoneThere}] /\ UNCHANGED <<held, leftOpen>>
  BY DEF SdInv, SdTypeOK, Read, Seek, Write
<1>5. ASSUME NEW pos \in Nat
      PROVE  [f EXCEPT !.pos = pos] \in OpenFiles /\ [f EXCEPT !.pos = pos].at = f.at
  BY <1>2 DEF OpenFiles
<1>6. CASE Read(h)
  <2>1. openFiles' = [openFiles EXCEPT ![h] = [f EXCEPT !.pos = f.pos + 1]] /\ disk' = disk
    BY <1>4, <1>6 DEF Read
  <2>2. f.pos + 1 \in Nat
    BY <1>3
  <2> HIDE DEF f
  <2>3. PICK g \in OpenFiles : g.at = f.at /\ openFiles' = [openFiles EXCEPT ![h] = g]
    BY <1>5, <2>1, <2>2
  <2> QED
    BY <1>1, <1>2, <1>4, <2>1, <2>3, SlotChanged DEF f
<1>7. ASSUME NEW n \in 0 .. MaxSize, Seek(h, n)
      PROVE  SdInv'
  <2>1. openFiles' = [openFiles EXCEPT ![h] = [f EXCEPT !.pos = n]] /\ disk' = disk
    BY <1>4, <1>7 DEF Seek
  <2>2. n \in Nat
    OBVIOUS
  <2> HIDE DEF f
  <2>3. PICK g \in OpenFiles : g.at = f.at /\ openFiles' = [openFiles EXCEPT ![h] = g]
    BY <1>5, <2>1, <2>2
  <2> QED
    BY <1>1, <1>2, <1>4, <2>1, <2>3, SlotChanged DEF f
<1>8. ASSUME NEW b \in Bytes, Write(h, b)
      PROVE  SdInv'
  <2> DEFINE old == disk[f.at]
             news == IF f.mode = "w" /\ f.pos < Len(old) THEN {[old EXCEPT ![f.pos + 1] = b]}
                     ELSE IF f.mode = "w" /\ f.pos > Len(old) THEN {old}
                     ELSE Added(old, b)
  <2>1. PICK new \in news :
            /\ disk' = [disk EXCEPT ![f.at] = new]
            /\ openFiles' = [openFiles EXCEPT ![h].pos = IF new = old \/ f.mode = "a" THEN @ ELSE @ + 1]
    BY <1>8 DEF Write
  <2>2. old \in FileContents /\ old \in Seq(Bytes)
    BY <1>3, FileContentsAreSequences
  <2>3. f.pos < Len(old) => f.pos + 1 \in 1 .. Len(old)
    BY <1>3, <2>2
  <2>4. new \in FileContents
    <3>1. CASE f.mode = "w" /\ f.pos < Len(old)
      BY <2>1, <2>2, <2>3, <3>1, ChangedFile
    <3>2. CASE f.mode = "w" /\ f.pos > Len(old) /\ ~(f.pos < Len(old))
      BY <2>1, <2>2, <3>2
    <3>3. CASE ~(f.mode = "w" /\ f.pos < Len(old)) /\ ~(f.mode = "w" /\ f.pos > Len(old))
      <4>1. new \in Added(old, b)
        BY <2>1, <3>3
      <4>2. new = old \/ (Len(old) < MaxSize /\ new = Append(old, b))
        BY <4>1 DEF Added
      <4> HIDE DEF old
      <4> QED
        BY <2>2, <4>2, ChangedFile
    <3> QED
      BY <3>1, <3>2, <3>3
  <2>5. disk' \in [Places -> FileContents \cup {Dir, NoneThere}]
    BY <1>2, <1>3, <2>1, <2>4
  <2>6. \E pos \in Nat : openFiles' = [openFiles EXCEPT ![h] = [f EXCEPT !.pos = pos]]
    <3> DEFINE pos == IF new = old \/ f.mode = "a" THEN f.pos ELSE f.pos + 1
    <3>1. pos \in Nat
      BY <1>3
    <3>2. openFiles' = [openFiles EXCEPT ![h] = [f EXCEPT !.pos = pos]]
      BY <1>4, <2>1
    <3> HIDE DEF pos
    <3> QED
      BY <3>1, <3>2
  <2> HIDE DEF f, old, news
  <2>7. PICK g \in OpenFiles : g.at = f.at /\ openFiles' = [openFiles EXCEPT ![h] = g]
    BY <1>5, <2>6
  <2> QED
    BY <1>1, <1>4, <2>5, <2>7, SlotChanged DEF f
<1> QED
  BY <1>6, <1>7, <1>8

(* A handle is closed, or left open by a program that ends.                *)
LEMMA CloseKeeps ==
    ASSUME SdInv, NEW h \in Slots, CloseFile(h)
    PROVE  SdInv'
<1>1. /\ openFiles' = [openFiles EXCEPT ![h] = NoneThere]
      /\ held' = {e \in held : e[1] # h} /\ leftOpen' = leftOpen \ {h} /\ disk' = disk
  BY DEF CloseFile
<1>2. /\ openFiles \in [Slots -> OpenFiles \cup {NoneThere}]
      /\ held \subseteq Slots \X (Places \cup {<<>>}) /\ leftOpen \subseteq Slots
      /\ {s \in Slots : openFiles[s] # NoneThere} = leftOpen \cup {e[1] : e \in held}
      /\ \A e \in held : openFiles[e[1]].at = e[2] /\ e[1] \notin leftOpen
  BY DEF SdInv, SdTypeOK, HandlesKeepTheirFile
<1>3. SdTypeOK'
  BY <1>1, <1>2 DEF SdInv, SdTypeOK
<1>4. openFiles'[h] = NoneThere /\ \A s \in Slots : s # h => openFiles'[s] = openFiles[s]
  BY <1>1, <1>2
<1>5. {s \in Slots : openFiles'[s] # NoneThere} = {s \in Slots : openFiles[s] # NoneThere} \ {h}
  BY <1>4
<1>6. {e[1] : e \in held'} = {e[1] : e \in held} \ {h}
  BY <1>1
<1>7. \A e \in held' : openFiles'[e[1]].at = e[2] /\ e[1] \notin leftOpen'
  <2> TAKE e \in held'
  <2>1. e \in held /\ e[1] # h /\ e[1] \in Slots
    BY <1>1, <1>2
  <2> QED
    BY <1>1, <1>2, <1>4, <2>1
<1>8. HandlesKeepTheirFile'
  BY <1>1, <1>2, <1>5, <1>6, <1>7 DEF HandlesKeepTheirFile
<1> QED
  BY <1>3, <1>8 DEF SdInv

LEMMA ProgramEndsKeeps ==
    ASSUME SdInv, ProgramEnds
    PROVE  SdInv'
<1>1. held' = {} /\ leftOpen' = leftOpen \cup {e[1] : e \in held} /\ UNCHANGED <<openFiles, disk>>
  BY DEF ProgramEnds
<1>2. held \subseteq Slots \X (Places \cup {<<>>})
  BY DEF SdInv, SdTypeOK
<1>3. {e[1] : e \in held} \subseteq Slots
  BY <1>2
<1>4. SdTypeOK'
  BY <1>1, <1>3 DEF SdInv, SdTypeOK
<1>5. HandlesKeepTheirFile'
  BY <1>1 DEF SdInv, HandlesKeepTheirFile
<1> QED
  BY <1>4, <1>5 DEF SdInv

LEMMA UnmountKeeps ==
    ASSUME SdInv, Unmount
    PROVE  SdInv'
<1>1. /\ openFiles' = [s \in Slots |-> IF openFiles[s] = NoneThere THEN NoneThere
                                       ELSE [openFiles[s] EXCEPT !.stale = TRUE]]
      /\ UNCHANGED <<disk, held, leftOpen>>
  BY DEF Unmount
<1>2. /\ openFiles \in [Slots -> OpenFiles \cup {NoneThere}]
      /\ held \subseteq Slots \X (Places \cup {<<>>}) /\ leftOpen \subseteq Slots
      /\ {s \in Slots : openFiles[s] # NoneThere} = leftOpen \cup {e[1] : e \in held}
      /\ \A e \in held : openFiles[e[1]].at = e[2] /\ e[1] \notin leftOpen
  BY DEF SdInv, SdTypeOK, HandlesKeepTheirFile
<1>3. ASSUME NEW f \in OpenFiles
      PROVE  [f EXCEPT !.stale = TRUE] \in OpenFiles /\ [f EXCEPT !.stale = TRUE].at = f.at
  BY DEF OpenFiles
<1>4. \A s \in Slots : /\ openFiles'[s] \in OpenFiles \cup {NoneThere}
                       /\ openFiles'[s] # NoneThere <=> openFiles[s] # NoneThere
                       /\ openFiles[s] # NoneThere => openFiles'[s].at = openFiles[s].at
  BY <1>1, <1>2, <1>3
<1>5. openFiles' \in [Slots -> OpenFiles \cup {NoneThere}]
  BY <1>1, <1>4
<1>6. {s \in Slots : openFiles'[s] # NoneThere} = {s \in Slots : openFiles[s] # NoneThere}
  BY <1>4
<1>7. \A e \in held : openFiles'[e[1]].at = e[2] /\ e[1] \notin leftOpen
  <2> TAKE e \in held
  <2>1. e[1] \in Slots /\ openFiles[e[1]] # NoneThere
    BY <1>2
  <2> QED
    BY <1>2, <1>4, <2>1
<1>8. HandlesKeepTheirFile'
  BY <1>1, <1>2, <1>6, <1>7 DEF HandlesKeepTheirFile
<1> QED
  BY <1>1, <1>5, <1>8 DEF SdInv, SdTypeOK

-----------------------------------------------------------------------------
LEMMA SdInvInit == SdInit => SdInv
<1> SUFFICES ASSUME SdInit
             PROVE  SdInv
  OBVIOUS
<1>1. /\ openFiles = [s \in Slots |-> NoneThere] /\ held = {} /\ leftOpen = {}
      /\ disk = [p \in Places |-> IF p = <<HomeDir>> THEN Dir ELSE NoneThere]
  BY DEF SdInit
<1>2. SdTypeOK
  BY <1>1 DEF SdTypeOK
<1>3. HandlesKeepTheirFile
  BY <1>1 DEF HandlesKeepTheirFile
<1> QED
  BY <1>2, <1>3 DEF SdInv

LEMMA SdInvStep == SdInv /\ [SdNext]_sdVars => SdInv'
<1> SUFFICES ASSUME SdInv, [SdNext]_sdVars
             PROVE  SdInv'
  OBVIOUS
<1>1. CASE \/ \E a \in DirArgs : Cd(a)
           \/ \E a \in FileArgs : RemoveFile(a)
           \/ \E a \in NewDirArgs : Mkdir(a) \/ Rmdir(a)
           \/ \E a, b \in FileArgs : Copy(a, b) \/ Rename(a, b)
           \/ Mount
  BY <1>1, CommandsKeep
<1>2. ASSUME NEW a \in FileArgs, NEW m \in OpenModes, OpenFile(a, m)
      PROVE  SdInv'
  BY <1>2, OpenKeeps
<1>3. ASSUME NEW h \in Slots, Read(h) \/ (\E n \in 0 .. MaxSize : Seek(h, n)) \/ (\E b \in Bytes : Write(h, b))
      PROVE  SdInv'
  BY <1>3, UseKeeps
<1>4. ASSUME NEW h \in Slots, CloseFile(h)
      PROVE  SdInv'
  BY <1>4, CloseKeeps
<1>5. CASE ProgramEnds \/ Unmount
  BY <1>5, ProgramEndsKeeps, UnmountKeeps
<1>6. CASE UNCHANGED sdVars
  BY <1>6 DEF sdVars, SdInv, SdTypeOK, HandlesKeepTheirFile
<1> QED
  BY <1>1, <1>2, <1>3, <1>4, <1>5, <1>6 DEF SdNext

(* A handle is good for the file it was opened for until it is closed, and *)
(* no slot is handed out twice or lost: sd.open, sd.read, sd.seek,         *)
(* sd.write, sd.close, sd.unmount and the end of a program.                *)
THEOREM SdHandlesGood == SdSpec => []HandlesKeepTheirFile
<1>1. SdSpec => []SdInv
  BY SdInvInit, SdInvStep, PTL DEF SdSpec
<1>2. SdInv => HandlesKeepTheirFile
  BY DEF SdInv
<1> QED
  BY <1>1, <1>2, PTL

=============================================================================
