----------------------------- MODULE MCSession ------------------------------
(***************************************************************************)
(* A file "a.lua" in /lua/, where the session starts, one of that name in  *)
(* the top directory, and the absolute name "/lua/a.lua": a relative name  *)
(* means another file after sd.cd, and edit() of the absolute one looks    *)
(* for "/lua//lua/a.lua" unless the top directory is the current one.      *)
(*                                                                         *)
(* In behaviours of their own, chosen at the start (part), the commands of *)
(* the sd library on a card with the directory "lua" and files or          *)
(* directories "a" in it and above it.  The part that does not run stays   *)
(* as it started.                                                          *)
(***************************************************************************)
EXTENDS Session, SdFiles, TLC

VARIABLE part

CONSTANTS lua, top, relative, slashed, luaFile, topFile, bad, colon

MCAbsolute == slashed :> luaFile

MCPathOf == <<lua, relative>> :> luaFile @@ <<top, relative>> :> topFile
            @@ <<lua, slashed>> :> NoPath @@ <<top, slashed>> :> luaFile

(* The programs fail in their own text, in each other's, or with a message *)
(* that has no line or a misleading one; one quotes ":-1:".                *)
MCFirstLine == [t \in Contents |-> IF t = colon THEN <<0, -1, 0>> ELSE <<0>>]
FailsIn(t, n) == [chunk |-> t, line |-> n, says |-> <<0>>]
Says(m) == [chunk |-> NoChunk, line |-> 1, says |-> m]
MCEndings ==
    [t \in Contents |-> CASE t = bad -> {FailsIn(bad, 2), FailsIn(colon, 3), Says(<<0, 0>>)}
                         [] t = colon -> {FailsIn(colon, 3), FailsIn(bad, 2), Success}
                         [] OTHER -> {Success}]

MCSaved == luaFile :> bad @@ topFile :> NoFile @@ NoPath :> NoFile

CONSTANTS luaDir, a

MCPlaces == {<<luaDir>>, <<luaDir, a>>, <<a>>}
MCFileArgs == {<<a>>, <<Slash, Slash, a>>}
MCDirArgs == {<<Up>>, <<Slash, luaDir>>, <<luaDir, Slash>>, <<Slash, Slash>>, <<a>>}
MCNewDirArgs == {<<Slash, a>>}

MCInit == Init /\ SdInit /\ part \in {"session", "sd"}

MCNext ==
    \/ part = "session" /\ Next /\ UNCHANGED <<part, sdVars>>
    \/ part = "sd" /\ SdNext /\ UNCHANGED <<part, vars>>

MCSpec == MCInit /\ [][MCNext]_<<part, vars, sdVars>>

=============================================================================
