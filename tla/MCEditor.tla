------------------------------ MODULE MCEditor ------------------------------
(***************************************************************************)
(* Small instances of the editor for TLC: one letter, line ends, CR.       *)
(***************************************************************************)
EXTENDS Editor, TLC

CONSTANTS a, nl, cr, nul

MCPrintable == {a}

(* A file with carriage returns that is too long for the buffer, and one   *)
(* of two lines.                                                           *)
EditDocuments   == {<<a, cr, nl, a, nl, a, a>>, <<a, nl, a>>}
EditErrorLines  == {3}

MCSearchTerms == {<<a>>, <<a, a>>}

=============================================================================
