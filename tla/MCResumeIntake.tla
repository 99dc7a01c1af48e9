---------------------------- MODULE MCResumeIntake ----------------------------
(***************************************************************************)
(* Model-checking definitions for ResumeIntake: a document for every way   *)
(* through the parser, a profile that shrinks, two sizes of completions, a *)
(* list of jobs that takes two calls of the provider.                      *)
(***************************************************************************)
EXTENDS ResumeIntake, TLC

Document(valid, source, pymupdf, pdfplumber) ==
    [valid |-> valid, source |-> source, pymupdf |-> pymupdf, pdfplumber |-> pdfplumber]

MCDocuments ==
    {Document(FALSE, "none", "short", "short"), Document(TRUE, "none", "short", "short"),
     Document(TRUE, "bytes", "text", "short"), Document(TRUE, "path", "broken", "text"),
     Document(TRUE, "bytes", "short", "absent")}

MCProfiles == {[skills |-> TRUE, experiences |-> 1], [skills |-> FALSE, experiences |-> 0]}

MCUses == {[prompt |-> 1, completion |-> 1]}

MCJobLists == {<<"t1", "t2", "t1">>, <<"t2">>}
=============================================================================
