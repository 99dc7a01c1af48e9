----------------------------- MODULE ResumeIntake -----------------------------
(***************************************************************************)
(* What a worker process does with a resume: executions of the resume      *)
(* parser (agents/base.py, agents/resume_parser.py, tools/                 *)
(* pdf_extractor.py), and the embeddings of module EmbeddingPipeline.  In  *)
(* the process Home they share the singleton gateway to the providers      *)
(* (services/llm_gateway.py); they suspend only where they await a         *)
(* provider or the vector store, and between two awaits each is one        *)
(* action.                                                                 *)
(*                                                                         *)
(* When the process crashes the calls in flight are lost and the gateway's *)
(* totals start again at zero.                                             *)
(***************************************************************************)
EXTENDS EmbeddingPipeline

CONSTANTS
    Runs,       \* executions of ResumeParserAgent, each by an instance of its own
    Home,       \* the process they run in
    Documents,  \* the inputs of the parser
    Uses,       \* the token usage a completion can report
    EmbedUse,   \* the total_tokens of an embedding call
    MaxTokens   \* bound: no call of Home is answered once the totals reached it

ASSUME IntakeAssumption ==
    /\ Home \in Processes
    /\ Uses \subseteq [prompt : Nat, completion : Nat]
    /\ EmbedUse \in Nat

VARIABLES
    step,      \* run -> "idle", "llm" while it awaits the completion, or "done"
    document,  \* run -> the document it was given
    result,    \* run -> its AgentResult
    hooks,     \* run -> the hooks called
    used,      \* history: run -> what its completion cost
    totals     \* total_tokens of LLMGateway._total_tokens

runVars == <<step, document, result, hooks, used>>
vars == <<runVars, totals, pipelineVars>>

-----------------------------------------------------------------------------
(* The parser. *)

(* extract_pdf_text: PyMuPDF, then pdfplumber, each of which may yield      *)
(* enough text, too little, be missing or fail; else "vision_needed".       *)
Method(d) ==
    IF d.pymupdf = "text" THEN "pymupdf"
    ELSE IF d.pdfplumber = "text" THEN "pdfplumber"
    ELSE "vision_needed"

(* Where reason_and_act finds the bytes; a path may fail to open. *)
Bytes(d) == d.source \in {"bytes", "path"}

(* AgentResult, up to texts and durations. *)
Failure == [success |-> FALSE, profile |-> "none", tokens |-> 0]
Success(profile, tokens) == [success |-> TRUE, profile |-> profile, tokens |-> tokens]

(* What json.loads makes of the content: an object CandidateProfile takes,  *)
(* an object it rejects (the one an undecodable content is replaced by is   *)
(* one of these: it has no full_name), a null list of skills, or JSON that  *)
(* is no object.                                                            *)
Contents == {"profile", "rejected", "null skills", "not an object"}

Conclude(r, res, called) ==
    /\ step' = [step EXCEPT ![r] = "done"]
    /\ result' = [result EXCEPT ![r] = res]
    /\ hooks' = [hooks EXCEPT ![r] = @ \cup called]

(* execute up to its first suspension.  An input that does not validate     *)
(* ends it before any hook; no bytes, and a file that cannot be read, raise *)
(* into on_error; a scanned document ends it with a minimal profile.        *)
Execute(r, d) ==
    /\ step[r] = "idle"
    /\ document' = [document EXCEPT ![r] = d]
    /\ \/ ~d.valid /\ Conclude(r, Failure, {})
       \/ d.valid /\ ~Bytes(d) /\ Conclude(r, Failure, {"on_start", "on_error"})
       \/ /\ d.valid /\ Bytes(d) /\ Method(d) = "vision_needed"
          /\ Conclude(r, Success("minimal", 0), {"on_start", "on_end"})
       \/ /\ d.valid /\ Bytes(d) /\ Method(d) # "vision_needed"
          /\ step' = [step EXCEPT ![r] = "llm"]
          /\ hooks' = [hooks EXCEPT ![r] = {"on_start"}]
          /\ UNCHANGED result
    /\ UNCHANGED <<used, totals, pipelineVars>>

(* complete and embed add the usage of the response to the totals. *)
Charge(tokens) == totals' = totals + tokens

(* Faulty variant: a run reports what the shared totals have grown to.     *)
ReportTotals(r, content, use) ==
    IF content = "profile"
      THEN Conclude(r, Success("parsed", totals + use.prompt + use.completion), {"on_end"})
      ELSE Conclude(r, Failure, {"on_error"})

(* The rest of reason_and_act and execute.  Normalising a null list and     *)
(* reading a field of something that is no object raise, and so does the    *)
(* validation of the profile; validating it a second time never fails.      *)
Report(r, content, use) ==
    IF content = "profile"
      THEN Conclude(r, Success("parsed", use.prompt + use.completion), {"on_end"})
      ELSE Conclude(r, Failure, {"on_error"})

Room == totals < MaxTokens

(* acompletion returns. *)
CompletionAnswers(r) ==
    /\ step[r] = "llm"
    /\ Room
    /\ \E use \in Uses, content \in Contents :
        /\ Charge(use.prompt + use.completion)
        /\ used' = [used EXCEPT ![r] = use.prompt + use.completion]
        /\ Report(r, content, use)
    /\ UNCHANGED <<document, pipelineVars>>

(* acompletion raises: logged, re-raised, caught in execute. *)
CompletionFails(r) ==
    /\ step[r] = "llm"
    /\ Conclude(r, Failure, {"on_error"})
    /\ UNCHANGED <<document, used, totals, pipelineVars>>

-----------------------------------------------------------------------------
(* The embeddings, with what they cost. *)

EmbeddingAnswers(p) ==
    /\ Embedded(p)
    /\ IF p = Home THEN Room /\ Charge(EmbedUse) ELSE UNCHANGED totals
    /\ UNCHANGED runVars

(* A process dies: runs in flight are executed anew by the retry of their   *)
(* activity.                                                                *)
Restart(p) ==
    /\ Crash(p)
    /\ IF p = Home
         THEN /\ step' = [r \in Runs |-> IF step[r] = "llm" THEN "idle" ELSE step[r]]
              /\ hooks' = [r \in Runs |-> IF step[r] = "llm" THEN {} ELSE hooks[r]]
              /\ totals' = 0
              /\ UNCHANGED <<document, result, used>>
         ELSE UNCHANGED <<runVars, totals>>

Init ==
    /\ PipelineInit
    /\ step = [r \in Runs |-> "idle"]
    /\ document = [r \in Runs |-> None]
    /\ result = [r \in Runs |-> Failure]
    /\ hooks = [r \in Runs |-> {}]
    /\ used = [r \in Runs |-> 0]
    /\ totals = 0

Next ==
    \/ \E r \in Runs :
        \/ \E d \in Documents : Execute(r, d)
        \/ CompletionAnswers(r) \/ CompletionFails(r)
    \/ \E p \in Processes :
        \/ EmbeddingAnswers(p)
        \/ Stores(p) /\ UNCHANGED <<runVars, totals>>
        \/ Restart(p)

Spec == Init /\ [][Next]_vars

-----------------------------------------------------------------------------
(* Properties. *)

TypeOK ==
    /\ step \in [Runs -> {"idle", "llm", "done"}]
    /\ result \in [Runs -> [success : BOOLEAN, profile : {"none", "minimal", "parsed"}, tokens : Nat]]
    /\ hooks \in [Runs -> SUBSET {"on_start", "on_end", "on_error"}]
    /\ totals \in Nat
    /\ PipelineTypeOK

(* What the campaign relies on: a run reports the tokens of its own call    *)
(* although all runs share one gateway, a failure and a minimal profile     *)
(* report none, and a parsed profile comes from a document with text.       *)
ResultContract ==
    \A r \in Runs : step[r] = "done" =>
        CASE result[r].profile = "none" -> ~result[r].success /\ result[r].tokens = 0
          [] result[r].profile = "minimal" ->
                /\ result[r].success /\ result[r].tokens = 0
                /\ Method(document[r]) = "vision_needed"
          [] result[r].profile = "parsed" ->
                /\ result[r].success /\ result[r].tokens = used[r]
                /\ Method(document[r]) # "vision_needed"

(* What the docstring of on_end says: it is called after execution          *)
(* completes, on success and on failure.                                    *)
EndHookAlways ==
    \A r \in Runs : step[r] = "done" /\ "on_start" \in hooks[r] => "on_end" \in hooks[r]
=============================================================================
