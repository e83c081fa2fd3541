----------------------- MODULE MCPublicationWorkflow -----------------------
\* PublicationWorkflow for TLC, on two instances.  In the first one process runs
\* `ingest` again and again, with more edits and stops; in the second two processes
\* run it at the same time.
EXTENDS PublicationWorkflow

CONSTANTS EditsTogether, FaultsTogether   \* bounds while two processes run

ASSUME FirstAssumption == Workers # {}

VARIABLE part   \* the instance

workflowVars == <<part, vars>>

First == CHOOSE w \in Workers : TRUE

Alone == part = "alone" /\ UNCHANGED part
Together == part = "together" /\ UNCHANGED part

WorkflowInit ==
    /\ part \in {"alone", "together"} /\ Init
    /\ part = "together" => file \notin Oversized

WorkflowNext ==
    \/ Alone /\ (Register(First) \/ WorkerStep(First) \/ Stop(First) \/ Edit)
    \/ Together /\ Next /\ edits' <= EditsTogether /\ faults' <= FaultsTogether
         /\ file' \notin Oversized

\* ingest is run again and again, and a run that is not cut short goes on.
WorkflowSpec ==
    /\ WorkflowInit /\ [][WorkflowNext]_workflowVars
    /\ WF_workflowVars(Alone /\ Register(First))
    /\ WF_workflowVars(Alone /\ WorkerStep(First))

\* While one process ingests a source, the baseline of the next comparison carries
\* the identities the latest publication was indexed with, whatever stops it
\* (BaselineAsPublished); of two at once the later save may win.
AloneKeepsBaseline == part = "alone" => BaselineAsPublished

\* While one process ingests a source whose file is no longer edited, running it
\* again and again ends with the file published and nothing left to recover, unless
\* it was once read with a content beyond the limits of a publication: that source
\* stays with the identities issued for it.
AloneConverges == <>[](part = "alone" => Settled \/ Unpublishable)
=============================================================================
