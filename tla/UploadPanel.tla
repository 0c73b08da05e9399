----------------------------- MODULE UploadPanel -----------------------------
(***************************************************************************)
(* The panel through which files are put into a case: they are picked in   *)
(* turns, some are refused at once, the others wait in a queue and are     *)
(* sent together.  The answer names a refused file by its place in what    *)
(* was sent, and the panel looks that place up in its queue, which people  *)
(* may change while the answer is due.  FileIntake has what the server     *)
(* does with the files.                                                    *)
(***************************************************************************)
EXTENDS Naturals, Sequences, SequencesExt

CONSTANTS
    Files,
    Unfit,          \* of a type or a size that the panel refuses
    MaxFiles,       \* MAX_FILES
    MaxChoice       \* bound: files picked at once

PanelAssumption == Unfit \subseteq Files /\ MaxFiles \in Nat \ {0} /\ MaxChoice \in Nat

VARIABLES
    queue,
    refused,    \* localRejections
    sent,       \* what an answer is due or shown of
    batch,      \* "none", "due", "shown": sending, and hasResult
    rejected,   \* the places in it that the server refused
    failed,     \* failure is shown
    shortened   \* a file was taken out of the queue while the answer was due

panelVars == <<queue, refused, sent, batch, rejected, failed, shortened>>

Picks == SeqOf(Files, MaxChoice)

(* What each variable holds. *)
PanelTyped ==
    /\ queue \in Seq(Files \ Unfit) /\ sent \in Seq(Files \ Unfit)
    /\ refused \subseteq Files
    /\ batch \in {"none", "due", "shown"} /\ (batch = "none" => sent = <<>>)
    /\ rejected \subseteq DOMAIN sent
    /\ failed \in BOOLEAN /\ shortened \in BOOLEAN

PanelInit ==
    /\ queue = <<>> /\ sent = <<>> /\ refused = {} /\ rejected = {}
    /\ batch = "none" /\ failed = FALSE /\ shortened = FALSE

(* Mutant of Room: each choice of files is measured by itself. *)
RoomOfChoice(n) == n < MaxFiles

(* There is room for one more when n files of this choice are taken. *)
Room(n) == n + Len(queue) < MaxFiles

(* screenLocally: the places of the files of a choice that are taken, which are
   the fit ones as long as there is room behind those before them. *)
Screened(choice) ==
    LET fit == {i \in DOMAIN choice : choice[i] \notin Unfit}
    IN  {i \in fit : Room(Cardinality({k \in fit : k < i}))}

(* Mutant of Queued: what was picked last comes first. *)
NewestFirst(taken) == taken \o queue

(* New files go behind those that wait. *)
Queued(taken) == queue \o taken

(* onPick and onDrop: nothing waits for an answer that is due. *)
Pick(choice) ==
    /\ batch # "shown" /\ choice # <<>>
    /\ LET taken == Screened(choice) IN
         /\ queue' = Queued([i \in 1 .. Cardinality(taken) |->
                  choice[CHOOSE j \in taken : Cardinality({k \in taken : k <= j}) = i]])
         /\ refused' = refused \cup {choice[i] : i \in DOMAIN choice \ taken}
    /\ UNCHANGED <<sent, batch, rejected, failed, shortened>>

RemoveFromQueue(i) ==
    /\ batch # "shown" /\ i \in DOMAIN queue
    /\ queue' = RemoveAt(queue, i)
    /\ shortened' = (shortened \/ batch = "due")
    /\ UNCHANGED <<refused, sent, batch, rejected, failed>>

Send ==
    /\ batch = "none" /\ queue # <<>>
    /\ sent' = queue /\ batch' = "due"
    /\ failed' = FALSE /\ shortened' = FALSE
    /\ UNCHANGED <<queue, refused, rejected>>

Answer(refusals) ==
    /\ batch = "due"
    /\ batch' = "shown" /\ rejected' = refusals
    /\ UNCHANGED <<queue, refused, sent, failed, shortened>>

(* It was refused as a whole, did not arrive, or its answer was lost: the
   queue stays as it is, to be sent again. *)
SendFails ==
    /\ batch = "due"
    /\ batch' = "none" /\ sent' = <<>> /\ failed' = TRUE
    /\ UNCHANGED <<queue, refused, rejected, shortened>>

(* "Limpar", and "Enviar mais arquivos" under an answer, which also drops what
   was picked while the answer was due. *)
Reset ==
    /\ batch = "shown" \/ (batch = "none" /\ queue # <<>>)
    /\ queue' = <<>> /\ sent' = <<>> /\ refused' = {} /\ rejected' = {}
    /\ batch' = "none" /\ failed' = FALSE /\ shortened' = FALSE

PanelNext ==
    \/ \E choice \in Picks : Pick(choice)
    \/ \E i \in DOMAIN queue : RemoveFromQueue(i)
    \/ Send
    \/ \E refusals \in SUBSET DOMAIN sent : Answer(refusals)
    \/ SendFails
    \/ Reset

-----------------------------------------------------------------------------
(* rejectionLabel *)
Label(i) == IF i \in DOMAIN queue THEN queue[i] ELSE "Arquivo"

(* A refusal stands under the name of the file it is about, whatever was picked
   meanwhile, unless files were taken out of the queue. *)
RefusalsAreNamed == batch = "shown" /\ ~shortened => \A i \in rejected : Label(i) = sent[i]

(* However files are picked, no more are sent than the server takes. *)
QueueIsBounded == Len(queue) <= MaxFiles

PanelIsFaithful == PanelTyped /\ RefusalsAreNamed /\ QueueIsBounded
==============================================================================
