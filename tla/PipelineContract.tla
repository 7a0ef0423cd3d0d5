--------------------------- MODULE PipelineContract ---------------------------
(***************************************************************************)
(* What the callers of _delete_media rely on, and what DeletionQueue       *)
(* assumes of a pipeline: an execution reaches the media server once, then *)
(* either fails or goes on, and its result says whether it went all the    *)
(* way.  The other services and the nine steps are not visible here.       *)
(***************************************************************************)
CONSTANTS Rows, Groups, Workers, NoRow

VARIABLES
    media,  \* rows whose media the media server has
    exec    \* the execution of each worker

cvars == <<media, exec>>

None == [row |-> NoRow, reaches |-> FALSE, stage |-> "idle"]

CInit ==
    /\ media = Rows
    /\ exec = [w \in Workers |-> None]

(* An execution may start on any row; reaches tells whether the caller put
   the right server on the row. *)
Begin(w) ==
    /\ exec[w].stage = "idle"
    /\ \E r \in Rows, b \in BOOLEAN :
         exec' = [exec EXCEPT ![w] = [row |-> r, reaches |-> b, stage |-> "media"]]
    /\ media' = media

ToStage(w, s) == exec' = [exec EXCEPT ![w].stage = s]

(* The media server's turn, as in DeletionQueue!PipeMedia. *)
Server(w) ==
    /\ exec[w].stage = "media"
    /\ \/ /\ exec[w].reaches
          /\ media' = media \ {exec[w].row}
          /\ \E s \in {"rest", "failed"} : ToStage(w, s)
       \/ /\ exec[w].row \in Groups \/ ~exec[w].reaches
          /\ media' = media
          /\ ToStage(w, "rest")
       \/ media' = media /\ ToStage(w, "failed")

(* The other services' turn, as in DeletionQueue!PipeRest. *)
Rest(w) ==
    /\ exec[w].stage = "rest"
    /\ \E s \in {"passed", "failed"} : ToStage(w, s)
    /\ media' = media

Report(w) ==
    /\ exec[w].stage \in {"passed", "failed"}
    /\ exec' = [exec EXCEPT ![w] = None]
    /\ media' = media

Die ==
    /\ exec' = [w \in Workers |-> None]
    /\ media' = media

CNext == (\E w \in Workers : Begin(w) \/ Server(w) \/ Rest(w) \/ Report(w)) \/ Die

CSpec == CInit /\ [][CNext]_cvars
=============================================================================
