---------------------------- MODULE UploadService ----------------------------
(* What imagehost promises about uploads (README.md:5-9, config.yaml:1-11),    *)
(* without handlers, PUTs or files: an upload is kept in the archive, shown to *)
(* the world, and given a verdict.  Module Upload implements this.            *)

CONSTANTS Uploads, Archiving

VARIABLES
    kept,     \* the uploads whose original the archive holds
    shown,    \* the uploads whose sanitized image is public
    verdict   \* what the client was told: "none", "rejected", "failed", "ok"

service == <<kept, shown, verdict>>

Init ==
    /\ kept = {}
    /\ shown = {}
    /\ verdict = [u \in Uploads |-> "none"]

(* The original reaches the archive; a client told "failed" may have been told *)
(* too early, one told "rejected" never.                                      *)
Keep(u) ==
    /\ Archiving
    /\ u \notin kept \cup shown
    /\ verdict[u] \in {"none", "failed"}
    /\ kept' = kept \cup {u}
    /\ UNCHANGED <<shown, verdict>>

(* The image becomes public, after its original was kept. *)
Show(u) ==
    /\ Archiving => u \in kept
    /\ u \notin shown
    /\ verdict[u] \in {"none", "failed"}
    /\ shown' = shown \cup {u}
    /\ UNCHANGED <<kept, verdict>>

(* The client is answered once. *)
Tell(u, word) ==
    /\ verdict[u] = "none"
    /\ word = "ok" => u \in shown
    /\ word = "rejected" => u \notin kept \cup shown
    /\ verdict' = [verdict EXCEPT ![u] = word]
    /\ UNCHANGED <<kept, shown>>

Next ==
    \E u \in Uploads :
        \/ Keep(u)
        \/ Show(u)
        \/ \E word \in {"rejected", "failed", "ok"} : Tell(u, word)

Spec == Init /\ [][Next]_service
=============================================================================
