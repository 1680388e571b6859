----------------------------- MODULE RequestPort -----------------------------
(***************************************************************************)
(* What the page sees of the bridge, without sessions, sockets or scripts: *)
(* requests that are made, run in the launcher and settled.  A request is  *)
(* settled at most once, in the document that made it, with a result only  *)
(* after the handler that has the result ran, or as failed when the bridge *)
(* is installed again.  Within one document every result is the request's  *)
(* own; a result may outlive its document, and the port allows that it is  *)
(* then mistaken for another's.                                            *)
(***************************************************************************)
EXTENDS Naturals

CONSTANTS
    Requests,    \* requests the page may make, each once
    NoAnswer,    \* not settled
    Reconnected  \* settled as failed by a new installation

VARIABLES
    document,  \* the page's document, counted by reloads
    asked,     \* the document each request was made in, 0 if none
    ran,       \* the requests a handler was started for
    answer     \* what each request was settled with

vars == <<document, asked, ran, answer>>

Init ==
    /\ document = 1
    /\ asked = [r \in Requests |-> 0]
    /\ ran = {}
    /\ answer = [r \in Requests |-> NoAnswer]

Waits(r) == asked[r] = document /\ answer[r] = NoAnswer

Ask(r) ==
    /\ asked[r] = 0
    /\ asked' = [asked EXCEPT ![r] = document]
    /\ UNCHANGED <<document, ran, answer>>

Run(r) ==
    /\ asked[r] # 0
    /\ ran' = ran \cup {r}
    /\ UNCHANGED <<document, asked, answer>>

Reply(r, s) ==
    /\ Waits(r)
    /\ s \in ran
    /\ s = r \/ asked[s] < document
    /\ answer' = [answer EXCEPT ![r] = s]
    /\ UNCHANGED <<document, asked, ran>>

Reconnect ==
    /\ answer' = [r \in Requests |-> IF Waits(r) THEN Reconnected ELSE answer[r]]
    /\ UNCHANGED <<document, asked, ran>>

Reload ==
    /\ document' = document + 1
    /\ UNCHANGED <<asked, ran, answer>>

Next ==
    \/ \E r \in Requests : Ask(r) \/ Run(r)
    \/ \E r, s \in Requests : Reply(r, s)
    \/ Reconnect
    \/ Reload

Spec == Init /\ [][Next]_vars
=============================================================================
