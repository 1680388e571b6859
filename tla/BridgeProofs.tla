---------------------------- MODULE BridgeProofs ----------------------------
(***************************************************************************)
(* What the bridge guarantees for any number of requests, installations,   *)
(* overlaps, lost sessions and reloads: no request is lost between two     *)
(* sessions, within a document no request gets the answer of another, and  *)
(* the page sees a request port (RequestPort).                             *)
(*                                                                         *)
(* The argument is that every request of a document has a number of its    *)
(* own, and that whatever travels for a request, as a binding call, as the *)
(* call of a running handler or as a response, carries that number.        *)
(***************************************************************************)
EXTENDS Bridge, TLAPS

Allocated ==
    /\ \A g \in Sessions : g > made => phase[g] = "unused"
    /\ faults <= MaxFaults

\* num gives every request its number, and all that travels carries it.
NumberedBy(num) ==
    /\ \A r, s \in Requests :
        r # s /\ issued[r] # 0 /\ issued[r] = issued[s] => num[r] # num[s]
    /\ \A r \in Requests : issued[r] = document => num[r] <= seq
    /\ \A c \in callbacks : issued[c.req] = document /\ c.id = num[c.req]
    /\ \A g \in Sessions : \A i \in DOMAIN inbox[g] :
        issued[inbox[g][i].req] # 0 /\ inbox[g][i].id = num[inbox[g][i].req]
    /\ \A g \in Sessions : \A c \in running[g] :
        issued[c.req] # 0 /\ c.id = num[c.req]
    /\ \A a \in answers : issued[a.req] # 0 /\ a.id = num[a.req]

Numbered == \E num \in [Requests -> Nat] : NumberedBy(num)

\* Only a request that was made in some document so far is settled.
Asked ==
    /\ document > 0
    /\ \A r \in Requests : issued[r] <= document
    /\ \A r \in Requests : answer[r] # NoAnswer => issued[r] # 0
    /\ \A r \in Requests : answer[r] \in Requests => issued[answer[r]] # 0
    /\ callbacks # {} => scripted

\* The current session has what the request needs, or has answered it.
Carried(r) ==
    Holds(current, r) \/ \E a \in answers : a.req = r /\ a.by = current

\* A session that is about to publish holds what the page waits for as well.
Kept ==
    \A r \in Requests : Waiting(r) =>
        /\ \E c \in callbacks : c.req = r
        /\ \A g \in Sessions : phase[g] = "evaluated" => Holds(g, r)
        /\ ~Dead => Carried(r)

IInv == TypeOK /\ Allocated /\ Numbered /\ Asked /\ AnswersStayApart /\ Kept

-----------------------------------------------------------------------------
\* What taking from the front of a sequence, or adding at its end, leaves in it.
LEMMA SequenceTypes ==
    ASSUME NEW S, NEW s \in Seq(S), NEW e \in S
    PROVE  Append(s, e) \in Seq(S)
    OBVIOUS

LEMMA HeadAndTail ==
    ASSUME NEW S, NEW s \in Seq(S), s # << >>
    PROVE  Head(s) \in S /\ Tail(s) \in Seq(S)
    OBVIOUS

LEMMA AppendEntries ==
    ASSUME NEW S, NEW s \in Seq(S), NEW e \in S
    PROVE  /\ \A i \in DOMAIN s : i \in DOMAIN Append(s, e) /\ Append(s, e)[i] = s[i]
           /\ \E i \in DOMAIN Append(s, e) : Append(s, e)[i] = e
           /\ \A i \in DOMAIN Append(s, e) :
                Append(s, e)[i] = e \/ (i \in DOMAIN s /\ Append(s, e)[i] = s[i])
<1>1. Len(s) + 1 \in DOMAIN Append(s, e) /\ Append(s, e)[Len(s) + 1] = e
    OBVIOUS
<1>2. \A i \in DOMAIN s : i \in DOMAIN Append(s, e) /\ Append(s, e)[i] = s[i]
    OBVIOUS
<1>3. ASSUME NEW i \in DOMAIN Append(s, e)
      PROVE  Append(s, e)[i] = e \/ (i \in DOMAIN s /\ Append(s, e)[i] = s[i])
  <2>1. i \in 1..(Len(s) + 1)
    OBVIOUS
  <2>2. i = Len(s) + 1 \/ i \in DOMAIN s
    BY <2>1
  <2>3. CASE i = Len(s) + 1
    BY <1>1, <2>3
  <2>4. CASE i \in DOMAIN s
    BY <1>2, <2>4
  <2>. QED BY <2>2, <2>3, <2>4
<1>. QED BY <1>1, <1>2, <1>3

LEMMA TailEntries ==
    ASSUME NEW S, NEW s \in Seq(S), s # << >>
    PROVE  /\ \A i \in DOMAIN s :
                s[i] = Head(s) \/ \E j \in DOMAIN Tail(s) : Tail(s)[j] = s[i]
           /\ \A j \in DOMAIN Tail(s) : \E i \in DOMAIN s : s[i] = Tail(s)[j]
           /\ \E i \in DOMAIN s : s[i] = Head(s)
<1>1. ASSUME NEW i \in DOMAIN s, s[i] # Head(s)
      PROVE  i - 1 \in DOMAIN Tail(s) /\ Tail(s)[i - 1] = s[i]
    BY <1>1
<1>2. ASSUME NEW j \in DOMAIN Tail(s)
      PROVE  j + 1 \in DOMAIN s /\ s[j + 1] = Tail(s)[j]
    BY <1>2
<1>3. 1 \in DOMAIN s /\ s[1] = Head(s)
    OBVIOUS
<1>. QED BY <1>1, <1>2, <1>3

\* Every step keeps the types and the allocation of generations.
LEMMA TypesNext == TypeOK /\ Allocated /\ [Next]_vars => TypeOK' /\ Allocated'
<1> SUFFICES ASSUME TypeOK, Allocated, [Next]_vars PROVE (TypeOK /\ Allocated)'
    OBVIOUS
<1> USE BridgeAssumption DEF TypeOK, Allocated, Sessions, Phases, Installing, launcher, page
<1>0. << >> \in Seq(Call)
    OBVIOUS
<1>1. CASE UNCHANGED vars
    BY <1>1 DEF vars, launcher, page
<1>2. CASE Revive \/ Reinstall
  <2>1. made < MaxInstalls /\ Open
    BY <1>2 DEF Revive, Reinstall
  <2>. QED BY <2>1 DEF Open
<1>3. ASSUME NEW g \in Sessions, Install(g) PROVE (TypeOK /\ Allocated)'
  <2>1. CASE Bind(g)
    BY <2>1 DEF Bind
  <2>2. CASE Register(g)
    BY <2>2 DEF Register
  <2>3. CASE Evaluate(g)
    BY <2>3 DEF Evaluate
  <2>4. CASE Publish(g)
    <3>1. CASE /\ current' = g
               /\ phase' = [phase EXCEPT ![g] = "serving"]
               /\ UNCHANGED inbox
      BY <2>4, <3>1 DEF Publish
    <3>2. CASE /\ phase' = [phase EXCEPT ![g] = "closed"]
               /\ inbox' = [inbox EXCEPT ![g] = << >>]
               /\ UNCHANGED current
      <4>1. inbox' \in [Sessions -> Seq(Call)]
        BY <3>2, <1>0
      <4>. QED BY <2>4, <3>2, <4>1 DEF Publish
    <3>. QED BY <2>4, <3>1, <3>2 DEF Publish
  <2>. QED BY <1>3, <2>1, <2>2, <2>3, <2>4 DEF Install
<1>4. ASSUME NEW g \in Sessions,
             InstallFail(g) \/ Take(g) \/ Finish(g) \/ Supersede(g) \/ Break(g)
      PROVE  (TypeOK /\ Allocated)'
  <2>1. CASE InstallFail(g)
    <3>1. inbox' \in [Sessions -> Seq(Call)]
      BY <2>1, <1>0 DEF InstallFail
    <3>. QED BY <2>1, <3>1 DEF InstallFail
  <2>2. CASE Take(g)
    <3>1. Head(inbox[g]) \in Call /\ Tail(inbox[g]) \in Seq(Call)
      BY <2>2, HeadAndTail DEF Take
    <3>2. inbox' \in [Sessions -> Seq(Call)]
      BY <2>2, <3>1 DEF Take
    <3>3. running' \in [Sessions -> SUBSET Call]
      BY <2>2, <3>1 DEF Take
    <3>4. handled' \in [Requests -> SUBSET Sessions]
      BY <2>2 DEF Take
    <3>. QED BY <2>2, <3>2, <3>3, <3>4 DEF Take
  <2>3. CASE Finish(g)
    <3>1. PICK call \in running[g] :
            /\ running' = [running EXCEPT ![g] = @ \ {call}]
            /\ answers' = IF current = g
                          THEN answers \cup {[id |-> call.id, req |-> call.req, by |-> g]}
                          ELSE answers
      BY <2>3 DEF Finish
    <3>2. running' \in [Sessions -> SUBSET Call]
      BY <3>1
    <3>3. answers' \subseteq [id : Nat, req : Requests, by : Sessions]
      BY <3>1 DEF Call
    <3>. QED BY <2>3, <3>2, <3>3 DEF Finish
  <2>4. CASE Supersede(g)
    <3>1. inbox' \in [Sessions -> Seq(Call)]
      BY <2>4, <1>0 DEF Supersede, Close
    <3>2. running' \in [Sessions -> SUBSET Call]
      BY <2>4 DEF Supersede, Close
    <3>. QED BY <2>4, <3>1, <3>2 DEF Supersede, Close
  <2>5. CASE Break(g)
    <3>1. inbox' \in [Sessions -> Seq(Call)]
      BY <2>5, <1>0 DEF Break, Close
    <3>2. running' \in [Sessions -> SUBSET Call]
      BY <2>5 DEF Break, Close
    <3>3. answers' \subseteq answers
      BY <2>5 DEF Break
    <3>. QED BY <2>5, <3>1, <3>2, <3>3 DEF Break, Close
  <2>. QED BY <1>4, <2>1, <2>2, <2>3, <2>4, <2>5
<1>5. ASSUME NEW r \in Requests, Issue(r) PROVE (TypeOK /\ Allocated)'
  <2>1. [id |-> seq + 1, req |-> r] \in Call
    BY DEF Call
  <2>2. inbox' \in [Sessions -> Seq(Call)]
    BY <1>5, <2>1, SequenceTypes DEF Issue
  <2>3. callbacks' \subseteq Call /\ issued' \in [Requests -> Nat] /\ seq' \in Nat
    BY <1>5, <2>1 DEF Issue
  <2>. QED BY <1>5, <2>2, <2>3 DEF Issue
<1>6. ASSUME NEW a \in answers, Deliver(a) PROVE (TypeOK /\ Allocated)'
  <2>1. a.req \in Requests
    OBVIOUS
  <2>2. callbacks' \subseteq callbacks /\ answers' \subseteq answers
    BY <1>6 DEF Deliver
  <2>3. answer' \in [Requests -> Requests \cup {NoAnswer, Reconnected}]
    BY <1>6, <2>1 DEF Deliver
  <2>. QED BY <1>6, <2>2, <2>3 DEF Deliver
<1>7. CASE Reload
  <2>1. scripted' \in BOOLEAN
    BY <1>7, Zenon DEF Reload
  <2>2. /\ document' \in Nat /\ seq' \in Nat /\ callbacks' \subseteq Call
        /\ UNCHANGED <<launcher, issued, answer, answers, handled, faults>>
    BY <1>7 DEF Reload
  <2>. QED BY <2>1, <2>2
<1>. QED BY <1>1, <1>2, <1>3, <1>4, <1>5, <1>6, <1>7 DEF Next

\* Every step keeps the numbers, and a new request gets a new one.
LEMMA NumberedNext == TypeOK /\ Numbered /\ Asked /\ [Next]_vars => Numbered'
<1> SUFFICES ASSUME TypeOK, Asked, [Next]_vars,
                    NEW num \in [Requests -> Nat], NumberedBy(num)
             PROVE  Numbered'
    BY DEF Numbered
<1>0. NumberedBy(num)' => Numbered'
    BY DEF Numbered
<1> USE BridgeAssumption DEF TypeOK, NumberedBy, Asked, Call, launcher, page
<1>1. CASE UNCHANGED vars
    BY <1>1, <1>0 DEF vars, launcher, page
<1>2. CASE Revive \/ Reinstall
    BY <1>2, <1>0 DEF Revive, Reinstall, Open
<1>3. ASSUME NEW g \in Sessions, Install(g) PROVE Numbered'
  <2>1. CASE Bind(g)
    BY <2>1, <1>0 DEF Bind
  <2>2. CASE Register(g)
    BY <2>2, <1>0 DEF Register
  <2>3. CASE Evaluate(g)
    BY <2>3, <1>0 DEF Evaluate
  <2>4. CASE Publish(g)
    <3>1. \A h \in Sessions : inbox'[h] = inbox[h] \/ inbox'[h] = << >>
      BY <2>4 DEF Publish
    <3>2. UNCHANGED <<running, page, answers>>
      BY <2>4 DEF Publish
    <3>3. ASSUME NEW h \in Sessions, NEW i \in DOMAIN inbox'[h]
          PROVE  issued[inbox'[h][i].req] # 0 /\ inbox'[h][i].id = num[inbox'[h][i].req]
      <4>1. inbox'[h] = inbox[h]
        <5>1. inbox'[h] # << >>
          OBVIOUS
        <5>. QED BY <3>1, <5>1
      <4>2. i \in DOMAIN inbox[h]
        BY <4>1
      <4>. QED BY <4>1, <4>2
    <3>4. NumberedBy(num)'
      BY <3>2, <3>3
    <3>. QED BY <3>4, <1>0
  <2>. QED BY <1>3, <2>1, <2>2, <2>3, <2>4 DEF Install
<1>4. ASSUME NEW g \in Sessions,
             InstallFail(g) \/ Take(g) \/ Finish(g) \/ Supersede(g) \/ Break(g)
      PROVE  Numbered'
  <2>1. CASE InstallFail(g)
    BY <2>1, <1>0 DEF InstallFail
  <2>2. CASE Take(g)
    <3>1. inbox[g] \in Seq(Call) /\ inbox[g] # << >>
      BY <2>2 DEF Take
    <3>2. PICK i \in DOMAIN inbox[g] : inbox[g][i] = Head(inbox[g])
      BY <3>1, TailEntries
    <3>3. ASSUME NEW h \in Sessions, NEW c \in running'[h]
          PROVE  issued[c.req] # 0 /\ c.id = num[c.req]
      <4>0. running' = [running EXCEPT ![g] = @ \cup {inbox[g][i]}]
        BY <2>2, <3>2 DEF Take
      <4>1. c \in running[h] \/ (h = g /\ c = inbox[g][i])
        <5>0. running \in [Sessions -> SUBSET Call]
          OBVIOUS
        <5> HIDE DEF TypeOK, NumberedBy, Asked, Call
        <5>1. CASE h = g
          <6>1. running'[g] = running[g] \cup {inbox[g][i]}
            BY <4>0, <5>0
          <6>. QED BY <5>1, <6>1
        <5>2. CASE h # g
          BY <4>0, <5>0, <5>2
        <5>. QED BY <5>1, <5>2
      <4>. QED BY <4>1
    <3>4. ASSUME NEW h \in Sessions, NEW j \in DOMAIN inbox'[h]
          PROVE  issued[inbox'[h][j].req] # 0 /\ inbox'[h][j].id = num[inbox'[h][j].req]
      <4>1. \E k \in DOMAIN inbox[h] : inbox[h][k] = inbox'[h][j]
        <5>1. CASE h = g
          <6>1. inbox'[h] = Tail(inbox[g])
            BY <2>2, <5>1 DEF Take
          <6>. QED BY <3>1, <5>1, <6>1, TailEntries
        <5>2. CASE h # g
          BY <2>2, <5>2 DEF Take
        <5>. QED BY <5>1, <5>2
      <4>. QED BY <4>1
    <3>5. UNCHANGED <<page, answers>>
      BY <2>2 DEF Take
    <3>6. NumberedBy(num)'
      BY <3>3, <3>4, <3>5
    <3>. QED BY <3>6, <1>0
  <2>3. CASE Finish(g)
    BY <2>3, <1>0 DEF Finish
  <2>4. CASE Supersede(g)
    BY <2>4, <1>0 DEF Supersede, Close
  <2>5. CASE Break(g)
    BY <2>5, <1>0 DEF Break, Close
  <2>. QED BY <1>4, <2>1, <2>2, <2>3, <2>4, <2>5
<1>5. ASSUME NEW r \in Requests, Issue(r) PROVE Numbered'
  <2> DEFINE new == [id |-> seq + 1, req |-> r]
  <2>0. PICK next \in [Requests -> Nat] : next = [num EXCEPT ![r] = seq + 1]
    <3>1. seq + 1 \in Nat
      OBVIOUS
    <3>2. [num EXCEPT ![r] = seq + 1] \in [Requests -> Nat]
      BY <3>1, Zenon
    <3>. QED BY <3>2, Zenon
  <2>1. new \in Call
    OBVIOUS
  <2>2. /\ issued[r] = 0 /\ issued' = [issued EXCEPT ![r] = document]
        /\ seq' = seq + 1 /\ callbacks' = callbacks \cup {new}
        /\ UNCHANGED <<running, answers, document>>
    BY <1>5 DEF Issue
  <2>3. /\ \A q, s \in Requests :
              q # s /\ issued'[q] # 0 /\ issued'[q] = issued'[s] => next[q] # next[s]
        /\ \A q \in Requests : issued'[q] = document => next[q] <= seq'
    BY <2>0, <2>2
  <2>4. \A c \in callbacks' : issued'[c.req] = document /\ c.id = next[c.req]
    BY <2>0, <2>1, <2>2
  <2>5. ASSUME NEW g \in Sessions, NEW i \in DOMAIN inbox'[g]
        PROVE  issued'[inbox'[g][i].req] # 0 /\ inbox'[g][i].id = next[inbox'[g][i].req]
    <3>1. inbox'[g][i] = new \/ (i \in DOMAIN inbox[g] /\ inbox'[g][i] = inbox[g][i])
      <4>1. inbox'[g] = inbox[g] \/ inbox'[g] = Append(inbox[g], new)
        BY <1>5 DEF Issue
      <4>2. inbox[g] \in Seq(Call)
        OBVIOUS
      <4> HIDE DEF Call, new, TypeOK, NumberedBy, Asked
      <4>3. \A k \in DOMAIN Append(inbox[g], new) :
              \/ Append(inbox[g], new)[k] = new
              \/ (k \in DOMAIN inbox[g] /\ Append(inbox[g], new)[k] = inbox[g][k])
        BY <2>1, <4>2, AppendEntries
      <4>4. CASE inbox'[g] = inbox[g]
        BY <4>4, Zenon
      <4>5. CASE inbox'[g] = Append(inbox[g], new)
        BY <4>3, <4>5, Zenon
      <4>. QED BY <4>1, <4>4, <4>5
    <3>2. CASE inbox'[g][i] = new
      BY <2>0, <2>1, <2>2, <3>2
    <3>3. CASE i \in DOMAIN inbox[g] /\ inbox'[g][i] = inbox[g][i]
      <4>1. inbox[g][i] \in Call
        <5> inbox[g] \in Seq(Call)
          OBVIOUS
        <5> HIDE DEF Call
        <5> QED BY <3>3
      <4>2. issued[inbox[g][i].req] # 0 /\ inbox[g][i].id = num[inbox[g][i].req]
        BY <3>3
      <4>. QED BY <2>0, <2>2, <3>3, <4>1, <4>2
    <3>. QED BY <3>1, <3>2, <3>3
  <2>6. \A g \in Sessions : \A c \in running'[g] : issued'[c.req] # 0 /\ c.id = next[c.req]
    BY <2>0, <2>2
  <2>7. \A b \in answers' : issued'[b.req] # 0 /\ b.id = next[b.req]
    BY <2>0, <2>2
  <2>8. NumberedBy(next)'
    BY <2>2, <2>3, <2>4, <2>5, <2>6, <2>7
  <2>. QED BY <2>8 DEF Numbered
<1>6. ASSUME NEW a \in answers, Deliver(a) PROVE Numbered'
    BY <1>6, <1>0 DEF Deliver
<1>7. CASE Reload
    BY <1>7, <1>0 DEF Reload
<1>. QED BY <1>1, <1>2, <1>3, <1>4, <1>5, <1>6, <1>7 DEF Next

\* Every step keeps what is known of settled requests.
LEMMA AskedNext == TypeOK /\ Numbered /\ Asked /\ [Next]_vars => Asked'
<1> SUFFICES ASSUME TypeOK, Asked, [Next]_vars,
                    NEW num \in [Requests -> Nat], NumberedBy(num)
             PROVE  Asked'
    BY DEF Numbered
<1> USE BridgeAssumption DEF TypeOK, NumberedBy, Asked, Call, launcher, page
<1>1. CASE UNCHANGED vars
    BY <1>1 DEF vars, launcher, page
<1>2. CASE Revive \/ Reinstall
    BY <1>2 DEF Revive, Reinstall, Open
<1>3. ASSUME NEW g \in Sessions, Install(g) PROVE Asked'
  <2>1. CASE Bind(g)
    BY <2>1 DEF Bind
  <2>2. CASE Register(g)
    BY <2>2 DEF Register
  <2>3. CASE Evaluate(g)
    BY <2>3 DEF Evaluate
  <2>4. CASE Publish(g)
    BY <2>4 DEF Publish
  <2>. QED BY <1>3, <2>1, <2>2, <2>3, <2>4 DEF Install
<1>4. ASSUME NEW g \in Sessions,
             InstallFail(g) \/ Take(g) \/ Finish(g) \/ Supersede(g) \/ Break(g)
      PROVE  Asked'
  <2>1. CASE InstallFail(g)
    BY <2>1 DEF InstallFail
  <2>2. CASE Take(g)
    BY <2>2 DEF Take
  <2>3. CASE Finish(g)
    BY <2>3 DEF Finish
  <2>4. CASE Supersede(g)
    BY <2>4 DEF Supersede, Close
  <2>5. CASE Break(g)
    BY <2>5 DEF Break, Close
  <2>. QED BY <1>4, <2>1, <2>2, <2>3, <2>4, <2>5
<1>5. ASSUME NEW r \in Requests, Issue(r) PROVE Asked'
    BY <1>5 DEF Issue
<1>6. ASSUME NEW a \in answers, Deliver(a) PROVE Asked'
    BY <1>6 DEF Deliver
<1>7. CASE Reload
    BY <1>7 DEF Reload
<1>. QED BY <1>1, <1>2, <1>3, <1>4, <1>5, <1>6, <1>7 DEF Next

\* An answer that runs a callback of its own document runs its own.
LEMMA ApartNext ==
    TypeOK /\ Numbered /\ Asked /\ AnswersStayApart /\ [Next]_vars => AnswersStayApart'
<1> SUFFICES ASSUME TypeOK, Asked, AnswersStayApart, [Next]_vars,
                    NEW num \in [Requests -> Nat], NumberedBy(num)
             PROVE  AnswersStayApart'
    BY DEF Numbered
<1> USE BridgeAssumption DEF TypeOK, NumberedBy, Asked, AnswersStayApart, Call, launcher, page
<1>1. CASE UNCHANGED vars
    BY <1>1 DEF vars, launcher, page
<1>2. CASE Revive \/ Reinstall
    BY <1>2 DEF Revive, Reinstall, Open
<1>3. ASSUME NEW g \in Sessions, Install(g) PROVE AnswersStayApart'
  <2>1. CASE Bind(g)
    BY <2>1 DEF Bind
  <2>2. CASE Register(g)
    BY <2>2 DEF Register
  <2>3. CASE Evaluate(g)
    BY <2>3 DEF Evaluate
  <2>4. CASE Publish(g)
    BY <2>4 DEF Publish
  <2>. QED BY <1>3, <2>1, <2>2, <2>3, <2>4 DEF Install
<1>4. ASSUME NEW g \in Sessions,
             InstallFail(g) \/ Take(g) \/ Finish(g) \/ Supersede(g) \/ Break(g)
      PROVE  AnswersStayApart'
  <2>1. CASE InstallFail(g)
    BY <2>1 DEF InstallFail
  <2>2. CASE Take(g)
    BY <2>2 DEF Take
  <2>3. CASE Finish(g)
    BY <2>3 DEF Finish
  <2>4. CASE Supersede(g)
    BY <2>4 DEF Supersede, Close
  <2>5. CASE Break(g)
    BY <2>5 DEF Break, Close
  <2>. QED BY <1>4, <2>1, <2>2, <2>3, <2>4, <2>5
<1>5. ASSUME NEW r \in Requests, Issue(r) PROVE AnswersStayApart'
    BY <1>5 DEF Issue
<1>6. ASSUME NEW a \in answers, Deliver(a) PROVE AnswersStayApart'
    BY <1>6 DEF Deliver
<1>7. CASE Reload
    BY <1>7 DEF Reload
<1>. QED BY <1>1, <1>2, <1>3, <1>4, <1>5, <1>6, <1>7 DEF Next

\* A step that leaves the page alone, puts nothing new in the way of publishing
\* and takes nothing from the current session loses no request.
LEMMA KeptFrame ==
    ASSUME Kept, UNCHANGED <<document, callbacks, issued, answer>>,
           \A g \in Sessions : phase'[g] = "evaluated" =>
               phase[g] = "evaluated" /\ inbox'[g] = inbox[g] /\ running'[g] = running[g],
           current' # 0 => current' = current /\ \A q \in Requests : Carried(q) => Carried(q)'
    PROVE  Kept'
<1> SUFFICES ASSUME NEW q \in Requests, Waiting(q)'
             PROVE  /\ \E c \in callbacks' : c.req = q
                    /\ \A g \in Sessions : phase'[g] = "evaluated" => Holds(g, q)'
                    /\ current' # 0 => Carried(q)'
    BY DEF Kept, Dead
<1>1. Waiting(q)
    BY DEF Waiting
<1>2. ASSUME NEW g \in Sessions, phase'[g] = "evaluated" PROVE Holds(g, q)'
    BY <1>1, <1>2 DEF Kept, Holds
<1>. QED BY <1>1, <1>2 DEF Kept, Dead

\* Whoever hands a request on, hands it to someone who keeps it.
LEMMA KeptNext == TypeOK /\ Allocated /\ Numbered /\ Asked /\ Kept /\ [Next]_vars => Kept'
<1> SUFFICES ASSUME TypeOK, Allocated, Asked, Kept, [Next]_vars,
                    NEW num \in [Requests -> Nat], NumberedBy(num)
             PROVE  Kept'
    BY DEF Numbered
<1> USE BridgeAssumption DEF TypeOK, Allocated, Sessions, launcher, page
<1>1. CASE UNCHANGED vars
  <2>1. UNCHANGED <<launcher, page, answers>>
    BY <1>1 DEF vars
  <2>2. \A q \in Requests : Carried(q) => Carried(q)'
    BY <2>1 DEF Carried, Holds
  <2>. QED BY <2>1, <2>2, KeptFrame
<1>2. CASE Revive \/ Reinstall
  <2>1. Open
    BY <1>2 DEF Revive, Reinstall
  <2>2. UNCHANGED <<page, inbox, running, current, answers>>
    BY <2>1 DEF Open
  <2>3. \A h \in Sessions : phase'[h] = "evaluated" => phase[h] = "evaluated"
    BY <2>1 DEF Open
  <2>4. \A q \in Requests : Carried(q) => Carried(q)'
    BY <2>2 DEF Carried, Holds
  <2>. QED BY <2>2, <2>3, <2>4, KeptFrame
<1>3. ASSUME NEW g \in Sessions, Install(g) PROVE Kept'
  <2>1. CASE Bind(g)
    <3>1. UNCHANGED <<page, inbox, running, current, answers>>
      BY <2>1 DEF Bind
    <3>2. \A h \in Sessions : phase'[h] = "evaluated" => phase[h] = "evaluated"
      BY <2>1 DEF Bind
    <3>3. \A q \in Requests : Carried(q) => Carried(q)'
      BY <3>1 DEF Carried, Holds
    <3>. QED BY <3>1, <3>2, <3>3, KeptFrame
  <2>2. CASE Register(g)
    <3>1. UNCHANGED <<page, inbox, running, current, answers>>
      BY <2>2 DEF Register
    <3>2. \A h \in Sessions : phase'[h] = "evaluated" => phase[h] = "evaluated"
      BY <2>2 DEF Register
    <3>3. \A q \in Requests : Carried(q) => Carried(q)'
      BY <3>1 DEF Carried, Holds
    <3>. QED BY <3>1, <3>2, <3>3, KeptFrame
  <2>3. CASE Evaluate(g)
    <3>1. \A q \in Requests : ~Waiting(q)'
      BY <2>3 DEF Evaluate, Kept, Waiting
    <3>. QED BY <3>1 DEF Kept
  <2>4. CASE Publish(g)
    <3>1. UNCHANGED <<running, page, answers>> /\ phase[g] = "evaluated"
      BY <2>4 DEF Publish
    <3>2. CASE /\ current' = g
               /\ phase' = [phase EXCEPT ![g] = "serving"]
               /\ UNCHANGED inbox
      <4>1. ASSUME NEW q \in Requests, Waiting(q)'
            PROVE  /\ \E c \in callbacks' : c.req = q
                   /\ \A h \in Sessions : phase'[h] = "evaluated" => Holds(h, q)'
                   /\ Carried(q)'
        <5>1. Waiting(q)
          BY <3>1, <4>1 DEF Waiting
        <5>2. \A h \in Sessions : phase[h] = "evaluated" => Holds(h, q)'
          BY <3>1, <3>2, <5>1 DEF Kept, Holds
        <5>3. \A h \in Sessions : phase'[h] = "evaluated" => phase[h] = "evaluated"
          BY <3>2
        <5>4. Carried(q)'
          BY <3>1, <3>2, <5>2 DEF Carried, Holds
        <5>. QED BY <3>1, <5>1, <5>2, <5>3, <5>4 DEF Kept
      <4>. QED BY <4>1 DEF Kept
    <3>3. CASE /\ phase' = [phase EXCEPT ![g] = "closed"]
               /\ inbox' = [inbox EXCEPT ![g] = << >>]
               /\ UNCHANGED current
      <4>1. /\ \A h \in Sessions : phase'[h] = "evaluated" =>
                 phase[h] = "evaluated" /\ inbox'[h] = inbox[h] /\ running'[h] = running[h]
            /\ current # 0 => inbox'[current] = inbox[current]
        BY <3>1, <3>3
      <4>2. \A q \in Requests : current # 0 /\ Carried(q) => Carried(q)'
        BY <3>1, <3>3, <4>1 DEF Carried, Holds
      <4>. QED BY <3>1, <3>3, <4>1, <4>2, KeptFrame
    <3>. QED BY <2>4, <3>2, <3>3 DEF Publish
  <2>. QED BY <1>3, <2>1, <2>2, <2>3, <2>4 DEF Install
<1>4. ASSUME NEW g \in Sessions,
             InstallFail(g) \/ Take(g) \/ Finish(g) \/ Supersede(g) \/ Break(g)
      PROVE  Kept'
  <2>1. CASE InstallFail(g)
    <3>1. UNCHANGED <<running, page, answers, current>>
      BY <2>1 DEF InstallFail
    <3>2. /\ \A h \in Sessions : phase'[h] = "evaluated" =>
               phase[h] = "evaluated" /\ inbox'[h] = inbox[h] /\ running'[h] = running[h]
          /\ current # 0 => inbox'[current] = inbox[current]
      BY <2>1 DEF InstallFail, Installing
    <3>3. \A q \in Requests : current # 0 /\ Carried(q) => Carried(q)'
      BY <3>1, <3>2 DEF Carried, Holds
    <3>. QED BY <3>1, <3>2, <3>3, KeptFrame
  <2>2. CASE Take(g)
    <3>1. /\ UNCHANGED <<phase, page, answers, current>>
          /\ phase[g] = "serving" /\ current = g
          /\ inbox[g] \in Seq(Call) /\ inbox[g] # << >>
      BY <2>2 DEF Take
    <3>2. /\ inbox' = [inbox EXCEPT ![g] = Tail(@)]
          /\ running' = [running EXCEPT ![g] = @ \cup {Head(inbox[g])}]
      BY <2>2 DEF Take
    <3>3. \A h \in Sessions : phase'[h] = "evaluated" =>
            phase[h] = "evaluated" /\ inbox'[h] = inbox[h] /\ running'[h] = running[h]
      BY <3>1, <3>2
    <3>4. ASSUME NEW q \in Requests, Holds(g, q) PROVE Holds(g, q)'
      <4>1. inbox'[g] = Tail(inbox[g]) /\ running'[g] = running[g] \cup {Head(inbox[g])}
        BY <3>2
      <4>2. CASE \E c \in running[g] : c.req = q
        BY <4>1, <4>2 DEF Holds
      <4>3. ASSUME NEW i \in DOMAIN inbox[g], inbox[g][i].req = q PROVE Holds(g, q)'
        BY <3>1, <4>1, <4>3, TailEntries DEF Holds
      <4>. QED BY <3>4, <4>2, <4>3 DEF Holds
    <3>5. \A q \in Requests : Carried(q) => Carried(q)'
      BY <3>1, <3>4 DEF Carried
    <3>. QED BY <3>1, <3>3, <3>5, KeptFrame
  <2>3. CASE Finish(g)
    <3>1. PICK call \in running[g] :
            /\ running' = [running EXCEPT ![g] = @ \ {call}]
            /\ answers' = IF current = g
                          THEN answers \cup {[id |-> call.id, req |-> call.req, by |-> g]}
                          ELSE answers
      BY <2>3 DEF Finish
    <3>2. UNCHANGED <<phase, inbox, page, current>> /\ phase[g] = "serving"
      BY <2>3 DEF Finish
    <3>3. \A h \in Sessions : phase'[h] = "evaluated" =>
            phase[h] = "evaluated" /\ inbox'[h] = inbox[h] /\ running'[h] = running[h]
      BY <3>1, <3>2
    <3>4. ASSUME NEW q \in Requests, current # 0, Carried(q) PROVE Carried(q)'
      <4>1. CASE current # g
        BY <3>1, <3>2, <3>4, <4>1 DEF Carried, Holds
      <4>2. CASE current = g
        <5>1. [id |-> call.id, req |-> call.req, by |-> g] \in answers' /\ answers \subseteq answers'
          BY <3>1, <4>2
        <5>2. \A c \in running[g] : c = call \/ c \in running'[g]
          BY <3>1
        <5>3. CASE call.req = q
          BY <3>2, <4>2, <5>1, <5>3 DEF Carried
        <5>4. CASE call.req # q
          BY <3>2, <3>4, <4>2, <5>1, <5>2, <5>4 DEF Carried, Holds
        <5>. QED BY <5>3, <5>4
      <4>. QED BY <4>1, <4>2
    <3>. QED BY <3>2, <3>3, <3>4, KeptFrame
  <2>4. CASE Supersede(g)
    <3>1. UNCHANGED page
      BY <2>4 DEF Supersede, Close
    <3>2. /\ \A h \in Sessions : phase'[h] = "evaluated" =>
               phase[h] = "evaluated" /\ inbox'[h] = inbox[h] /\ running'[h] = running[h]
          /\ current' # 0 => /\ current' = current /\ current # g
                             /\ inbox'[current] = inbox[current]
                             /\ running'[current] = running[current]
      BY <2>4 DEF Supersede, Close
    <3>3. \A b \in answers : b.by = g \/ b \in answers'
      BY <2>4 DEF Supersede
    <3>4. \A q \in Requests : current' # 0 /\ Carried(q) => Carried(q)'
      BY <3>2, <3>3 DEF Carried, Holds
    <3>. QED BY <3>1, <3>2, <3>4, KeptFrame
  <2>5. CASE Break(g)
    <3>1. UNCHANGED page
      BY <2>5 DEF Break, Close
    <3>2. /\ \A h \in Sessions : phase'[h] = "evaluated" =>
               phase[h] = "evaluated" /\ inbox'[h] = inbox[h] /\ running'[h] = running[h]
          /\ current' # 0 => /\ current' = current /\ current # g
                             /\ inbox'[current] = inbox[current]
                             /\ running'[current] = running[current]
      BY <2>5 DEF Break, Close
    <3>3. \A b \in answers : b.by = g \/ b \in answers'
      BY <2>5 DEF Break
    <3>4. \A q \in Requests : current' # 0 /\ Carried(q) => Carried(q)'
      BY <3>2, <3>3 DEF Carried, Holds
    <3>. QED BY <3>1, <3>2, <3>4, KeptFrame
  <2>. QED BY <1>4, <2>1, <2>2, <2>3, <2>4, <2>5
<1>5. ASSUME NEW r \in Requests, Issue(r) PROVE Kept'
  <2> DEFINE new == [id |-> seq + 1, req |-> r]
  <2>1. /\ issued[r] = 0 /\ issued' = [issued EXCEPT ![r] = document]
        /\ callbacks' = callbacks \cup {new}
        /\ UNCHANGED <<phase, running, current, answers, document, answer>>
    BY <1>5 DEF Issue
  <2>2. \A h \in Sessions :
          inbox'[h] = IF Listens(h) THEN Append(inbox[h], new) ELSE inbox[h]
    BY <1>5 DEF Issue
  <2>3. new \in Call /\ new.req = r
    BY DEF Call
  <2>4. ASSUME NEW h \in Sessions, NEW q \in Requests, Holds(h, q) PROVE Holds(h, q)'
    <3>1. inbox[h] \in Seq(Call) /\ running'[h] = running[h]
      BY <2>1
    <3>2. \A i \in DOMAIN inbox[h] : i \in DOMAIN inbox'[h] /\ inbox'[h][i] = inbox[h][i]
      <4> HIDE DEF new, TypeOK
      <4>1. \A i \in DOMAIN inbox[h] :
              /\ i \in DOMAIN Append(inbox[h], new)
              /\ Append(inbox[h], new)[i] = inbox[h][i]
        BY <2>3, <3>1, AppendEntries
      <4>2. CASE inbox'[h] = inbox[h]
        BY <4>2, Zenon
      <4>3. CASE inbox'[h] = Append(inbox[h], new)
        BY <4>1, <4>3, Zenon
      <4>. QED BY <2>2, <4>2, <4>3
    <3>. QED BY <2>4, <3>1, <3>2 DEF Holds
  <2>5. ASSUME NEW h \in Sessions, phase[h] \in {"evaluated", "serving"} PROVE Holds(h, r)'
    <3>1. inbox'[h] = Append(inbox[h], new)
      BY <2>2, <2>5 DEF Listens
    <3>2. \E i \in DOMAIN inbox'[h] : inbox'[h][i] = new
      <4>1. inbox[h] \in Seq(Call)
        OBVIOUS
      <4> HIDE DEF new, TypeOK
      <4>2. \E i \in DOMAIN Append(inbox[h], new) : Append(inbox[h], new)[i] = new
        BY <2>3, <4>1, AppendEntries
      <4>. QED BY <3>1, <4>2, Zenon
    <3>. QED BY <2>3, <3>2 DEF Holds
  <2>6. ASSUME NEW q \in Requests, Waiting(q)'
        PROVE  /\ \E c \in callbacks' : c.req = q
               /\ \A h \in Sessions : phase'[h] = "evaluated" => Holds(h, q)'
               /\ current' # 0 => Carried(q)'
    <3>1. CASE q = r
      BY <2>1, <2>3, <2>5, <3>1 DEF Carried
    <3>2. CASE q # r
      <4>1. Waiting(q)
        BY <2>1, <2>6, <3>2 DEF Waiting
      <4>2. \E c \in callbacks' : c.req = q
        BY <2>1, <4>1 DEF Kept
      <4>3. \A h \in Sessions : phase'[h] = "evaluated" => Holds(h, q)'
        BY <2>1, <2>4, <4>1 DEF Kept
      <4>4. current' # 0 => Carried(q)'
        BY <2>1, <2>4, <4>1 DEF Kept, Dead, Carried
      <4>. QED BY <4>2, <4>3, <4>4
    <3>. QED BY <3>1, <3>2
  <2>. QED BY <2>6 DEF Kept, Dead
<1>6. ASSUME NEW a \in answers, Deliver(a) PROVE Kept'
  <2> DEFINE named == {c \in callbacks : scripted /\ c.id = a.id}
  <2>1. /\ answers' = answers \ {a} /\ callbacks' = callbacks \ named
        /\ answer' = [q \in Requests |->
                        IF \E c \in named : c.req = q THEN a.req ELSE answer[q]]
        /\ UNCHANGED <<launcher, document, issued>>
    BY <1>6 DEF Deliver
  <2>2. ASSUME NEW q \in Requests, Waiting(q)'
        PROVE  /\ \E c \in callbacks' : c.req = q
               /\ \A h \in Sessions : phase'[h] = "evaluated" => Holds(h, q)'
               /\ current' # 0 => Carried(q)'
    <3>1. Waiting(q) /\ ~\E c \in named : c.req = q
      <4>1. a.req # NoAnswer
        OBVIOUS
      <4>. QED BY <2>1, <2>2, <4>1 DEF Waiting
    <3>2. PICK c \in callbacks : c.req = q
      BY <3>1 DEF Kept
    <3>3. c \in callbacks'
      BY <2>1, <3>1, <3>2
    <3>4. a.req # q
      <4>1. scripted /\ c.id = num[q] /\ c.id # a.id
        BY <3>1, <3>2 DEF Asked, NumberedBy
      <4>2. a.id = num[a.req]
        BY DEF NumberedBy
      <4>. QED BY <4>1, <4>2
    <3>5. \A h \in Sessions : phase'[h] = "evaluated" => Holds(h, q)'
      BY <2>1, <3>1 DEF Kept, Holds
    <3>6. current' # 0 => Carried(q)'
      <4>1. current # 0 => Carried(q)
        BY <3>1 DEF Kept, Dead
      <4>. QED BY <2>1, <3>4, <4>1 DEF Carried, Holds
    <3>. QED BY <3>2, <3>3, <3>5, <3>6
  <2>. QED BY <2>2 DEF Kept, Dead
<1>7. CASE Reload
  <2>1. \A q \in Requests : ~Waiting(q)'
    BY <1>7 DEF Reload, Waiting, Asked
  <2>. QED BY <2>1 DEF Kept
<1>. QED BY <1>1, <1>2, <1>3, <1>4, <1>5, <1>6, <1>7 DEF Next

LEMMA InitIInv == Init => IInv
<1> SUFFICES ASSUME Init PROVE IInv
    OBVIOUS
<1> USE BridgeAssumption DEF Init
<1>1. TypeOK
  <2>1. << >> \in Seq(Call)
    OBVIOUS
  <2>2. inbox \in [Sessions -> Seq(Call)]
    BY <2>1
  <2>3. /\ running \in [Sessions -> SUBSET Call] /\ callbacks \subseteq Call
        /\ answers \subseteq [id : Nat, req : Requests, by : Sessions]
        /\ handled \in [Requests -> SUBSET Sessions]
    OBVIOUS
  <2>4. /\ issued \in [Requests -> Nat]
        /\ answer \in [Requests -> Requests \cup {NoAnswer, Reconnected}]
    OBVIOUS
  <2>5. /\ made \in 0..MaxInstalls /\ phase \in [Sessions -> Phases]
        /\ current \in {0} \cup Sessions /\ current = 0
        /\ document \in Nat /\ seq \in Nat /\ faults \in Nat
    BY DEF Phases
  <2>6. scripted \in BOOLEAN
    BY Zenon
  <2>. QED BY <2>2, <2>3, <2>4, <2>5, <2>6, Zenon DEF TypeOK
<1>2. Allocated
    BY DEF Allocated, Sessions
<1>3. Numbered
  <2>1. [r \in Requests |-> 0] \in [Requests -> Nat]
    OBVIOUS
  <2>2. NumberedBy([r \in Requests |-> 0])
    BY DEF NumberedBy
  <2>. QED BY <2>1, <2>2 DEF Numbered
<1>4. Asked
    BY DEF Asked
<1>5. AnswersStayApart
    BY DEF AnswersStayApart
<1>6. Kept
    BY DEF Kept, Waiting
<1>. QED BY <1>1, <1>2, <1>3, <1>4, <1>5, <1>6 DEF IInv

LEMMA NextIInv == IInv /\ [Next]_vars => IInv'
    BY TypesNext, NumberedNext, AskedNext, ApartNext, KeptNext DEF IInv

-----------------------------------------------------------------------------
\* IInv holds in every state.
THEOREM BridgeInvariant == Spec => []IInv
    BY InitIInv, NextIInv, PTL DEF Spec

\* Every variable has its type, and the current generation is that of a session
\* that serves: a broken or superseded one never keeps the page (bridge.rs:86).
THEOREM BridgeTypes == Spec => []TypeOK
    BY BridgeInvariant, PTL DEF IInv

\* A response never settles another request of the same document, however often
\* the script is installed again in between (bridge.rs:116).
THEOREM AnswersNeverCross == Spec => []AnswersStayApart
    BY BridgeInvariant, PTL DEF IInv

\* While a session serves the page, it has or has answered every request the
\* page waits for, also if the page asked before the session was current.
THEOREM RequestsAreKept == Spec => []NoRequestLost
<1>1. IInv => NoRequestLost
    BY DEF IInv, Kept, NoRequestLost, Carried
<1>. QED BY <1>1, BridgeInvariant, PTL

\* A session that was overtaken is not current again (bridge.rs:62).
THEOREM OvertakenForGood == Spec => NewestServes
<1>1. TypeOK /\ [Next]_vars =>
        [\A g \in Sessions : current' = g =>
            /\ g >= current
            /\ phase[g] = "serving" => current = g]_vars
  <2> SUFFICES ASSUME TypeOK, [Next]_vars, NEW g \in Sessions, current' = g
               PROVE  g >= current /\ (phase[g] = "serving" => current = g)
    OBVIOUS
  <2> USE DEF TypeOK, Sessions
  <2>1. CASE UNCHANGED current
    BY <2>1
  <2>2. ASSUME NEW h \in Sessions, Publish(h), current # current'
        PROVE  g >= current /\ (phase[g] = "serving" => current = g)
    BY <2>2 DEF Publish
  <2>3. ASSUME NEW h \in Sessions, Close(h), current # current' PROVE FALSE
    BY <2>3 DEF Close
  <2>4. current' # current => \E h \in Sessions : Publish(h) \/ Close(h)
    BY DEF Next, vars, launcher, page, Revive, Reinstall, Open, Install, Bind, Register,
           Evaluate, InstallFail, Take, Finish, Supersede, Break, Issue, Deliver, Reload
  <2>. QED BY <2>1, <2>2, <2>3, <2>4
<1>2. IInv => TypeOK
    BY DEF IInv
<1>. QED BY <1>1, <1>2, BridgeInvariant, PTL DEF Spec, NewestServes

-----------------------------------------------------------------------------
(* The bridge implements the request port.  On top of IInv this takes that  *)
(* only a request that was handled has a response, and only one that is not *)
(* settled a callback.                                                      *)
Handled ==
    /\ \A a \in answers : handled[a.req] # {}
    /\ \A g \in Sessions : \A c \in running[g] : handled[c.req] # {}
    /\ \A c \in callbacks : answer[c.req] = NoAnswer

\* A response that runs a callback takes every callback of that request away.
LEMMA HandledNext == IInv /\ Handled /\ [Next]_vars => Handled'
<1> SUFFICES ASSUME IInv, Handled, [Next]_vars,
                    NEW num \in [Requests -> Nat], NumberedBy(num)
             PROVE  Handled'
    BY DEF IInv, Numbered
<1>0. TypeOK /\ Asked
    BY DEF IInv
<1> USE BridgeAssumption, <1>0 DEF TypeOK, Handled, Call, launcher, page
<1>1. CASE UNCHANGED vars
    BY <1>1 DEF vars
<1>2. CASE Revive \/ Reinstall
    BY <1>2 DEF Revive, Reinstall, Open
<1>3. ASSUME NEW g \in Sessions, Install(g) PROVE Handled'
    BY <1>3 DEF Install, Bind, Register, Evaluate, Publish
<1>4. ASSUME NEW g \in Sessions,
             InstallFail(g) \/ Take(g) \/ Finish(g) \/ Supersede(g) \/ Break(g)
      PROVE  Handled'
  <2>1. CASE InstallFail(g)
    BY <2>1 DEF InstallFail
  <2>2. CASE Take(g)
    <3>1. Head(inbox[g]) \in Call
      BY <2>2, HeadAndTail DEF Take
    <3>2. PICK call \in Call :
            /\ running' = [running EXCEPT ![g] = @ \cup {call}]
            /\ handled' = [handled EXCEPT ![call.req] = @ \cup {g}]
            /\ UNCHANGED <<page, answers>>
      BY <2>2, <3>1 DEF Take
    <3>3. /\ handled'[call.req] # {}
          /\ \A q \in Requests : handled[q] # {} => handled'[q] # {}
      BY <3>2
    <3>4. \A h \in Sessions : \A c \in running'[h] : c \in running[h] \/ c = call
      <4>1. running \in [Sessions -> SUBSET Call]
        OBVIOUS
      <4>2. running'[g] = running[g] \cup {call}
        <5> HIDE DEF TypeOK, Handled, Call
        <5>. QED BY <3>2, <4>1
      <4>3. \A h \in Sessions : h # g => running'[h] = running[h]
        BY <3>2, <4>1
      <4>. QED BY <4>2, <4>3
    <3>5. ASSUME NEW h \in Sessions, NEW c \in running'[h] PROVE handled'[c.req] # {}
      <4>1. CASE c \in running[h]
        <5>1. c.req \in Requests /\ handled[c.req] # {}
          BY <4>1
        <5>. QED BY <3>3, <5>1
      <4>. QED BY <3>3, <3>4, <4>1
    <3>6. \A a \in answers' : handled'[a.req] # {}
      BY <3>2, <3>3
    <3>. QED BY <3>2, <3>5, <3>6
  <2>3. CASE Finish(g)
    <3>1. PICK call \in running[g] :
            /\ running' = [running EXCEPT ![g] = @ \ {call}]
            /\ answers' = IF current = g
                          THEN answers \cup {[id |-> call.id, req |-> call.req, by |-> g]}
                          ELSE answers
      BY <2>3 DEF Finish
    <3>2. \A h \in Sessions : running'[h] \subseteq running[h]
      BY <3>1
    <3>3. \A a \in answers' : a \in answers \/ a.req = call.req
      BY <3>1
    <3>4. UNCHANGED <<page, handled>>
      BY <2>3 DEF Finish
    <3>. QED BY <3>2, <3>3, <3>4
  <2>4. CASE Supersede(g)
    BY <2>4 DEF Supersede, Close
  <2>5. CASE Break(g)
    BY <2>5 DEF Break, Close
  <2>. QED BY <1>4, <2>1, <2>2, <2>3, <2>4, <2>5
<1>5. ASSUME NEW r \in Requests, Issue(r) PROVE Handled'
  <2>1. answer[r] = NoAnswer
    BY <1>5 DEF Issue, Asked
  <2>. QED BY <1>5, <2>1 DEF Issue
<1>6. ASSUME NEW a \in answers, Deliver(a) PROVE Handled'
  <2>1. ASSUME NEW c \in callbacks, NEW d \in callbacks, c.req = d.req, d.id = a.id
        PROVE  c.id = a.id
    BY <2>1 DEF NumberedBy
  <2>2. callbacks # {} => scripted
    BY DEF Asked
  <2>3. \A c \in callbacks' : answer'[c.req] = answer[c.req]
    BY <1>6, <2>1, <2>2 DEF Deliver
  <2>4. callbacks' \subseteq callbacks
    BY <1>6 DEF Deliver
  <2>5. answers' \subseteq answers /\ UNCHANGED <<running, handled>>
    BY <1>6 DEF Deliver
  <2>. QED BY <2>3, <2>4, <2>5
<1>7. CASE Reload
    BY <1>7 DEF Reload
<1>. QED BY <1>1, <1>2, <1>3, <1>4, <1>5, <1>6, <1>7 DEF Next

-----------------------------------------------------------------------------
\* The bridge starts as a port does.
LEMMA PortInit == Init => Port!Init
    BY DEF Init, Port!Init

\* A new script settles exactly what the page waits for.
LEMMA EvaluateReconnects ==
    ASSUME IInv, Handled, NEW g \in Sessions, Evaluate(g)
    PROVE  Port!Reconnect
<1>1. PICK num \in [Requests -> Nat] : NumberedBy(num)
    BY DEF IInv, Numbered
<1>2. ASSUME NEW r \in Requests
      PROVE  (\E c \in callbacks : c.req = r) <=> Port!Waits(r)
  <2>1. ASSUME NEW c \in callbacks, c.req = r PROVE Port!Waits(r)
    BY <1>1, <2>1 DEF Handled, NumberedBy, Port!Waits
  <2>2. Port!Waits(r) => \E c \in callbacks : c.req = r
    BY DEF Port!Waits, IInv, Kept, Waiting
  <2>. QED BY <2>1, <2>2
<1>. QED BY <1>2 DEF Evaluate, Port!Reconnect

\* A response settles one request of this document that still waits, which is
\* its own or, if it comes from an earlier document, has taken its number.
LEMMA DeliverReplies ==
    ASSUME IInv, Handled, NEW a \in answers, Deliver(a)
    PROVE  \/ \E r, s \in Requests : Port!Reply(r, s)
           \/ UNCHANGED Port!vars
<1>1. PICK num \in [Requests -> Nat] : NumberedBy(num)
    BY DEF IInv, Numbered
<1> USE BridgeAssumption DEF page
<1>2. TypeOK /\ Asked
    BY DEF IInv
<1>3. a.req \in Requests /\ \A c \in callbacks : c.req \in Requests
    BY <1>2 DEF TypeOK, Call
<1>4. UNCHANGED <<document, issued, handled>>
    BY DEF Deliver
<1> DEFINE Named == {c \in callbacks : scripted /\ c.id = a.id}
<1>5. answer' = [r \in Requests |->
                    IF \E c \in Named : c.req = r THEN a.req ELSE answer[r]]
    BY DEF Deliver
<1>6. CASE Named = {}
  <2>1. answer' = answer
    BY <1>2, <1>5, <1>6 DEF TypeOK
  <2>. QED BY <1>4, <2>1 DEF Port!vars
<1>7. ASSUME NEW c \in Named PROVE Port!Reply(c.req, a.req)
  <2>1. c.req \in Requests /\ issued[c.req] = document /\ c.id = num[c.req]
    BY <1>1, <1>3 DEF NumberedBy
  <2>2. \A d \in Named : d.req = c.req
    <3> SUFFICES ASSUME NEW d \in Named, d.req # c.req PROVE FALSE
        OBVIOUS
    <3>1. d.req \in Requests /\ issued[d.req] = document /\ d.id = num[d.req]
      BY <1>1, <1>3 DEF NumberedBy
    <3>2. document # 0
      BY <1>2 DEF Asked, TypeOK
    <3>. QED BY <1>1, <2>1, <3>1, <3>2 DEF NumberedBy
  <2>3. answer' = [answer EXCEPT ![c.req] = a.req]
    <3>1. \A r \in Requests : (\E d \in Named : d.req = r) <=> r = c.req
      BY <2>2
    <3> HIDE DEF Named
    <3>2. answer \in [Requests -> Requests \cup {NoAnswer, Reconnected}]
      BY <1>2 DEF TypeOK
    <3>. QED BY <1>5, <2>1, <3>1, <3>2
  <2>4. Port!Waits(c.req)
    BY <2>1 DEF Handled, Port!Waits
  <2>5. a.req \in {r \in Requests : handled[r] # {}}
    BY <1>3 DEF Handled
  <2>6. a.req = c.req \/ issued[a.req] < document
    <3>1. /\ issued[a.req] # 0 /\ a.id = num[a.req]
          /\ issued[a.req] \in Nat /\ document \in Nat /\ issued[a.req] <= document
      BY <1>1, <1>2, <1>3 DEF NumberedBy, Asked, TypeOK
    <3>2. a.req # c.req /\ issued[a.req] = issued[c.req] => num[a.req] # num[c.req]
      BY <1>1, <1>3, <2>1, <3>1 DEF NumberedBy
    <3>. QED BY <2>1, <3>1, <3>2
  <2>. QED BY <1>4, <2>3, <2>4, <2>5, <2>6 DEF Port!Reply
<1>. QED BY <1>3, <1>6, <1>7

\* Every step of the bridge is a step of the port or none.
LEMMA PortNext == IInv /\ Handled /\ [Next]_vars => [Port!Next]_(Port!vars)
<1> SUFFICES ASSUME IInv, Handled, [Next]_vars PROVE [Port!Next]_(Port!vars)
    OBVIOUS
<1> USE DEF launcher, page
<1>1. CASE UNCHANGED vars
    BY <1>1 DEF vars, Port!vars
<1>2. CASE Revive \/ Reinstall
    BY <1>2 DEF Revive, Reinstall, Open, Port!vars
<1>3. ASSUME NEW g \in Sessions, Install(g) PROVE [Port!Next]_(Port!vars)
  <2>1. CASE Evaluate(g)
    BY <2>1, EvaluateReconnects DEF Port!Next
  <2>2. CASE Bind(g) \/ Register(g) \/ Publish(g)
    BY <2>2 DEF Bind, Register, Publish, Port!vars
  <2>. QED BY <1>3, <2>1, <2>2 DEF Install
<1>4. ASSUME NEW g \in Sessions,
             InstallFail(g) \/ Finish(g) \/ Supersede(g) \/ Break(g)
      PROVE  [Port!Next]_(Port!vars)
    BY <1>4 DEF InstallFail, Finish, Supersede, Break, Port!vars
<1>5. ASSUME NEW g \in Sessions, Take(g) PROVE [Port!Next]_(Port!vars)
  <2>1. /\ inbox \in [Sessions -> Seq(Call)] /\ inbox[g] # << >>
        /\ handled \in [Requests -> SUBSET Sessions]
    BY <1>5 DEF IInv, TypeOK, Take
  <2>2. PICK i \in DOMAIN inbox[g] : inbox[g][i] = Head(inbox[g])
    BY <2>1, TailEntries
  <2>3. inbox[g][i].req \in Requests
    <3>1. Head(inbox[g]) \in Call
      BY <2>1, HeadAndTail
    <3>. QED BY <2>2, <3>1 DEF Call
  <2>4. issued[inbox[g][i].req] # 0
    <3>1. PICK num \in [Requests -> Nat] : NumberedBy(num)
      BY DEF IInv, Numbered
    <3>. QED BY <3>1 DEF NumberedBy
  <2>5. PICK r \in Requests : r = inbox[g][i].req
    BY <2>3
  <2>6. /\ handled' = [handled EXCEPT ![r] = @ \cup {g}]
        /\ UNCHANGED <<document, issued, answer>>
    BY <1>5, <2>2, <2>5 DEF Take
  <2>7. \A q \in Requests : handled'[q] # {} <=> (handled[q] # {} \/ q = r)
    <3>1. handled'[r] = handled[r] \cup {g}
      BY <2>1, <2>5, <2>6
    <3>2. handled'[r] # {}
      BY <3>1
    <3>3. \A q \in Requests : q # r => handled'[q] = handled[q]
      BY <2>1, <2>6
    <3>. QED BY <3>2, <3>3
  <2>8. {q \in Requests : handled'[q] # {}} = {q \in Requests : handled[q] # {}} \cup {r}
    BY <2>7
  <2>9. Port!Run(r)
    BY <2>4, <2>5, <2>6, <2>8 DEF Port!Run
  <2>. QED BY <2>9 DEF Port!Next
<1>6. ASSUME NEW r \in Requests, Issue(r) PROVE [Port!Next]_(Port!vars)
  <2>1. Port!Ask(r)
    BY <1>6 DEF Issue, Port!Ask
  <2>. QED BY <2>1 DEF Port!Next
<1>7. ASSUME NEW a \in answers, Deliver(a) PROVE [Port!Next]_(Port!vars)
    BY <1>7, DeliverReplies DEF Port!Next
<1>8. CASE Reload
  <2>1. Port!Reload
    BY <1>8 DEF Reload, Port!Reload
  <2>. QED BY <2>1 DEF Port!Next
<1>. QED BY <1>1, <1>2, <1>3, <1>4, <1>5, <1>6, <1>7, <1>8 DEF Next

\* The page sees a port: a request is settled once, after it ran or by a new
\* script, and never with the result of another of its document.
THEOREM BridgeImplementsPort == Spec => ImplementsPort
<1>1. Init => Handled
    BY DEF Init, Handled
<1>2. Spec => [](IInv /\ Handled)
    BY <1>1, InitIInv, NextIInv, HandledNext, PTL DEF Spec
<1>. QED BY <1>2, PortInit, PortNext, PTL DEF Spec, ImplementsPort, Port!Spec
=============================================================================
