--------------------------- MODULE DiagnosticsFlush ---------------------------
(***************************************************************************)
(* The diagnostic log and its upload (codex-plus-core: diagnostic_log.rs;   *)
(* recodex-integration: diagnostics_flush.rs).  Several processes append    *)
(* lines to one file and cut it when it has grown too long; the user may    *)
(* clear it; one thread of the launcher that holds the single-instance lock *)
(* reads it from a watermark, kept in a file of its own as a number of      *)
(* bytes, sends what is worth reporting and saves the watermark.           *)
(*                                                                         *)
(* A "byte" is an element of the sequence log: a short entry has one, a     *)
(* long one two, a newline one.  An append is two writes, as of writeln!.   *)
(***************************************************************************)
EXTENDS Naturals, Sequences

CONSTANTS
    Writers,      \* the processes that write the log
    Entries,      \* what they log, each entry once
    Note,         \* what is logged about a log that was cut
    Reportable,   \* the entries that are uploaded
    Long,         \* the entries of two bytes
    Kind,         \* per entry: its event and error code
    MaxBytes,     \* MAX_DIAGNOSTIC_LOG_BYTES
    KeptBytes,    \* COMPACTED_DIAGNOSTIC_LOG_BYTES
    MaxPerFlush,  \* max_per_flush
    Bounds        \* the bounds to explore: clearings by the user, and incidents (crashes,
                  \* failed saves and lost answers)

All == Entries \cup {Note}
Newline == "newline"

ASSUME EntriesAssumption ==
    /\ Note \notin Entries /\ Newline \notin All
    /\ Reportable \subseteq All /\ Long \subseteq All /\ DOMAIN Kind = All
ASSUME BytesAssumption ==
    {MaxBytes, KeptBytes, MaxPerFlush} \subseteq Nat /\ KeptBytes <= MaxBytes
ASSUME BoundsAssumption == Bounds \subseteq [{"cuts", "incidents"} -> Nat]

VARIABLES
    log,      \* the bytes of the file
    gen,      \* which file it is: it is replaced or removed as a whole
    mark,     \* the saved watermark
    todo,     \* the entries not logged yet
    wr,       \* what each writer does
    fl,       \* what the flusher does
    heard,    \* per entry: how often the server has taken it, at most 2
    refused,  \* the entries the server refused
    left,     \* what is left of the bounds
    stale,    \* history: the file was cut and no watermark of the new one is saved
    excused,  \* history: the entries a stale watermark has skipped
    unsure    \* history: the entries sent of which no watermark may tell

file == <<log, gen, todo, wr>>
server == <<heard, refused>>
history == <<stale, excused, unsure>>
diagnosticsVars == <<file, mark, fl, server, left, history>>

Body(e) == IF e \in Long THEN <<e, e>> ELSE <<e>>

(* The lines of a text that are entries: each with its first byte and its end. *)
NewlinesAfter(text, from) == {i \in from + 1 .. Len(text) : text[i] = Newline}
LineEnd(text, from) == CHOOSE i \in NewlinesAfter(text, from) : \A j \in NewlinesAfter(text, from) : i <= j
EntriesOf(line) == {e \in All : line = Body(e)}
Lines(text) ==
    LET starts == {0} \cup {i \in DOMAIN text : text[i] = Newline} IN
    UNION {{<<e, i + 1, LineEnd(text, i)>> : e \in EntriesOf(SubSeq(text, i + 1, LineEnd(text, i) - 1))} :
           i \in {s \in starts : NewlinesAfter(text, s) # {}}}
Logged == {l[1] : l \in Lines(log)}

Spends(what) == left[what] > 0 /\ left' = [left EXCEPT ![what] = @ - 1]

NotWriting == [at |-> "idle", pending |-> <<>>, on |-> 0, tail |-> <<>>]
BetweenRounds ==
    [at |-> "wait", bytes |-> <<>>, on |-> 0, start |-> 0, consumed |-> 0, cursor |-> 0,
     seen |-> {}, uploaded |-> 0, sent |-> {}]
Off == [BetweenRounds EXCEPT !.at = "off"]

DiagnosticsInit ==
    /\ log = <<>> /\ gen = 0 /\ mark = 0
    /\ todo = Entries
    /\ wr = [w \in Writers |-> NotWriting]
    /\ fl = BetweenRounds
    /\ heard = [e \in All |-> 0] /\ refused = {}
    /\ left \in Bounds
    /\ stale = FALSE /\ excused = {} /\ unsure = {}

-----------------------------------------------------------------------------
(* append_diagnostic_log: the length is looked at, the log cut if it is too    *)
(* long, the file opened, the line written and then the end of the line.       *)
Becomes(w, r) == wr' = [wr EXCEPT ![w] = r]

AppendBegins(w, e) ==
    /\ wr[w] = NotWriting /\ e \in todo
    /\ todo' = todo \ {e}
    /\ Becomes(w, [NotWriting EXCEPT !.at = "open", !.pending = <<e>>])
    /\ UNCHANGED <<log, gen, mark, fl, server, left, history>>

Open(w) ==
    /\ wr[w].at = "open" /\ Len(log) <= MaxBytes
    /\ Becomes(w, [wr[w] EXCEPT !.at = "line", !.on = gen])
    /\ UNCHANGED <<log, gen, todo, mark, fl, server, left, history>>

(* compact_diagnostic_log: the tail from the first line that begins in it.     *)
KeptTail(text) ==
    LET kept == SubSeq(text, Len(text) - KeptBytes + 1, Len(text)) IN
    IF Len(text) <= KeptBytes \/ NewlinesAfter(kept, 0) = {} THEN kept
    ELSE SubSeq(kept, LineEnd(kept, 0) + 1, Len(kept))

ReadTail(w) ==
    /\ wr[w].at = "open" /\ Len(log) > MaxBytes
    /\ Becomes(w, [wr[w] EXCEPT !.at = "replace", !.tail = KeptTail(log)])
    /\ UNCHANGED <<log, gen, todo, mark, fl, server, left, history>>

(* The file is another one: who has the old one open writes into the void.     *)
Cut(text) ==
    /\ log' = text /\ gen' = gen + 1
    /\ stale' = TRUE
    /\ unsure' = unsure \cup {e \in All : heard[e] > 0} \cup fl.sent
    /\ UNCHANGED excused

ReplaceByTail(w) ==
    /\ wr[w].at = "replace"
    /\ Cut(wr[w].tail)
    /\ Becomes(w, [wr[w] EXCEPT !.at = "open", !.tail = <<>>, !.pending = <<Note>> \o @])
    /\ UNCHANGED <<todo, mark, fl, server, left>>

Adds(w, bytes) == log' = IF wr[w].on = gen THEN log \o bytes ELSE log

WriteLine(w) ==
    /\ wr[w].at = "line"
    /\ Adds(w, Body(Head(wr[w].pending)))
    /\ Becomes(w, [wr[w] EXCEPT !.at = "newline"])
    /\ UNCHANGED <<gen, todo, mark, fl, server, left, history>>

WriteNewline(w) ==
    LET rest == Tail(wr[w].pending) IN
    /\ wr[w].at = "newline"
    /\ Adds(w, <<Newline>>)
    /\ Becomes(w, IF rest = <<>> THEN NotWriting ELSE [NotWriting EXCEPT !.at = "open", !.pending = rest])
    /\ UNCHANGED <<gen, todo, mark, fl, server, left, history>>

(* clear_diagnostic_log, by the user.                                         *)
Clear ==
    /\ Spends("cuts")
    /\ Cut(<<>>)
    /\ UNCHANGED <<todo, wr, mark, fl, server>>

(* A writer dies in the middle of an append.                                  *)
WriterDies(w) ==
    /\ wr[w] # NotWriting
    /\ Spends("incidents")
    /\ Becomes(w, NotWriting)
    /\ UNCHANGED <<log, gen, todo, mark, fl, server, history>>

-----------------------------------------------------------------------------
(* flush_diagnostic_log.                                                      *)
Start(m, length) == IF m > length THEN 0 ELSE m

FlushBegins ==
    LET start == Start(mark, Len(log)) IN
    /\ fl.at = "wait" /\ log # <<>>
    /\ fl' = [BetweenRounds EXCEPT !.at = "lines", !.bytes = log, !.on = gen,
                                   !.start = start, !.consumed = start, !.cursor = start]
    /\ excused' = IF stale THEN excused \cup {l[1] : l \in {k \in Lines(log) : k[2] <= start}}
                  ELSE excused
    /\ UNCHANGED <<file, mark, server, left, stale, unsure>>

(* Only whole lines: another process is still writing the last one.           *)
HasLine(f) == NewlinesAfter(f.bytes, f.cursor) # {}
End(f) == LineEnd(f.bytes, f.cursor)
Report(f) == EntriesOf(SubSeq(f.bytes, f.cursor + 1, End(f) - 1)) \cap Reportable

Passes(f) == [f EXCEPT !.cursor = End(f), !.consumed = End(f)]
Stops(f)  == [f EXCEPT !.at = "save"]

RunsDry(f) == Stops(f)

(* No line left, or no room for another upload.                               *)
LinesEnd ==
    /\ fl.at = "lines"
    /\ ~HasLine(fl) \/ fl.uploaded >= MaxPerFlush
    /\ fl' = IF HasLine(fl) THEN Stops(fl) ELSE RunsDry(fl)
    /\ UNCHANGED <<file, mark, server, left, history>>

(* Wrong variant: a line that cannot be read ends the round.                  *)
SkipOnlyKnown ==
    LET line == SubSeq(fl.bytes, fl.cursor + 1, End(fl) - 1) IN
    /\ fl.at = "lines" /\ HasLine(fl) /\ fl.uploaded < MaxPerFlush
    /\ \A e \in Report(fl) : Kind[e] \in fl.seen
    /\ fl' = IF EntriesOf(line) = {} THEN Stops(fl) ELSE Passes(fl)
    /\ UNCHANGED <<file, mark, server, left, history>>

(* What is not worth a report or not an entry, and what is of a kind that was  *)
(* sent in this round.                                                        *)
Skip ==
    /\ fl.at = "lines" /\ HasLine(fl) /\ fl.uploaded < MaxPerFlush
    /\ \A e \in Report(fl) : Kind[e] \in fl.seen
    /\ fl' = Passes(fl)
    /\ UNCHANGED <<file, mark, server, left, history>>

Asks(e) ==
    /\ fl.at = "lines" /\ HasLine(fl) /\ fl.uploaded < MaxPerFlush
    /\ e \in Report(fl) /\ Kind[e] \notin fl.seen
Sent(e) == [fl EXCEPT !.seen = @ \cup {Kind[e]}, !.sent = @ \cup {e}]
Hears(e) == heard' = [heard EXCEPT ![e] = IF @ = 2 THEN 2 ELSE @ + 1]

Uploaded(e) ==
    /\ Asks(e)
    /\ Hears(e)
    /\ fl' = Passes([Sent(e) EXCEPT !.uploaded = @ + 1])
    /\ unsure' = IF fl.on = gen THEN unsure ELSE unsure \cup {e}
    /\ UNCHANGED <<file, mark, refused, left, stale, excused>>

(* A 4xx, or a 401 with the token and without it.                             *)
Rejected(e) ==
    /\ Asks(e)
    /\ refused' = refused \cup {e}
    /\ fl' = Passes(Sent(e))
    /\ UNCHANGED <<file, mark, heard, left, history>>

(* Wrong variant: an entry is passed although nobody took it.                 *)
UnansweredPassed(e) ==
    /\ Asks(e)
    /\ fl' = Stops(Passes(Sent(e)))
    /\ UNCHANGED <<file, mark, server, left, history>>

(* The server is out of reach or limits the rate: the round ends.             *)
Unanswered(e) ==
    /\ Asks(e)
    /\ fl' = Stops(Sent(e))
    /\ UNCHANGED <<file, mark, server, left, history>>

(* The server has taken it and the answer is lost.                            *)
AnswerLost(e) ==
    /\ Asks(e)
    /\ Spends("incidents")
    /\ Hears(e)
    /\ unsure' = unsure \cup {e}
    /\ fl' = Stops(Sent(e))
    /\ UNCHANGED <<file, mark, refused, stale, excused>>

(* Wrong variant: a round that was cut short is not saved.                    *)
SaveWhenDone ==
    /\ fl.at = "save"
    /\ fl' = BetweenRounds
    /\ IF fl.consumed = fl.start \/ HasLine(fl) THEN UNCHANGED <<mark, stale>>
       ELSE mark' = fl.consumed /\ stale' = (stale /\ fl.on # gen)
    /\ UNCHANGED <<file, server, left, excused, unsure>>

(* The watermark is saved if it has moved.                                    *)
Save ==
    /\ fl.at = "save"
    /\ fl' = BetweenRounds
    /\ IF fl.consumed = fl.start THEN UNCHANGED <<mark, stale>>
       ELSE mark' = fl.consumed /\ stale' = (stale /\ fl.on # gen)
    /\ UNCHANGED <<file, server, left, excused, unsure>>

SaveFails ==
    /\ fl.at = "save"
    /\ Spends("incidents")
    /\ unsure' = unsure \cup fl.sent
    /\ fl' = BetweenRounds
    /\ UNCHANGED <<file, mark, server, stale, excused>>

LauncherDies ==
    /\ fl.at # "off"
    /\ Spends("incidents")
    /\ unsure' = unsure \cup fl.sent
    /\ fl' = Off
    /\ UNCHANGED <<file, mark, server, stale, excused>>

LauncherStarts ==
    /\ fl.at = "off"
    /\ fl' = BetweenRounds
    /\ UNCHANGED <<file, mark, server, left, history>>

-----------------------------------------------------------------------------
WriterStep(w) == \/ Open(w) \/ ReadTail(w) \/ ReplaceByTail(w) \/ WriteLine(w) \/ WriteNewline(w)
FlushStep == FlushBegins \/ LinesEnd \/ Skip \/ Save \/ LauncherStarts
Taken(e) == Uploaded(e) \/ Rejected(e)

DiagnosticsNext ==
    \/ \E w \in Writers : \/ \E e \in Entries : AppendBegins(w, e)
                          \/ WriterStep(w) \/ WriterDies(w)
    \/ Clear
    \/ FlushStep
    \/ \E e \in All : Taken(e) \/ Unanswered(e) \/ AnswerLost(e)
    \/ SaveFails \/ LauncherDies

DiagnosticsSpec == DiagnosticsInit /\ [][DiagnosticsNext]_diagnosticsVars

(* The thread wakes every ten minutes and goes through its round; a server     *)
(* that is asked again and again takes or refuses an entry in the end.        *)
FairSpec ==
    /\ DiagnosticsSpec
    /\ WF_diagnosticsVars(FlushStep \/ \E e \in All : Taken(e) \/ Unanswered(e))
    /\ SF_diagnosticsVars(\E e \in All : Taken(e))

-----------------------------------------------------------------------------
(* The state of every part; the flusher reads within what it has read, and a   *)
(* saved watermark is the end of a line unless the file was cut since.        *)
DiagnosticsTypes ==
    /\ log \in Seq(All \cup {Newline})
    /\ todo \subseteq Entries
    /\ heard \in [All -> 0 .. 2] /\ refused \subseteq All
    /\ \A w \in Writers : wr[w].on <= gen
    /\ fl.start <= fl.consumed /\ fl.consumed <= fl.cursor /\ fl.cursor <= Len(fl.bytes)
    /\ stale \/ mark = 0 \/ (mark \in DOMAIN log /\ log[mark] = Newline)

Settled(e) == \E d \in All : Kind[d] = Kind[e] /\ (heard[d] > 0 \/ d \in refused)

(* The watermark never passes a line that is worth a report before the server  *)
(* has dealt with it or one of its kind, whatever stopped a round or cut it    *)
(* short; what a watermark of an older file skipped is another matter.        *)
NothingSkipped ==
    DiagnosticsTypes /\ (~stale => \A l \in Lines(log) :
                             (l[3] <= mark /\ l[1] \in Reportable) => Settled(l[1]) \/ l[1] \in excused)

(* The server is told again only of an entry whose upload could not be         *)
(* recorded: the answer or the watermark was lost, or the log was cut.        *)
ToldOnce == [][\A e \in Entries : heard[e] = 1 /\ heard'[e] = 2 => e \in unsure']_heard

(* A line that is in the log is dealt with in the end, or cut with the log.    *)
EverythingIsDealtWith ==
    \A e \in Reportable \cap Entries : e \in Logged ~> (Settled(e) \/ e \in excused \/ e \notin Logged)
=============================================================================
