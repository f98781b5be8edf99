----------------------------- MODULE LogStream -----------------------------
(***************************************************************************)
(* The events on the screen: the ring of Logger                            *)
(* (NativeDNS.Core/src/logger.cpp), the GUI's polls of it with a cursor    *)
(* (NativeDNS.GUI/qt_app.cpp), and the panel that filters and displays     *)
(* what they bring (log_filter_ui.cpp, log_display.cpp).  The GUI may      *)
(* outlive the CoreHost process of the Logger.                             *)
(*                                                                         *)
(* A record is its process and sequence number; its kind stands for what   *)
(* the filters look at.  Layout, texts, scrolling and the choice of widget *)
(* are left out.                                                           *)
(***************************************************************************)
EXTENDS Naturals, SequencesExt, FiniteSets

CONSTANTS
  KindOf(_),       \* of a record: "query" | "error" | "command"
  Capacity,      \* capacity_ of the ring
  MaxRecords,    \* maximumLogRecords: 2000
  FilterIds,     \* ids of saved filters, at most 256
  Expressions,   \* [filter expressions that compile -> the kinds each admits]
  MaxEvents, MaxLives, MaxSeen  \* bounds of the exploration

StreamConstants == Capacity \in Nat /\ MaxRecords \in Nat \ {0}

VARIABLES
  life,      \* which CoreHost process this is
  ring,      \* events_
  sequence,  \* sequence_
  cursor,    \* logSequence_ of the GUI
  poll,      \* the poll in the thread pool: [at, after, records]
  received,  \* history: records since the display was cleared
  panel      \* LogPanel: [records, draft, filter, filtersOn, errors, commands, saved,
             \* selected] and its LogDisplay: [shown, visible, inspecting, automatic, inspected]

streamVars == <<life, ring, sequence, cursor, poll, received, panel>>

Nothing == [life |-> 0, seq |-> 0]
Records == [life : Nat \ {0}, seq : Nat]
Texts == DOMAIN Expressions \cup {"", "malformed"}
Panels ==
  [records : Seq(Records), draft : Texts, filter : Texts, filtersOn : BOOLEAN,
   errors : {"with", "only", "none"}, commands : {"with", "only", "none"},
   saved : Seq([id : FilterIds, text : DOMAIN Expressions]), selected : FilterIds \cup {"none"},
   shown : Seq(Records), visible : Nat,
   inspecting : BOOLEAN, automatic : BOOLEAN, inspected : Records \cup {Nothing}]
Idle == [at |-> "idle", after |-> 0, records |-> <<>>]

StreamInit ==
  /\ life = 1 /\ ring = <<>> /\ sequence = 0
  /\ cursor = 0 /\ poll = Idle /\ received = <<>>
  /\ panel = [records |-> <<>>, draft |-> "", filter |-> "", filtersOn |-> TRUE,
              errors |-> "with", commands |-> "with", saved |-> <<>>, selected |-> "none",
              shown |-> <<>>, visible |-> 0, inspecting |-> TRUE, automatic |-> TRUE,
              inspected |-> Nothing]

-----------------------------------------------------------------------------
(* Logger.                                                                 *)

\* The elements of s at some of its places
Those(s, places) ==
  LET upTo[n \in 0..Len(s)] ==
        IF n = 0 THEN <<>>
        ELSE IF n \in places THEN Append(upTo[n - 1], s[n]) ELSE upTo[n - 1]
  IN  upTo[Len(s)]

Newest(s, n) == SubSeq(s, IF Len(s) > n THEN Len(s) - n + 1 ELSE 1, Len(s))

\* write() and record_file_failure
Write ==
  /\ sequence < MaxEvents
  /\ sequence' = sequence + 1
  /\ ring' = Newest(Append(ring, [life |-> life, seq |-> sequence']), Capacity)
  /\ UNCHANGED <<life, cursor, poll, received, panel>>

\* snapshot(): a cursor that is ahead of this process starts over.
Snapshot(after) ==
  LET from == IF after > sequence THEN 0 ELSE after
  IN Those(ring, {i \in DOMAIN ring : ring[i].seq > from})

\* CoreHost ends, and another one starts.
Relaunch ==
  /\ life < MaxLives
  /\ life' = life + 1
  /\ ring' = <<>> /\ sequence' = 0
  /\ UNCHANGED <<cursor, poll, received, panel>>

-----------------------------------------------------------------------------
(* LogPanel.                                                               *)

\* matches(): the applied expression, the errors view, the commands view.
Matches(p, r) ==
  LET kind == KindOf(r) IN
  /\ p.filtersOn => kind \in Expressions[p.filter]
  /\ p.errors = "only" => kind = "error"
  /\ p.errors = "none" => kind # "error"
  /\ IF kind = "command" THEN p.commands # "none" ELSE p.commands # "only"

\* LogDisplay::appendRecord: the first record displayed is inspected.
Rendered(p, r) ==
  [p EXCEPT !.shown = Append(@, r), !.visible = @ + 1,
            !.inspected = IF p.shown = <<>> /\ p.inspecting /\ p.automatic
                               THEN r ELSE @]

\* LogDisplay::removeFirstRecord
FirstRemoved(p) ==
  [p EXCEPT !.shown = Tail(@), !.visible = @ - 1,
            !.inspected = IF @ = Head(p.shown) THEN Nothing ELSE @]

\* Wrong: the oldest record displayed leaves with it.
EvictedBlindly(p) ==
  IF Len(p.records) < MaxRecords \/ p.shown = <<>> THEN p
  ELSE [FirstRemoved(p) EXCEPT !.records = Tail(@)]
\* The oldest record leaves a full panel, and the display if it is displayed.
Evicted(p) ==
  IF Len(p.records) < MaxRecords THEN p
  ELSE [IF Matches(p, Head(p.records)) THEN FirstRemoved(p) ELSE p
          EXCEPT !.records = Tail(@)]

AppendRecord(p, r) ==
  LET kept == [Evicted(p) EXCEPT !.records = Append(@, r)]
  IN IF Matches(kept, r) THEN Rendered(kept, r) ELSE kept

\* appendRecords
AppendRecords(p, rs) ==
  LET after[n \in 0..Len(rs)] == IF n = 0 THEN p ELSE AppendRecord(after[n - 1], rs[n])
  IN  after[Len(rs)]

\* rebuild(): the display is emptied and filled with what matches.
Emptied(p) == [p EXCEPT !.shown = <<>>, !.visible = 0, !.inspected = Nothing]
Rebuilt(p) ==
  LET after[n \in 0..Len(p.records)] ==
        IF n = 0 THEN Emptied(p)
        ELSE IF Matches(p, p.records[n]) THEN Rendered(after[n - 1], p.records[n])
        ELSE after[n - 1]
  IN  after[Len(p.records)]

Changes(p) == panel' = p /\ UNCHANGED <<life, ring, sequence, cursor, poll, received>>

\* setErrorsView, setCommandsView, after the choice is saved; setShownActions
\* changes what matches in the same way.  A choice that is not saved is not made.
SetView ==
  \/ \E e \in {"with", "only", "none"} \ {panel.errors} :
       Changes(Rebuilt([panel EXCEPT !.errors = e]))
  \/ \E c \in {"with", "only", "none"} \ {panel.commands} :
       Changes(Rebuilt([panel EXCEPT !.commands = c]))

\* The input field, shown with the filters.  Typing deselects the saved filter.
Type ==
  /\ panel.filtersOn
  /\ \E text \in (DOMAIN Expressions \cup {"malformed"}) \ {panel.draft} :
       Changes([panel EXCEPT !.draft = text, !.selected = "none"])

Compiles(p) == p.draft \in DOMAIN Expressions
Ids(p) == {p.saved[i].id : i \in DOMAIN p.saved}
SavedAs(p, text) == Those(p.saved, {i \in DOMAIN p.saved : p.saved[i].text = text})

\* applyFilter: the selected filter stays selected if it is the one applied,
\* else the first one of that expression is.
Applied(p) ==
  LET same == SavedAs(p, p.draft)
      chosen == IF \E i \in DOMAIN same : same[i].id = p.selected THEN p.selected
                ELSE IF same = <<>> THEN "none" ELSE same[1].id
  IN Rebuilt([p EXCEPT !.filter = p.draft, !.selected = chosen])

ApplyFilter == panel.filtersOn /\ Compiles(panel) /\ Changes(Applied(panel))

\* setFiltersShown: a draft that does not compile leaves the old filter applied.
ShowFilters ==
  LET p == [panel EXCEPT !.filtersOn = ~@]
  IN Changes(IF p.filtersOn /\ Compiles(p) THEN Applied(p) ELSE Rebuilt(p))

\* The menu beside the field: saveFilter, deleteFilter, and a saved filter chosen.
SaveFilter ==
  /\ panel.filtersOn
  /\ Compiles(panel) /\ SavedAs(panel, panel.draft) = <<>>
  /\ \E id \in FilterIds \ Ids(panel) :
       Changes([panel EXCEPT !.saved = Append(@, [id |-> id, text |-> panel.draft]),
                             !.selected = id])
DeleteFilter ==
  /\ panel.filtersOn
  /\ panel.selected \in Ids(panel)
  /\ Changes([panel EXCEPT !.saved = Those(@, {i \in DOMAIN @ : @[i].id # panel.selected}),
                           !.selected = "none"])
ChooseFilter ==
  /\ panel.filtersOn
  /\ \E i \in DOMAIN panel.saved :
       Changes(Applied([panel EXCEPT !.selected = panel.saved[i].id,
                                     !.draft = panel.saved[i].text]))

\* manageFilters, for the editing or the removal of one filter: an applied
\* filter that is selected is applied again.
ManageFilters ==
  /\ panel.filtersOn
  /\ \E i \in DOMAIN panel.saved, text \in DOMAIN Expressions \cup {"removed"} :
       LET p == [panel EXCEPT !.saved = IF text = "removed" THEN RemoveAt(@, i)
                                        ELSE [@ EXCEPT ![i].text = text]]
           own == Those(p.saved, {j \in DOMAIN p.saved : p.saved[j].id = p.selected})
           q == [p EXCEPT !.draft = own[1].text]
       IN Changes(CASE own = <<>> -> [p EXCEPT !.selected = "none"]
                    [] own # <<>> /\ p.draft # p.filter -> p
                    [] OTHER -> Applied(q))

\* LogDisplay: a record is clicked; the inspector is shown or hidden; another
\* view, language or palette renders the records again.
Inspect ==
  /\ panel.inspecting
  /\ \E r \in ToSet(panel.shown) \ {panel.inspected} :
       Changes([panel EXCEPT !.inspected = r])
ShowInspector ==
  Changes([panel EXCEPT !.inspecting = ~@, !.automatic = FALSE, !.inspected = Nothing])
Redisplay ==
  /\ panel.shown # <<>>
  /\ Changes([panel EXCEPT !.inspected =
       IF panel.inspecting /\ panel.automatic THEN Head(panel.shown) ELSE Nothing])

-----------------------------------------------------------------------------
(* NativeDnsWindow: refreshLogs every 500 ms, one poll at a time.          *)

Poll ==
  /\ poll.at = "idle" /\ Len(received) < MaxSeen
  /\ poll' = [at |-> "asking", after |-> cursor, records |-> <<>>]
  /\ UNCHANGED <<life, ring, sequence, cursor, received, panel>>

\* The request may time out, which brings no records.
Answer ==
  /\ poll.at = "asking"
  /\ \E rs \in {Snapshot(poll.after), <<>>} : poll' = [poll EXCEPT !.at = "done", !.records = rs]
  /\ UNCHANGED <<life, ring, sequence, cursor, received, panel>>

\* appendLogLines, on the GUI thread
ReachedBy(old, rs) ==
  LET seqs == {old} \cup {rs[i].seq : i \in DOMAIN rs}
  IN CHOOSE n \in seqs : \A m \in seqs : m <= n

Show ==
  /\ poll.at = "done"
  /\ cursor' = ReachedBy(cursor, poll.records)
  /\ panel' = AppendRecords(panel, poll.records)
  /\ received' = received \o poll.records
  /\ poll' = Idle
  /\ UNCHANGED <<life, ring, sequence>>

\* The Clear button; CoreHost may not answer its clear_display.
ClearDisplay ==
  /\ panel' = [Emptied(panel) EXCEPT !.records = <<>>]
  /\ cursor' = 0 /\ received' = <<>>
  /\ ring' \in {ring, <<>>}
  /\ UNCHANGED <<life, sequence, poll>>

StreamNext ==
  \/ Write \/ Relaunch
  \/ SetView \/ Type \/ ApplyFilter \/ ShowFilters
  \/ SaveFilter \/ DeleteFilter \/ ChooseFilter \/ ManageFilters
  \/ Inspect \/ ShowInspector \/ Redisplay
  \/ Poll \/ Answer \/ Show \/ ClearDisplay

-----------------------------------------------------------------------------
(* Properties.                                                             *)

\* part consists of the elements of whole at these places, in their order.
InOrder(part, whole, places) ==
  \E at \in [DOMAIN part -> places] :
    /\ \A i, j \in DOMAIN part : i < j => at[i] < at[j]
    /\ \A n \in places : \E i \in DOMAIN part : at[i] = n
    /\ \A i \in DOMAIN part : part[i] = whole[at[i]]

\* The places of the records that the filters admit
Admitted(p) == {i \in DOMAIN p.records : Matches(p, p.records[i])}

\* What is displayed is what the panel keeps and its filters admit, through
\* evictions, failed compilations and changes of several filters; the inspected
\* record is displayed, and the selected filter exists.
Exact(p) ==
  /\ InOrder(p.shown, p.records, Admitted(p))
  /\ p.visible = Len(p.shown)
  /\ p.inspected \in ToSet(p.shown) \cup {Nothing}
  /\ p.selected \in Ids(p) \cup {"none"}
DisplayExact == Exact(panel)

\* What arrives at the panel are records, and every operation leaves it exact.
StreamInv ==
  /\ life \in Nat \ {0} /\ sequence \in Nat
  /\ ring \in Seq(Records) /\ poll.records \in Seq(Records)
  /\ poll = [at |-> poll.at, after |-> poll.after, records |-> poll.records]
  /\ panel \in Panels /\ DisplayExact

\* A client that outlives the process is served from its place on: logger.cpp:210
\* says that a reattached client may carry a sequence from a previous process.
\* No record comes twice between two clears.
ShownOnce == IsInjective(received)
=============================================================================
