----------------------------- MODULE SessionLog -----------------------------
(***************************************************************************)
(* What the session store promises (harness/sessionstore): a log of        *)
(* entries - items with their operations, and saved operations.  An append *)
(* is atomic.  One that was answered stays until a rewind; one whose       *)
(* answer is an error, or lost with the process, happened or did not.      *)
(* Files, records, torn writes, checkpoints and caches are SessionFile's.  *)
(***************************************************************************)
EXTENDS SessionRecords

CONSTANT Beginnings  \* the logs there may be to begin with

VARIABLES
  log,   \* the entries
  call   \* the append in progress: its entry and whether it was taken

logVars == <<log, call>>

ItemEntry(item) == [type |-> "item", item |-> item]
SaveEntry(op, value) == [type |-> "operation", op |-> op, value |-> value]

\* What may be appended or inherited: an item with its operation, or one
\* operation that is saved.
ItemEntries ==
  {ItemEntry(InputItem(id)) : id \in Prompts \cup Settings}
    \cup {ItemEntry(TurnItem(t, p)) : t \in Turns, p \in Turns \cup {None}}
    \cup {ItemEntry(ResponseItem(t)) : t \in Turns}
    \cup {ItemEntry(StatusItem(t, o, v)) : t \in Turns, o \in Ops, v \in Values \cup {None}}
    \cup {ItemEntry(ForkItem(p)) : p \in Turns \cup {None}}

SaveEntries == {SaveEntry(o, v) : o \in Ops, v \in Values}

\* The entries that are in a set, in their order.
Only(entries, chosen) ==
  LET Step(sofar, k) == IF entries[k] \in chosen THEN Append(sofar, entries[k]) ELSE sofar
  IN Over(Len(entries), <<>>, Step)

Init == log \in Beginnings /\ call = None

Request(entry) == call = None /\ call' = [entry |-> entry, taken |-> FALSE] /\ UNCHANGED log

Take ==
  /\ call # None /\ ~call.taken
  /\ log' = Append(log, call.entry)
  /\ call' = [call EXCEPT !.taken = TRUE]

\* The caller has its answer, or is gone; an error says nothing of the log.
Answer == call # None /\ call' = None /\ UNCHANGED log

\* A machine that goes down may lose an append that was not answered.
Lose == call # None /\ call.taken /\ call' = None /\ log' = Front(log)

-----------------------------------------------------------------------------
(* Rewinding *)

EntryIsFork(entry) == entry.type = "item" /\ entry.item.kind = "fork"
EntryIsSettings(entry) ==
  entry.type = "item" /\ entry.item.kind = "input" /\ entry.item.id \in Settings

\* Where entries may be cut before a prompt: before it, or before settings
\* recorded just before it.
Cuts(entries, prompt) ==
  {m \in 1..Len(entries) :
     \E n \in m..Len(entries) :
       /\ entries[n] = ItemEntry(InputItem(prompt))
       /\ \A j \in m..n - 1 : EntryIsSettings(entries[j])}

\* Operations that the entries after the last fork began.
Begun(entries) ==
  {o \in Ops : \E k \in SelectLastInSeq(entries, EntryIsFork) + 1..Len(entries) :
     /\ entries[k].type = "item" /\ entries[k].item.kind = "status"
     /\ entries[k].item.op = o /\ entries[k].item.value # None}

\* What may have been saved of operations.
OutcomesOf(ops) == {SaveEntry(o, v) : o \in ops, v \in Values}

\* What may remain of entries: those before the cut, with what their
\* operations came to since; history that is another session's is marked as
\* such again.
Remaining(entries, cut) ==
  LET kept == SubSeq(entries, 1, cut - 1)
      gone == SubSeq(entries, cut, Len(entries))
      inherited == \E k \in 1..Len(gone) : EntryIsFork(gone[k])
      unmarked == kept # <<>> /\ ~EntryIsFork(Last(kept))
  IN IF inherited /\ unmarked
     THEN {Append(kept, ItemEntry(ForkItem(t))) : t \in Turns \cup {None}}
     ELSE {kept \o Only(gone, OutcomesOf(Begun(kept)))}

\* What may remain of entries rewound to before a prompt.
Rewound(entries) ==
  UNION {UNION {Remaining(entries, cut) : cut \in Cuts(entries, prompt)} : prompt \in Prompts}

Rewind == call = None /\ UNCHANGED call /\ log' \in Rewound(log)

\* The session followed from here on is one that begins with part of this one.
Bequeathed(entries) ==
  {LET items == Only(SubSeq(entries, 1, n), ItemEntries)
   IN [i \in 1..Len(items) |-> ItemEntry(WithoutOperations(items[i].item))] :
     n \in 1..Len(entries)}

Branch ==
  /\ call' = None
  /\ log' \in {Append(history, ItemEntry(ForkItem(t))) : history \in Bequeathed(log), t \in Turns}

Next ==
  \/ Take \/ Answer \/ Lose
  \/ \E entry \in ItemEntries \cup SaveEntries : ~EntryIsFork(entry) /\ Request(entry)
  \/ Rewind \/ Branch

Spec == Init /\ [][Next]_logVars
=============================================================================
