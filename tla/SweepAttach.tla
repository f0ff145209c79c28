---------------------------- MODULE SweepAttach -----------------------------
(***************************************************************************)
(* The attach tool of one explorer sweep (src/src/sweep_attach.rs): files   *)
(* whose bytes ride beside the sweep's report.  The tool calls of one turn  *)
(* run concurrently and share a sink: a path takes a slot under the sink's  *)
(* lock (reserve), is read with the lock released, and then fills its slot  *)
(* (commit) or frees it (release).  The explorer sees one receipt per path; *)
(* the reader of the report sees what drain collects once the sweep ended.  *)
(***************************************************************************)
EXTENDS Naturals, Sequences, FiniteSets

CONSTANTS
  AttachPaths,      \* what a path of the workspace resolves to: canonical files
  AttachCallers,    \* tool calls in flight
  MaxAttachments,   \* the sweep's budget; the tool is not offered when it is 0
  AlreadyDelivered, \* files the caller attached to the consult itself
  ReaderSees,       \* the arm that reads the report takes images
  MaxAttachCalls    \* bound: attach calls of a sweep

ASSUME BudgetAssumption == MaxAttachments \in Nat \ {0}
ASSUME SeedAssumption == AlreadyDelivered \subseteq AttachPaths

VARIABLES
  slots,        \* the reservations, in the order they were accepted
  seen,         \* paths that took a slot once
  demotions,    \* lines for the reader: paths refused for want of a slot
  attaching,    \* per caller, the paths it has yet to attach
  reading,      \* per caller, the slot it reads for, 0 if none
  receipts,     \* what the explorer was told, as <<path, line>>
  attachCalls,  \* calls made so far
  delivery      \* what drain gave the reader: the paths, by slot, and the demotions

attachVars == <<slots, seen, demotions, attaching, reading, receipts, attachCalls,
                delivery>>

Receipts == {"attached", "duplicate", "alreadyDelivered", "overCap", "refused"}
NotDrained == [paths |-> <<>>, demotions |-> {}, done |-> FALSE]

\* A slot counts against the budget until it is released.
Live == {i \in DOMAIN slots : slots[i].state # "released"}
Ready == {i \in DOMAIN slots : slots[i].state = "ready"}

AttachInit ==
  /\ slots = <<>> /\ seen = {} /\ demotions = {}
  /\ attaching = [c \in AttachCallers |-> <<>>]
  /\ reading = [c \in AttachCallers |-> 0]
  /\ receipts = {} /\ attachCalls = 0
  /\ delivery = NotDrained

Tell(p, line) == receipts' = receipts \cup {<<p, line>>}

\* The caller is between paths.
AtNextPath(c) == attaching[c] # <<>> /\ reading[c] = 0
PathDone(c) == attaching' = [attaching EXCEPT ![c] = Tail(@)]

-----------------------------------------------------------------------------
(* SweepAttach::call, and attach_one for each of its paths. *)

\* An empty list, or a note past its cap, refuses the call: nothing changes.
AttachCall(c) ==
  /\ ~delivery.done
  /\ attaching[c] = <<>>
  /\ attachCalls < MaxAttachCalls
  /\ \E paths \in {<<p>> : p \in AttachPaths} \cup (AttachPaths \X AttachPaths) :
       attaching' = [attaching EXCEPT ![c] = paths]
  /\ attachCalls' = attachCalls + 1
  /\ UNCHANGED <<slots, seen, demotions, reading, receipts, delivery>>

\* The file is not there, not a file, or outside the root: no slot is taken.
Unresolved(c) ==
  /\ AtNextPath(c)
  /\ Tell(Head(attaching[c]), "refused")
  /\ PathDone(c)
  /\ UNCHANGED <<slots, seen, demotions, reading, attachCalls, delivery>>

\* reserve, where it accepts nothing.
NotReserved(c) ==
  LET p == Head(attaching[c]) IN
  /\ AtNextPath(c)
  /\ \/ /\ p \in AlreadyDelivered
        /\ Tell(p, "alreadyDelivered")
        /\ UNCHANGED demotions
     \/ /\ p \in seen \ AlreadyDelivered
        /\ Tell(p, "duplicate")
        /\ UNCHANGED demotions
     \/ /\ p \notin seen \cup AlreadyDelivered
        /\ Cardinality(Live) >= MaxAttachments
        /\ Tell(p, "overCap")
        /\ demotions' = demotions \cup {p}
  /\ PathDone(c)
  /\ UNCHANGED <<slots, seen, reading, attachCalls, delivery>>

\* Mutant: only slots already filled count against the budget.
ReserveCountsReady(c) ==
  LET p == Head(attaching[c]) IN
  /\ AtNextPath(c)
  /\ p \notin seen \cup AlreadyDelivered
  /\ Cardinality(Ready) < MaxAttachments
  /\ slots' = Append(slots, [path |-> p, state |-> "pending"])
  /\ seen' = seen \cup {p}
  /\ reading' = [reading EXCEPT ![c] = Len(slots')]
  /\ UNCHANGED <<demotions, attaching, receipts, attachCalls, delivery>>

\* reserve, where it accepts: the slot is taken before the bytes are known.
Reserve(c) ==
  LET p == Head(attaching[c]) IN
  /\ AtNextPath(c)
  /\ p \notin seen \cup AlreadyDelivered
  /\ Cardinality(Live) < MaxAttachments
  /\ slots' = Append(slots, [path |-> p, state |-> "pending"])
  /\ seen' = seen \cup {p}
  /\ reading' = [reading EXCEPT ![c] = Len(slots')]
  /\ UNCHANGED <<demotions, attaching, receipts, attachCalls, delivery>>

\* What attach::classify makes of the bytes: text, an image, or neither of them
\* within its cap (or they could not be read at all).
Contents == {"text", "image", "neither"}
Carried(content) == content = "text" \/ (content = "image" /\ ReaderSees)

Fill(c, s) ==
  /\ reading[c] # 0
  /\ slots' = [slots EXCEPT ![reading[c]].state = s]
  /\ reading' = [reading EXCEPT ![c] = 0]
  /\ PathDone(c)
  /\ UNCHANGED <<seen, demotions, attachCalls, delivery>>

Commit(c, content) ==
  /\ Carried(content)
  /\ Fill(c, "ready")
  /\ Tell(Head(attaching[c]), "attached")

\* The read or the classification failed, or the reader takes no images.
ReleaseSlot(c, content) ==
  /\ ~Carried(content)
  /\ Fill(c, "released")
  /\ Tell(Head(attaching[c]), "refused")

SweepReturned == ~delivery.done /\ \A c \in AttachCallers : attaching[c] = <<>>

\* The sweep returned its report: none of its tool calls runs any more.
Drain ==
  /\ SweepReturned
  /\ delivery' = [paths |-> [i \in Ready |-> slots[i].path],
                  demotions |-> demotions, done |-> TRUE]
  /\ UNCHANGED <<slots, seen, demotions, attaching, reading, receipts, attachCalls>>

AttachNext ==
  \/ \E c \in AttachCallers :
       \/ AttachCall(c) \/ Unresolved(c) \/ NotReserved(c) \/ Reserve(c)
       \/ \E content \in Contents : Commit(c, content) \/ ReleaseSlot(c, content)
  \/ Drain

AttachSpec == AttachInit /\ [][AttachNext]_attachVars
-----------------------------------------------------------------------------
(* Properties *)

AttachTypeOK ==
  /\ slots \in Seq([path : AttachPaths, state : {"pending", "ready", "released"}])
  /\ seen \subseteq AttachPaths /\ demotions \subseteq AttachPaths
  /\ attaching \in [AttachCallers -> Seq(AttachPaths)]
  /\ reading \in [AttachCallers -> 0..Len(slots)]
  /\ receipts \subseteq AttachPaths \X Receipts
  /\ attachCalls \in Nat
  /\ delivery.done \in BOOLEAN

\* However the concurrent calls of a turn interleave, no more slots are held
\* than the sweep's budget, and no file holds two of them (reserve decides both
\* under one lock, before the bytes are read).
AttachBudgetHolds ==
  /\ Cardinality(Live) <= MaxAttachments
  /\ \A i, j \in DOMAIN slots : slots[i].path = slots[j].path => i = j

\* What was drained is exactly what the explorer was told is attached: no file
\* arrives without a receipt, and none the explorer wrote its report around is
\* missing.
DeliveryMatchesReceipts ==
  delivery.done =>
    \A p \in AttachPaths :
      (\E i \in DOMAIN delivery.paths : delivery.paths[i] = p)
        <=> <<p, "attached">> \in receipts

\* A slot is never stranded: once the sweep is drained every reservation was
\* filled or freed, whatever failed on the way.
NoSlotStranded == delivery.done => \A i \in DOMAIN slots : slots[i].state # "pending"

\* What those rest on: a slot is pending exactly while one call reads for it, the path
\* at the head of what that call has yet to attach; a path was seen because a slot
\* took it; and a ready slot's path was told of.
ReadersInv ==
  \A c \in AttachCallers : reading[c] # 0 =>
    /\ attaching[c] # <<>>
    /\ slots[reading[c]].state = "pending"
    /\ slots[reading[c]].path = Head(attaching[c])
    /\ \A d \in AttachCallers : reading[d] = reading[c] => d = c
PendingInv ==
  \A i \in DOMAIN slots :
    slots[i].state = "pending" => \E c \in AttachCallers : reading[c] = i
SeenInv == \A i \in DOMAIN slots : slots[i].path \in seen
ToldInv ==
  \A p \in AttachPaths :
    <<p, "attached">> \in receipts <=> \E i \in Ready : slots[i].path = p
DrainedInv ==
  delivery.done =>
    /\ \A c \in AttachCallers : attaching[c] = <<>>
    /\ delivery.paths = [i \in Ready |-> slots[i].path]

AttachInv ==
  /\ AttachTypeOK /\ AttachBudgetHolds
  /\ ReadersInv /\ PendingInv /\ SeenInv /\ ToldInv /\ DrainedInv

\* Together: budget, delivery and receipts agree, whatever the order of the calls.
AttachmentsAreAccounted ==
  AttachTypeOK /\ AttachBudgetHolds /\ DeliveryMatchesReceipts /\ NoSlotStranded
=============================================================================
