------------------------------- MODULE Brain --------------------------------
(***************************************************************************)
(* The memory kernel (src/src/memory/brain.py) and the three that write to *)
(* it: the control plane for /remember, the worker after a run and the     *)
(* file indexer after a scan.                                              *)
(*                                                                         *)
(* What is captured is named by the digest of its kind, project, title and *)
(* body, so the same saying is one item however often it comes; each       *)
(* capture leaves a receipt.  One writer at a time holds the database; the *)
(* item, its row in the full-text index and the receipt are one            *)
(* transaction.  What looks like a credential is refused.                  *)
(*                                                                         *)
(* Lengths are in characters; LineFrame is what surrounds a body in a line *)
(* of the context pack (trust, title, citation, source).                   *)
(* Definitions marked "variant" belong to no specification; each is the    *)
(* definition it precedes with a plausible defect.                         *)
(***************************************************************************)
EXTENDS Integers, FiniteSets, SequencesExt

CONSTANTS
  Notes,       \* what the operator may ask to remember
  RunNotes,    \* the memories finished runs leave
  ScanFacts,   \* the memories scans leave
  Refused,     \* those of them that look like a credential
  Nothing,
  BodyLength,  \* the length of each one's body
  LineFrame,   \* the length of a line without its body
  Budgets,     \* the values of max_characters
  MaxNotes,    \* bound on the operator's messages
  MaxSlips     \* bound on crashes and on waits for the database that time out

Memories == Notes \cup RunNotes \cup ScanFacts

ASSUME BrainAssumption ==
  /\ Refused \subseteq Memories /\ Nothing \notin Memories
  /\ BodyLength \in [Memories -> Nat \ {0}]
  /\ LineFrame \in Nat /\ Budgets \subseteq Nat
  /\ MaxNotes \in Nat /\ MaxSlips \in Nat

VARIABLES
  items,    \* brain_items
  fts,      \* rows of brain_fts for each item
  inbox,    \* rows of brain_inbox for each item
  edges,    \* brain_edges, as <<source, target, evidence>>
  tx,       \* the open write transaction
  wants,    \* what each writer is about to capture
  messages, \* the operator's /remember messages, in order
  dropped,  \* Telegram has dropped the messages up to this one
  reading,  \* the message the control plane handles
  poll,     \* the control plane: "polls", "handles" or "ended"
  slips

storeVars == <<items, fts, inbox, edges>>
mailVars == <<messages, dropped, reading, poll>>
brainVars == <<storeVars, tx, wants, mailVars, slips>>

Writers == {"chat", "worker", "indexer"}
NoTx    == [by |-> "nobody", item |-> Nothing, made |-> FALSE]

BrainInit ==
  /\ items = {} /\ edges = {}
  /\ fts = [i \in Memories |-> 0] /\ inbox = [i \in Memories |-> 0]
  /\ tx = NoTx /\ wants = [w \in Writers |-> Nothing]
  /\ messages = <<>> /\ dropped = 0 /\ reading = 0 /\ poll = "polls"
  /\ slips = 0

-----------------------------------------------------------------------------
(* capture *)

Wants(w, i) == wants' = [wants EXCEPT ![w] = i]

(* INSERT OR IGNORE: the transaction notes whether the item is new. *)
Captures(w) ==
  /\ tx = NoTx /\ wants[w] \notin Refused \cup {Nothing}
  /\ tx' = [by |-> w, item |-> wants[w], made |-> wants[w] \notin items]
  /\ UNCHANGED <<storeVars, wants, mailVars, slips>>

(* Variant: every capture writes a row of the index. *)
IndexedAgain == [fts EXCEPT ![tx.item] = @ + 1]

Indexed == IF tx.made THEN [fts EXCEPT ![tx.item] = @ + 1] ELSE fts

Commits(w) ==
  /\ tx.by = w /\ wants[w] = tx.item
  /\ items' = items \cup {tx.item}
  /\ fts' = Indexed
  /\ inbox' = [inbox EXCEPT ![tx.item] = @ + 1]
  /\ tx' = NoTx /\ Wants(w, Nothing)
  /\ UNCHANGED <<edges, mailVars, slips>>

(* Variant: the evidence of an edge is not looked up. *)
EndsKnown(a, b, e) == {a, b} \subseteq items

AllKnown(a, b, e) == {a, b, e} \subseteq items

Links(a, b, e) ==
  /\ tx = NoTx /\ AllKnown(a, b, e)
  /\ edges = {} /\ edges' = {<<a, b, e>>}
  /\ UNCHANGED <<items, fts, inbox, tx, wants, mailVars, slips>>

-----------------------------------------------------------------------------
(* The worker and the indexer.  A run is remembered once its verdict is    *)
(* recorded, and whatever goes wrong is swallowed.                         *)

RunEndsFor(r) ==
  /\ wants["worker"] = Nothing /\ inbox[r] = 0
  /\ Wants("worker", r)
  /\ UNCHANGED <<storeVars, tx, mailVars, slips>>

ScanFinishes(f) ==
  /\ wants["indexer"] = Nothing /\ inbox[f] < 2
  /\ Wants("indexer", f)
  /\ UNCHANGED <<storeVars, tx, mailVars, slips>>

NotRemembered ==
  /\ wants["worker"] \in Refused
  /\ Wants("worker", Nothing)
  /\ UNCHANGED <<storeVars, tx, mailVars, slips>>

-----------------------------------------------------------------------------
(* The control plane.  Telegram delivers every message it has not dropped  *)
(* (here one with each response; Telegram.tla has the pages), and drops    *)
(* one when the next poll asks for what follows it.                        *)

OperatorSays(n) ==
  /\ Len(messages) < MaxNotes
  /\ messages' = Append(messages, n)
  /\ UNCHANGED <<storeVars, tx, wants, dropped, reading, poll, slips>>

Polls ==
  /\ poll = "polls"
  /\ dropped' = reading
  /\ reading < Len(messages) /\ reading' = reading + 1
  /\ poll' = "handles" /\ Wants("chat", messages[reading + 1])
  /\ UNCHANGED <<storeVars, tx, messages, slips>>

Answers ==
  /\ poll = "handles" /\ wants["chat"] = Nothing
  /\ poll' = "polls"
  /\ UNCHANGED <<storeVars, tx, wants, messages, dropped, reading, slips>>

(* Variant: an error of the capture is swallowed, as the worker does. *)
Swallowed == poll' = "polls" /\ UNCHANGED <<dropped, reading>>

(* Nothing between the capture and main catches it: the process ends.  *)
Uncaught == poll' = "ended" /\ UNCHANGED <<dropped, reading>>

RefusesNote ==
  /\ poll = "handles" /\ wants["chat"] \in Refused
  /\ Uncaught /\ Wants("chat", Nothing)
  /\ UNCHANGED <<storeVars, tx, messages, slips>>

(* The supervisor starts the control plane again; its offset was kept in   *)
(* memory only.                                                            *)
Relaunched ==
  /\ poll = "ended" /\ poll' = "polls"
  /\ reading' = dropped
  /\ UNCHANGED <<storeVars, tx, wants, messages, dropped, slips>>

(* A database held by another writer for longer than the connection waits. *)
TimesOut(w) ==
  /\ tx # NoTx /\ tx.by # w /\ wants[w] # Nothing /\ slips < MaxSlips
  /\ slips' = slips + 1 /\ Wants(w, Nothing)
  /\ IF w = "chat" THEN Uncaught ELSE UNCHANGED <<dropped, reading, poll>>
  /\ UNCHANGED <<storeVars, tx, messages>>

(* Variant: the journal of a writer that died keeps the database. *)
HeldOn(w) == UNCHANGED tx

RolledBack(w) == tx' = IF tx.by = w THEN NoTx ELSE tx

(* The writer's process dies. *)
Dies(w) ==
  /\ slips < MaxSlips /\ slips' = slips + 1
  /\ IF w = "chat" THEN poll = "handles" /\ poll' = "ended"
                  ELSE wants[w] # Nothing /\ UNCHANGED poll
  /\ Wants(w, Nothing)
  /\ RolledBack(w)
  /\ UNCHANGED <<storeVars, messages, dropped, reading>>

WriterSteps == \E w \in Writers : Captures(w) \/ Commits(w)
PhoneSteps  == Polls \/ Answers \/ RefusesNote \/ Relaunched

BrainNext ==
  \/ WriterSteps \/ PhoneSteps \/ NotRemembered
  \/ \E a, b, e \in Memories : Links(a, b, e)
  \/ \E r \in RunNotes : RunEndsFor(r)
  \/ \E f \in ScanFacts : ScanFinishes(f)
  \/ \E n \in Notes : OperatorSays(n)
  \/ \E w \in Writers : TimesOut(w) \/ Dies(w)

BrainSpec == BrainInit /\ [][BrainNext]_brainVars
BrainFairSpec ==
  BrainSpec /\ WF_brainVars(PhoneSteps) /\ WF_brainVars(WriterSteps)

-----------------------------------------------------------------------------
(* context_pack: lines of hits, best first, until the budget is used up *)

(* Variant: the line break before a line is not counted. *)
RoomTight(pack, budget) == budget - pack.used

Room(pack, budget) == budget - pack.used - (IF pack.lines = <<>> THEN 0 ELSE 1)

Packed(pack, hit, budget) ==
  LET room == Room(pack, budget) IN
  IF pack.cut THEN pack
  ELSE IF room <= LineFrame + 8 THEN [pack EXCEPT !.cut = TRUE]
  ELSE LET whole == LineFrame + BodyLength[hit] <= room
           line  == IF whole THEN LineFrame + BodyLength[hit] ELSE room
       IN  [lines |-> Append(pack.lines, <<hit, line>>),
            used  |-> pack.used + line + (IF pack.lines = <<>> THEN 0 ELSE 1),
            cut   |-> ~whole]

ContextPack(hits, budget) ==
  LET pack[k \in 0..Len(hits)] ==
        IF k = 0 THEN [lines |-> <<>>, used |-> 0, cut |-> FALSE]
                 ELSE Packed(pack[k - 1], hits[k], budget)
  IN  pack[Len(hits)]

(* The text: the lines, joined by line breaks. *)
Written(lines) ==
  LET length[k \in 0..Len(lines)] == IF k = 0 THEN 0 ELSE length[k - 1] + lines[k][2]
  IN  length[Len(lines)] + (IF lines = <<>> THEN 0 ELSE Len(lines) - 1)

-----------------------------------------------------------------------------
BrainTypeOK ==
  /\ items \subseteq Memories
  /\ edges \subseteq items \X items \X items
  /\ fts \in [Memories -> Nat] /\ inbox \in [Memories -> Nat]
  /\ tx \in [by : Writers \cup {"nobody"}, item : Memories \cup {Nothing}, made : BOOLEAN]
  /\ wants \in [Writers -> Memories \cup {Nothing}]
  /\ messages \in Seq(Notes) /\ Len(messages) <= MaxNotes
  /\ dropped \in 0..reading /\ reading \in 0..Len(messages)
  /\ poll \in {"polls", "handles", "ended"}
  /\ slips \in 0..MaxSlips

(* However often something is captured, by whomever, and whoever dies over *)
(* it, search finds it exactly once, with a receipt, if it was kept, and   *)
(* not at all if it was not.                                               *)
FoundOnce ==
  \A i \in Memories :
    /\ fts[i] = (IF i \in items THEN 1 ELSE 0)
    /\ (inbox[i] > 0) <=> (i \in items)

(* A note Telegram no longer delivers was kept: one that could not be      *)
(* written is delivered again.  What looks like a credential never is kept.*)
DroppedIsKept ==
  /\ \A k \in 1..dropped : messages[k] \in items
  /\ items \cap Refused = {}

(* Every message is handled in the end, whatever else is in the mailbox:   *)
(* "long-poll until an operator stop or a permanent API failure".          *)
EveryNoteIsHandled ==
  \A k \in 1..MaxNotes : (Len(messages) >= k) ~> (reading > k \/ (reading = k /\ poll = "polls"))

(* What recall shows stays within its budget, whatever the order of the    *)
(* hits, and says when it left something out.                              *)
PackFits ==
  \A hits \in UNION {SetToSeqs(s) : s \in SUBSET items}, budget \in Budgets :
    LET pack == ContextPack(hits, budget) IN
    /\ Written(pack.lines) <= budget
    /\ ~pack.cut => /\ Len(pack.lines) = Len(hits)
                    /\ \A k \in DOMAIN hits :
                         pack.lines[k] = <<hits[k], LineFrame + BodyLength[hits[k]]>>

(* Nothing that was said to be kept is missing, doubled or cut silently. *)
MemoryIsWhole == FoundOnce /\ DroppedIsKept /\ PackFits
=============================================================================
