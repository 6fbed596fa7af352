-------------------------------- MODULE Store --------------------------------
(***************************************************************************)
(* The underwrites of one destination chain in the redis store             *)
(* (src/store/store.lib.ts), with their writers: the listener of the       *)
(* chain, which records its events, and the discover queue of the          *)
(* underwriter, which says which swap an underwrite is for.  An operation  *)
(* of the store is several redis commands: one action is one command, or   *)
(* commands in a row that no other worker can tell apart; only a crash can *)
(* come between those.  The reader is the expirer, in Expirer; the         *)
(* messages published to it go on `channel`.                               *)
(***************************************************************************)
EXTENDS Integers, Sequences, FiniteSets, Functions

CONSTANTS UnderwriteIds,   \* an interface and an underwrite id
          Swaps,           \* swaps to this chain
          UnderwriteOf(_), \* the id a swap is underwritten with (calcUnderwriteIdentifier)
          None

ASSUME StoreAssumption ==
    None \notin Swaps /\ \A s \in Swaps : UnderwriteOf(s) \in UnderwriteIds

VARIABLES
    log,          \* the events of the interfaces of the chain so far
    \* entries of the store
    expected,     \* expectedUnderwriteToSwap: an id to a swap
    active,       \* activeUnderwrite: an id to its SwapUnderwritten event, 0 for none
    \* the listener, in saveActiveUnderwriteState
    event,        \* how many events of log it has dealt with
    saveStep,     \* the command it has to do next
    \* the discover queue
    registered,   \* swaps it has registered
    \* publish and subscribe
    subscriptions, \* how many of its two channels the expirer has subscribed to
    channel        \* messages on their way to the expirer

saveVars == <<event, saveStep>>
entryVars == <<expected, active, saveVars, registered>>
storeVars == <<log, entryVars, subscriptions, channel>>

InitStore ==
    /\ log = <<>>
    /\ expected = [u \in UnderwriteIds |-> None]
    /\ active = [u \in UnderwriteIds |-> 0]
    /\ event = 0 /\ saveStep = "idle"
    /\ registered = {}
    /\ subscriptions = 0 /\ channel = <<>>

\* Redis delivers to those who have subscribed when the message is published, and to nobody
\* else: the expirer subscribes to onSwapUnderwritten first, to onSwapUnderwriteComplete then.
PostMessage(name) ==
    channel' = IF subscriptions >= (IF name = "onSwapUnderwritten" THEN 1 ELSE 2)
               THEN Append(channel, [name |-> name, of |-> event + 1])
               ELSE channel

-----------------------------------------------------------------------------
(* saveActiveUnderwriteState, called by the listener for one event after   *)
(* the other.  It alone writes the active entries.                         *)

Current == log[event + 1]
Underwrite == active[Current.id]    \* the event whose entry is being completed

EventSaved == event' = event + 1 /\ saveStep' = "idle"

\* SwapUnderwritten: the entry is written over what may be there.  A reader that comes between
\* the `set` and the message cannot tell: messages take their time.
SetUnderwrite ==
    /\ saveStep = "idle" /\ event < Len(log) /\ Current.kind = "SwapUnderwritten"
    /\ active' = [active EXCEPT ![Current.id] = event + 1]
    /\ PostMessage("onSwapUnderwritten")
    /\ EventSaved
    /\ UNCHANGED <<log, expected, registered, subscriptions>>

\* The other events need an entry to complete, or are dropped with an error.  The description
\* of the swap is read, too.
GetUnderwrite ==
    /\ saveStep = "idle" /\ event < Len(log) /\ Current.kind # "SwapUnderwritten"
    /\ \/ Underwrite = 0 /\ EventSaved
       \/ /\ Underwrite # 0 /\ UNCHANGED event
          /\ saveStep' = IF expected[Current.id] = None THEN "complete" ELSE "move"
    /\ UNCHANGED <<log, expected, active, registered, subscriptions, channel>>

\* The description that was read is deleted, and written where the completed ones are, which
\* nothing reads: those entries are left out.
MoveDescription ==
    /\ saveStep = "move"
    /\ expected' = [expected EXCEPT ![Current.id] = None]
    /\ saveStep' = "complete"
    /\ UNCHANGED <<log, active, event, registered, subscriptions, channel>>

\* Mutant: the active entry stays where it is.
CopyUnderwrite ==
    /\ saveStep = "complete"
    /\ PostMessage("onSwapUnderwriteComplete")
    /\ EventSaved
    /\ UNCHANGED <<log, expected, active, registered, subscriptions>>

\* The active entry is deleted, and written where the completed ones are.
CompleteUnderwrite ==
    /\ saveStep = "complete"
    /\ active' = [active EXCEPT ![Current.id] = 0]
    /\ PostMessage("onSwapUnderwriteComplete")
    /\ EventSaved
    /\ UNCHANGED <<log, expected, registered, subscriptions>>

SaveActiveUnderwriteState ==
    SetUnderwrite \/ GetUnderwrite \/ MoveDescription \/ CompleteUnderwrite

\* The process stops between the commands of the operation under way: of those that are one
\* action above, the first may be done and the others not.
StopBetweenCommands ==
    \/ UNCHANGED <<expected, active>>
    \/ /\ saveStep = "move"
       /\ expected' = [expected EXCEPT ![Current.id] = None]
       /\ UNCHANGED active
    \/ /\ saveStep = "complete"
       /\ active' = [active EXCEPT ![Current.id] = 0]
       /\ UNCHANGED expected
    \/ /\ saveStep = "idle" /\ event < Len(log) /\ Current.kind = "SwapUnderwritten"
       /\ active' = [active EXCEPT ![Current.id] = event + 1]
       /\ UNCHANGED expected

\* The entries survive.  The listener starts at the block its configuration names, which may
\* be before or behind the events it has dealt with: any event may be the first it sees now.
\* The channels lose what is on them.
RestartStore ==
    /\ StopBetweenCommands
    /\ event' \in 0..Len(log)
    /\ saveStep' = "idle"
    /\ subscriptions' = 0 /\ channel' = <<>>
    /\ UNCHANGED <<log, registered>>

-----------------------------------------------------------------------------
\* registerSwapDataForTheExpirer: the asset in the swap's entry, then the description; the
\* expirer needs both.  It runs beside everything else, and may fail and never happen.
RegisterSwap(s) ==
    /\ s \notin registered
    /\ registered' = registered \cup {s}
    /\ expected' = [expected EXCEPT ![UnderwriteOf(s)] = s]
    /\ UNCHANGED <<log, active, saveVars, subscriptions, channel>>
=============================================================================
