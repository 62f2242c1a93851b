------------------------------ MODULE Clients -------------------------------
(***************************************************************************)
(* The trace formats of the clients of Domain.  The constructors of        *)
(* pub_handle and sub_queue (pub-handle.cc, sub-queue.cc) put the format   *)
(* their push or pop is logged with into the string cache (strcache.cc)    *)
(* and keep the pointer it returns.  The log (hogl, an external library)   *)
(* is given that pointer and reads the string later, in a thread of its    *)
(* own, when the client may have been destroyed.                           *)
(***************************************************************************)
EXTENDS Domain

CONSTANTS
  MaxStrings,  \* bound on the strings ever cached
  MaxPending   \* bound on the records the log has yet to format

ASSUME ClientsAssumption == MaxStrings \in Nat /\ MaxPending \in Nat

VARIABLES
  list,     \* strcache::cache::_list, oldest first: whose trace each string names
  inside,   \* who is between push_front() and front(), holding the cache's _mutex
  fmt,      \* _trace_fmt: which string, 0 before there is one
  pending   \* the records posted: the string, and (history) who posted it where

traceVars == <<list, inside, fmt, pending>>
clientsVars == <<vars, traceVars>>

\* What a format string says: topic and client.
Trace(c) == <<c, client[c].topic>>

-----------------------------------------------------------------------------

\* Mutant: without the lock.
CachePushUnlocked(c) ==
  /\ client[c] # NoClient /\ fmt[c] = 0 /\ c \notin inside
  /\ Len(list) < MaxStrings
  /\ inside' = inside \cup {c}
  /\ list' = Append(list, Trace(c))
  /\ UNCHANGED <<vars, fmt, pending>>

\* strcache::push(): the lock and push_front() ...
CachePush(c) ==
  /\ client[c] # NoClient /\ fmt[c] = 0
  /\ Len(list) < MaxStrings
  /\ inside = {}
  /\ inside' = {c}
  /\ list' = Append(list, Trace(c))
  /\ UNCHANGED <<vars, fmt, pending>>

\* ... front().c_str() and the unlock; the constructor keeps the pointer.
CacheFront(c) ==
  /\ c \in inside
  /\ fmt' = [fmt EXCEPT ![c] = Len(list)]
  /\ inside' = inside \ {c}
  /\ UNCHANGED <<vars, list, pending>>

RegisterTraced(c) ==
  /\ fmt[c] # 0
  /\ Register(c)
  /\ UNCHANGED traceVars

DeleteTraced(c) ==
  /\ DeleteClient(c)
  /\ fmt' = [fmt EXCEPT ![c] = 0]
  /\ UNCHANGED <<list, inside, pending>>

\* A push or a pop posts its trace.
Post(c) ==
  /\ c \in registered
  /\ Len(pending) < MaxPending
  /\ pending' = Append(pending, [fmt |-> fmt[c], trace |-> Trace(c)])
  /\ UNCHANGED <<vars, list, inside, fmt>>

\* The log's thread formats the oldest record.
Format ==
  /\ pending # <<>>
  /\ pending' = Tail(pending)
  /\ UNCHANGED <<vars, list, inside, fmt>>

ClientsInit ==
  /\ Init
  /\ list = <<>> /\ inside = {}
  /\ fmt = [c \in Clients |-> 0]
  /\ pending = <<>>

ClientsNext ==
  \/ \E c \in Clients, n \in Names, d \in Types : CreateTopic(c, n, d) /\ UNCHANGED traceVars
  \/ \E c \in Clients :
       CachePush(c) \/ CacheFront(c) \/ RegisterTraced(c) \/ DeleteTraced(c) \/ Post(c)
  \/ Format
  \/ InfoNext /\ UNCHANGED traceVars

ClientsSpec == ClientsInit /\ [][ClientsNext]_clientsVars

-----------------------------------------------------------------------------
(* Properties.                                                             *)

\* pub-handle.cc, sub-queue.cc: the format "must be global for hogl::engine".
\* Whenever the log gets to format a record, the string is there and names
\* the client that posted it, although several clients were constructed at a
\* time and this one may have been destroyed.
TracesNamed ==
  \A i \in DOMAIN pending :
    /\ pending[i].fmt \in DOMAIN list
    /\ list[pending[i].fmt] = pending[i].trace
=============================================================================
