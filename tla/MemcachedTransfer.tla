------------------------ MODULE MemcachedTransfer ------------------------
(***************************************************************************)
(* The prefetch between two memcached sidecars: the snapshot of the source *)
(* and the transfer of its keys (controller/main.py), each over clients    *)
(* with a socket of their own (controller/memcache_backend.py).  A socket  *)
(* is the stream of replies that have not been read; after a timeout it    *)
(* stays in use, and so does a socket the server has closed.               *)
(* Implements Transfer.                                                    *)
(***************************************************************************)
EXTENDS Naturals, Sequences, FiniteSets

CONSTANTS
    Keys, Entries,     \* an entry is a value with its flags
    Miss,              \* no entry
    NoKey,             \* no key in hand
    InitSource,        \* the source's entries
    SlabOf,            \* SlabOf[k]: the slab class of k's entries
    Cold,              \* the keys in the COLD queues of the source
    Embedded,          \* entries whose value contains END\r\n,
    Cut,               \*   and what is left of them when it is cut there
    MaxKeys,           \* max_keys
    MinDump,           \* the least limit of a cachedump: 50
    MaxChanges,        \* bound: changes at the source
    Faults,            \* kinds of failure that may happen,
    MaxFaults          \*   and a bound on how many do

ASSUME TransferAssumption ==
    /\ Miss \notin Entries /\ NoKey \notin Keys
    /\ InitSource \in [Keys -> Entries \cup {Miss}]
    /\ SlabOf \in [Keys -> Nat] /\ Cold \subseteq Keys
    /\ Embedded \subseteq Entries /\ Cut \in [Embedded -> Entries]
    /\ IsFiniteSet(Keys) /\ MaxKeys \in Nat /\ MinDump \in Nat
    /\ MaxChanges \in Nat /\ MaxFaults \in Nat

VARIABLES
    \* _prefetch_into's locals
    pc,         \* the call it is in
    slabs,      \* list_keys_with_size: slab -> number, still to be dumped
    out,        \*   and the keys listed
    keys,       \* memcached_transfer: keys still to be copied,
    key, got,   \*   the one in hand, its entry,
    n,          \*   and the keys counted
    \* the clients: one for the snapshot, one for each side of the transfer
    sock,       \* _sock: "none", "open", or "dead": closed by the server
    requests,   \* commands the server has not executed
    replies,    \* replies that have not been read
    \* the memcacheds
    source, had, target,
    stored,     \* keys that were stored at the target
    changes, faults   \* for the bounds

listing == <<slabs, out>>
copying == <<keys, key, got, n>>
net == <<sock, requests, replies>>
data == <<source, had, target, stored>>
vars == <<pc, listing, copying, net, data, changes, faults>>

Clients == {"list", "src", "dst"}

Init ==
    /\ pc = "stats" /\ slabs = <<>> /\ out = {}
    /\ keys = {} /\ key = NoKey /\ got = Miss /\ n = 0
    /\ sock = [c \in Clients |-> "none"]
    /\ requests = [c \in Clients |-> <<>>] /\ replies = [c \in Clients |-> <<>>]
    /\ source = InitSource /\ had = [k \in Keys |-> {InitSource[k]} \ {Miss}]
    /\ target = [k \in Keys |-> Miss] /\ stored = {}
    /\ changes = 0 /\ faults = <<>>

Fault(kind) ==
    /\ kind \in Faults /\ Len(faults) < MaxFaults
    /\ faults' = Append(faults, kind)

-----------------------------------------------------------------------------
(* MemcachedClient.                                                        *)

\* _send: _connect opens a socket only if there is none.
Sent(c, command) ==
    /\ sock[c] # "dead" /\ sock' = [sock EXCEPT ![c] = "open"]
    /\ requests' = [requests EXCEPT ![c] = Append(@, command)]
    /\ UNCHANGED <<replies, faults>>

SendFails(c) ==
    /\ \/ sock[c] = "none" /\ Fault("refused")
       \/ sock[c] = "dead" /\ UNCHANGED faults
    /\ UNCHANGED net

\* _recv_until returns once the terminator is in the buffer, and the caller
\* parses the first reply in it; what followed in the last chunk is lost.
Received(c) ==
    /\ replies[c] # <<>>
    /\ \E i \in 1..Len(replies[c]) :
         replies' = [replies EXCEPT ![c] = SubSeq(@, i + 1, Len(@))]
    /\ UNCHANGED <<sock, requests, faults>>

\* The value of the first reply contains the terminator, and the chunk ends
\* there: the buffer holds a cut value, and the rest is still to come.
ReceivedCut(c) ==
    /\ replies[c] # <<>> /\ Head(replies[c]).entry \in Embedded /\ Fault("cut")
    /\ replies' = [replies EXCEPT ![c] = <<[entry |-> Miss]>> \o Tail(@)]
    /\ UNCHANGED <<sock, requests>>

\* settimeout(timeout_s), or "connection closed mid-read": an exception, and
\* the socket stays.
RecvFails(c) ==
    /\ \/ sock[c] = "open" /\ Fault("timeout")
       \/ sock[c] = "dead" /\ replies[c] = <<>> /\ UNCHANGED faults
    /\ UNCHANGED net

\* close.  What was sent may still be executed.
Closes(C) ==
    /\ sock' = [c \in Clients |-> IF c \in C THEN "none" ELSE sock[c]]
    /\ replies' = [c \in Clients |-> IF c \in C THEN <<>> ELSE replies[c]]
    /\ UNCHANGED <<requests, faults>>

-----------------------------------------------------------------------------
(* The snapshot: _memcached_snapshot, list_keys_with_size.                 *)

SendStats ==
    /\ pc = "stats"
    /\ \/ Sent("list", [op |-> "stats"]) /\ pc' = "items"
       \/ SendFails("list") /\ pc' = "abort"
    /\ UNCHANGED <<listing, copying, data, changes>>

\* stats_items.  Every line with ":number" in it counts, so the last of a
\* slab's lines (number, number_hot, number_warm, number_cold) wins.
StatsItems ==
    /\ pc = "items"
    /\ \/ /\ Received("list") /\ pc' = "dump"
          /\ LET lines == Head(replies["list"]) IN
             slabs' = [s \in DOMAIN lines |-> lines[s][Len(lines[s])]]
       \/ RecvFails("list") /\ pc' = "abort" /\ UNCHANGED slabs
    /\ UNCHANGED <<out, copying, data, changes>>

\* The loop takes the slabs in order, and ends at one with nothing to dump.
NextSlab == CHOOSE s \in DOMAIN slabs : \A t \in DOMAIN slabs : s <= t
Limit ==
    LET room == MaxKeys - Cardinality(out)
        most == IF room < MinDump THEN MinDump ELSE room
    IN IF slabs[NextSlab] < most THEN slabs[NextSlab] ELSE most
Listed == DOMAIN slabs # {} => Cardinality(out) >= MaxKeys \/ Limit <= 0

SlabDone == slabs' = [s \in DOMAIN slabs \ {NextSlab} |-> slabs[s]]

SendDump ==
    /\ pc = "dump" /\ ~Listed
    /\ \/ /\ Sent("list", [op |-> "dump", slab |-> NextSlab, limit |-> Limit])
          /\ pc' = "dumped" /\ UNCHANGED slabs
       \/ SendFails("list") /\ SlabDone /\ UNCHANGED pc
    /\ UNCHANGED <<out, copying, data, changes>>

\* Mutant of CacheDump: the list of the last slab replaces the others.
CacheDumpReplaces ==
    /\ pc = "dumped" /\ pc' = "dump" /\ SlabDone
    /\ \/ Received("list") /\ out' = Head(replies["list"])
       \/ RecvFails("list") /\ UNCHANGED out
    /\ UNCHANGED <<copying, data, changes>>

\* cachedump_slab; an exception is caught, and the next slab is tried.
CacheDump ==
    /\ pc = "dumped" /\ pc' = "dump" /\ SlabDone
    /\ \/ Received("list") /\ out' = out \cup Head(replies["list"])
       \/ RecvFails("list") /\ UNCHANGED out
    /\ UNCHANGED <<copying, data, changes>>

\* out[:max_keys], and mc.close().  The scores order the keys: any order.
EndSnapshot ==
    /\ pc = "dump" /\ Listed /\ pc' = "get"
    /\ \E K \in SUBSET out :
         /\ Cardinality(K) = IF Cardinality(out) < MaxKeys
                             THEN Cardinality(out) ELSE MaxKeys
         /\ keys' = K
    /\ Closes({"list"})
    /\ UNCHANGED <<listing, key, got, n, data, changes>>

\* The exception, once mc is closed, ends the prefetch.
AbortSnapshot ==
    /\ pc = "abort" /\ pc' = "failed" /\ Closes({"list"})
    /\ UNCHANGED <<listing, copying, data, changes>>

-----------------------------------------------------------------------------
(* The transfer: memcached_transfer.                                       *)

\* Mutant of NextKey: an exception leaves the loop where it was.
SameKey == pc' = "get" /\ keys' = keys \cup {key} /\ key' = NoKey /\ got' = Miss

\* continue.
NextKey == pc' = "get" /\ key' = NoKey /\ got' = Miss /\ UNCHANGED keys

\* get_with_meta, up to the reply.
SendGet(k) ==
    /\ pc = "get" /\ k \in keys /\ keys' = keys \ {k} /\ UNCHANGED got
    /\ \/ Sent("src", [op |-> "get", key |-> k]) /\ pc' = "value" /\ key' = k
       \/ SendFails("src") /\ UNCHANGED <<pc, key>>
    /\ UNCHANGED <<listing, n, data, changes>>

\* The rest of get_with_meta: what a reply says, whose ever it is.  A miss
\* or an exception goes on to the next key.
GetWithMeta ==
    /\ pc = "value" /\ UNCHANGED <<listing, n, data, changes>>
    /\ \/ Received("src") /\ Head(replies["src"]).entry = Miss /\ NextKey
       \/ RecvFails("src") /\ NextKey
       \/ /\ Received("src") /\ Head(replies["src"]).entry # Miss
          /\ got' = Head(replies["src"]).entry
          /\ pc' = "set" /\ UNCHANGED <<key, keys>>
       \/ /\ ReceivedCut("src") /\ got' = Cut[Head(replies["src"]).entry]
          /\ pc' = "set" /\ UNCHANGED <<key, keys>>

\* set_with_meta, up to the reply.
SendSet ==
    /\ pc = "set" /\ UNCHANGED <<listing, n, data, changes>>
    /\ \/ /\ Sent("dst", [op |-> "set", key |-> key, entry |-> got])
          /\ pc' = "stored" /\ UNCHANGED <<key, got, keys>>
       \/ SendFails("dst") /\ NextKey

\* Mutant of SetWithMeta: every answer counts.
SetWithMetaCounts ==
    /\ pc = "stored" /\ NextKey /\ UNCHANGED <<listing, data, changes>>
    /\ \/ Received("dst") /\ n' = n + 1
       \/ RecvFails("dst") /\ UNCHANGED n

\* The rest of set_with_meta: n += 1 if the line says STORED.
SetWithMeta ==
    /\ pc = "stored" /\ NextKey /\ UNCHANGED <<listing, data, changes>>
    /\ \/ /\ Received("dst")
          /\ n' = IF Head(replies["dst"]) = "STORED" THEN n + 1 ELSE n
       \/ RecvFails("dst") /\ UNCHANGED n

\* finally: both clients are closed.
ReturnCount ==
    /\ pc = "get" /\ keys = {} /\ pc' = "done"
    /\ Closes({"src", "dst"})
    /\ UNCHANGED <<listing, copying, data, changes>>

-----------------------------------------------------------------------------
(* The memcacheds (1.6), and the source's application.                     *)

\* The commands of a client are executed in turn; a closed socket is not
\* answered.
Executes(c, reply) ==
    /\ requests' = [requests EXCEPT ![c] = Tail(@)]
    /\ replies' = IF sock[c] = "none" THEN replies
                  ELSE [replies EXCEPT ![c] = Append(@, reply)]

Items(s) == {k \in Keys : source[k] # Miss /\ SlabOf[k] = s}

\* The lines of a slab class: all its items, those in HOT or WARM, in COLD.
NumberLines(s) ==
    <<Cardinality(Items(s)), Cardinality(Items(s) \ Cold),
      Cardinality(Items(s) \cap Cold)>>

\* Slab classes without items are not listed; cachedump walks COLD.
ServeList ==
    /\ requests["list"] # <<>>
    /\ LET cmd == Head(requests["list"]) IN
       \/ /\ cmd.op = "stats"
          /\ Executes("list", [s \in {SlabOf[k] : k \in {j \in Keys : source[j] # Miss}}
                                 |-> NumberLines(s)])
       \/ /\ cmd.op = "dump"
          /\ \E K \in SUBSET (Items(cmd.slab) \cap Cold) :
               /\ Cardinality(K) <= cmd.limit
               /\ Cardinality(K) = cmd.limit \/ K = Items(cmd.slab) \cap Cold
               /\ Executes("list", K)
    /\ UNCHANGED <<pc, listing, copying, sock, data, changes, faults>>

ServeGet ==
    /\ requests["src"] # <<>>
    /\ LET k == Head(requests["src"]).key IN
       Executes("src", [entry |-> source[k]])
    /\ UNCHANGED <<pc, listing, copying, sock, data, changes, faults>>

\* STORED, or SERVER_ERROR: out of memory, object too large.
ServeSet ==
    /\ requests["dst"] # <<>>
    /\ LET cmd == Head(requests["dst"]) IN
       \/ /\ target' = [target EXCEPT ![cmd.key] = cmd.entry]
          /\ stored' = stored \cup {cmd.key}
          /\ Executes("dst", "STORED") /\ UNCHANGED faults
       \/ Executes("dst", "ERROR") /\ Fault("reject") /\ UNCHANGED <<target, stored>>
    /\ UNCHANGED <<pc, listing, copying, sock, source, had, changes>>

\* The server of c ends the connection: requests on it are lost, and so may
\* be replies.
Close(c) ==
    /\ sock[c] = "open" /\ Fault("close") /\ sock' = [sock EXCEPT ![c] = "dead"]
    /\ requests' = [requests EXCEPT ![c] = <<>>]
    /\ replies' \in {replies, [replies EXCEPT ![c] = <<>>]}
    /\ UNCHANGED <<pc, listing, copying, data, changes>>

\* The source's application writes k, or k is evicted there.
SourceChanges(k) ==
    /\ changes < MaxChanges /\ changes' = changes + 1
    /\ \E e \in (Entries \cup {Miss}) \ {source[k]} :
         /\ source' = [source EXCEPT ![k] = e]
         /\ had' = [had EXCEPT ![k] = @ \cup ({e} \ {Miss})]
    /\ UNCHANGED <<pc, listing, copying, net, target, stored, faults>>

-----------------------------------------------------------------------------
Prefetch ==
    \/ SendStats \/ StatsItems \/ SendDump \/ CacheDump \/ EndSnapshot
    \/ AbortSnapshot
    \/ \E k \in Keys : SendGet(k)
    \/ GetWithMeta \/ SendSet \/ SetWithMeta \/ ReturnCount

Serve == ServeList \/ ServeGet \/ ServeSet

Next ==
    \/ Prefetch \/ Serve
    \/ \E c \in Clients : Close(c)
    \/ \E k \in Keys : SourceChanges(k)

Spec == Init /\ [][Next]_vars

\* The thread runs and the memcacheds answer.
FairSpec == Spec /\ WF_vars(Prefetch) /\ WF_vars(Serve)

-----------------------------------------------------------------------------
Happened(kind) == \E i \in DOMAIN faults : faults[i] = kind

\* The refinement: as long as no reply is late and no value was cut at a
\* terminator, keys arrive as the source had them; and whatever fails, a
\* key is stored once, and only stored keys are counted.
Promise == INSTANCE Transfer WITH
    sound <- ~Happened("timeout") /\ ~Happened("cut"),
    moved <- stored, count <- n, returned <- pc \in {"done", "failed"}
TransferKept == Promise!TSpec

\* memcache_backend.py:9-11: set_with_meta "preserves flags so the
\* caller-side gomemcache lib sees byte-identical entries".
EntriesAreFaithful == \A k \in stored : target[k] \in had[k]

\* main.py:163-176: without failures and changes, and below max_keys, the
\* snapshot has every key that cachedump lists, if each slab has one.
SnapshotIsComplete ==
    /\ pc = "get" /\ stored = {} /\ key = NoKey /\ n = 0
    /\ faults = <<>> /\ changes = 0 /\ Cardinality(Keys) <= MaxKeys
    /\ \A k \in Keys : Items(SlabOf[k]) \cap Cold # {}
    => \A k \in Cold : source[k] # Miss => k \in out

\* The prefetch ends, whatever fails: an exception costs one key or slab.
PrefetchEnds == <>(pc \in {"done", "failed"})
=============================================================================
