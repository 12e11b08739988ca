---------------------- MODULE MemcachedTransferProofs ----------------------
(***************************************************************************)
(* Proofs about MemcachedTransfer: the prefetch between two memcacheds     *)
(* implements Transfer, and its snapshot of the source is complete.        *)
(***************************************************************************)
EXTENDS MemcachedTransfer, FiniteSetTheorems, SequenceTheorems, WellFoundedInduction, TLAPS

Sound == ~Happened("timeout") /\ ~Happened("cut")

\* The calls of the snapshot.
Snapshot == {"stats", "items", "dump", "dumped", "abort"}

Gets == [op : {"get"}, key : Keys]
Sets == [op : {"set"}, key : Keys, entry : Entries]
Values == [entry : Entries \cup {Miss}]

NetTypes ==
    /\ faults \in Seq(Faults)
    /\ DOMAIN sock = Clients /\ DOMAIN requests = Clients /\ DOMAIN replies = Clients
    /\ requests["src"] \in Seq(Gets) /\ requests["dst"] \in Seq(Sets)
    /\ replies["src"] \in Seq(Values) /\ replies["dst"] \in Seq({"STORED", "ERROR"})
    /\ \A c \in Clients : sock[c] = "dead" => requests[c] = <<>>

DataTypes ==
    /\ source \in [Keys -> Entries \cup {Miss}] /\ had \in [Keys -> SUBSET Entries]
    /\ \A k \in Keys : source[k] # Miss => source[k] \in had[k]
    /\ stored \subseteq Keys /\ n \in Nat
    /\ pc \in {"value", "set", "stored"} => key \in Keys
    /\ pc \in {"set", "stored"} => got \in Entries

\* The keys with a set on the way are others than those that were stored,
\* and than those whose turn will come.
OnTheWay == {requests["dst"][i].key : i \in DOMAIN requests["dst"]}
OnceInv ==
    /\ \A i, j \in DOMAIN requests["dst"] :
         requests["dst"][i].key = requests["dst"][j].key => i = j
    /\ OnTheWay \cap stored = {} /\ keys \cap (OnTheWay \cup stored) = {}
    /\ pc \in {"value", "set"} => key \notin keys \cup OnTheWay \cup stored
    /\ pc \in Snapshot => OnTheWay \cup stored = {}

\* What the source sends next is the reply for the key in hand.
InTurn ==
    /\ pc # "value" => requests["src"] = <<>> /\ replies["src"] = <<>>
    /\ Len(requests["src"]) + Len(replies["src"]) <= 1
    /\ \A i \in DOMAIN requests["src"] : requests["src"][i].key = key
    /\ \A i \in DOMAIN replies["src"] : replies["src"][i].entry \in had[key] \cup {Miss}

\* What is to be stored, the source has had for its key.
Faithful ==
    /\ pc = "set" => got \in had[key]
    /\ \A i \in DOMAIN requests["dst"] :
         requests["dst"][i].entry \in had[requests["dst"][i].key]

\* What is counted, or may be, was stored.
Confirmed(s) == {i \in DOMAIN s : s[i] = "STORED"}
CountInv == n + Cardinality(Confirmed(replies["dst"])) <= Cardinality(stored)

TransferInv ==
    /\ NetTypes /\ DataTypes /\ OnceInv /\ CountInv
    /\ Sound => InTurn /\ Faithful

-----------------------------------------------------------------------------
(* Sequences.                                                              *)

LEMMA Appended ==
    ASSUME NEW S, NEW s \in Seq(S), NEW e \in S
    PROVE  /\ Append(s, e) \in Seq(S) /\ Len(s) \in Nat /\ Len(Append(s, e)) = Len(s) + 1
           /\ DOMAIN s = 1..Len(s) /\ DOMAIN Append(s, e) = 1..(Len(s) + 1)
           /\ \A i \in 1..(Len(s) + 1) :
                Append(s, e)[i] = IF i = Len(s) + 1 THEN e ELSE s[i]
  OBVIOUS

\* Without its first m items.
LEMMA Shifted ==
    ASSUME NEW S, NEW s \in Seq(S), NEW m \in 1..Len(s)
    PROVE  LET t == SubSeq(s, m + 1, Len(s)) IN
           /\ t \in Seq(S) /\ Len(t) = Len(s) - m /\ DOMAIN t = 1..(Len(s) - m)
           /\ \A i \in DOMAIN t : t[i] = s[i + m] /\ i + m \in DOMAIN s
  <1> DEFINE t == SubSeq(s, m + 1, Len(s))
  <1>1. Len(s) \in Nat /\ DOMAIN s = 1..Len(s)
    OBVIOUS
  <1>2. m + 1 \in Int /\ Len(s) \in Int /\ \A i \in (m + 1)..Len(s) : s[i] \in S
    BY <1>1
  <1>3. /\ t \in Seq(S)
        /\ Len(t) = IF m + 1 <= Len(s) THEN Len(s) - (m + 1) + 1 ELSE 0
        /\ \A i \in 1..(Len(s) - (m + 1) + 1) : t[i] = s[(m + 1) + i - 1]
    BY <1>2, SubSeqProperties
  <1> HIDE DEF t
  <1>4. Len(t) = Len(s) - m /\ DOMAIN t = 1..(Len(s) - m)
    <2>1. Len(t) = IF m + 1 <= Len(s) THEN Len(s) - (m + 1) + 1 ELSE 0
      BY <1>3
    <2>2. DOMAIN t = 1..Len(t)
      BY <1>3
    <2>3. m \in Nat /\ m <= Len(s) /\ Len(s) \in Nat
      BY <1>1
    <2>4. Len(t) = Len(s) - m
      BY <2>1, <2>3
    <2> QED
      BY <2>2, <2>4
  <1>5. \A i \in 1..(Len(s) - m) : t[i] = s[i + m] /\ i + m \in DOMAIN s
    <2> SUFFICES ASSUME NEW i \in 1..(Len(s) - m)
                 PROVE  t[i] = s[i + m] /\ i + m \in DOMAIN s
      OBVIOUS
    <2>1. i + m \in 1..Len(s) /\ (m + 1) + i - 1 = i + m /\ i \in 1..(Len(s) - (m + 1) + 1)
      BY <1>1
    <2> QED
      BY <1>1, <1>3, <2>1
  <1> QED
    BY <1>3, <1>4, <1>5 DEF t

LEMMA AfterHead ==
    ASSUME NEW S, NEW s \in Seq(S), s # <<>>
    PROVE  /\ Tail(s) \in Seq(S) /\ Head(s) = s[1] /\ Head(s) \in S /\ 1 \in DOMAIN s
           /\ Len(s) \in Nat \ {0} /\ DOMAIN s = 1..Len(s)
           /\ Len(Tail(s)) = Len(s) - 1 /\ DOMAIN Tail(s) = 1..(Len(s) - 1)
           /\ \A i \in DOMAIN Tail(s) : Tail(s)[i] = s[i + 1] /\ i + 1 \in DOMAIN s
  <1>1. Len(s) \in Nat \ {0} /\ DOMAIN s = 1..Len(s)
    OBVIOUS
  <1>2. Tail(s) \in Seq(S) /\ Len(Tail(s)) = Len(s) - 1
    BY <1>1
  <1>3. DOMAIN Tail(s) = 1..(Len(s) - 1)
    BY <1>1, <1>2
  <1>4. \A i \in 1..(Len(s) - 1) : Tail(s)[i] = s[i + 1] /\ i + 1 \in DOMAIN s
    BY <1>1
  <1> QED
    BY <1>1, <1>2, <1>3, <1>4

\* One confirmation more at the most,
LEMMA OneMoreConfirmed ==
    ASSUME NEW s \in Seq({"STORED", "ERROR"}), NEW e \in {"STORED", "ERROR"}
    PROVE  /\ Cardinality(Confirmed(s)) \in Nat /\ Cardinality(Confirmed(Append(s, e))) \in Nat
           /\ Cardinality(Confirmed(Append(s, e)))
                <= Cardinality(Confirmed(s)) + (IF e = "STORED" THEN 1 ELSE 0)
  <1> DEFINE C == Confirmed(s)  D == Confirmed(Append(s, e))  l == Len(s)
  <1>1. /\ l \in Nat /\ DOMAIN s = 1..l /\ DOMAIN Append(s, e) = 1..(l + 1)
        /\ \A i \in 1..(l + 1) : Append(s, e)[i] = IF i = l + 1 THEN e ELSE s[i]
    BY Appended
  <1>2. C \subseteq 1..l /\ D \subseteq IF e = "STORED" THEN C \cup {l + 1} ELSE C
    BY <1>1 DEF Confirmed
  <1> HIDE DEF C, D, l
  <1>3. IsFiniteSet(C) /\ l + 1 \notin C
    <2>1. IsFiniteSet(1..l) /\ C \in SUBSET (1..l)
      BY <1>1, <1>2, FS_Interval
    <2>2. IsFiniteSet(C)
      BY <2>1, FS_Subset
    <2>3. l + 1 \notin 1..l
      BY <1>1
    <2> QED
      BY <1>2, <2>2, <2>3
  <1>4. IsFiniteSet(C \cup {l + 1}) /\ Cardinality(C \cup {l + 1}) = Cardinality(C) + 1
    BY <1>3, FS_AddElement
  <1>5. Cardinality(C) \in Nat /\ IsFiniteSet(D) /\ Cardinality(D) \in Nat
    <2>1. D \in SUBSET (C \cup {l + 1})
      BY <1>2
    <2> QED
      BY <1>3, <1>4, <2>1, FS_Subset, FS_CardinalityType
  <1>6. Cardinality(D) <= Cardinality(C) + (IF e = "STORED" THEN 1 ELSE 0)
    <2>1. CASE e = "STORED"
      <3>1. D \in SUBSET (C \cup {l + 1})
        BY <1>2, <2>1
      <3> QED
        BY <1>4, <2>1, <3>1, FS_Subset
    <2>2. CASE e # "STORED"
      <3>1. D \in SUBSET C
        BY <1>2, <2>2
      <3> QED
        BY <1>3, <1>5, <2>2, <3>1, FS_Subset
    <2> QED
      BY <2>1, <2>2
  <1> QED
    BY <1>5, <1>6 DEF C, D, l

\* and at least one less when a confirmation is read.
LEMMA ConfirmedRead ==
    ASSUME NEW s \in Seq({"STORED", "ERROR"}), NEW m \in 1..Len(s)
    PROVE  /\ Cardinality(Confirmed(s)) \in Nat
           /\ Cardinality(Confirmed(SubSeq(s, m + 1, Len(s)))) \in Nat
           /\ Cardinality(Confirmed(SubSeq(s, m + 1, Len(s))))
                + (IF s[1] = "STORED" THEN 1 ELSE 0) <= Cardinality(Confirmed(s))
  <1> DEFINE t == SubSeq(s, m + 1, Len(s))  C == Confirmed(s)  D == Confirmed(t)
             E == C \ {1}
  <1>1. /\ Len(s) \in Nat /\ DOMAIN s = 1..Len(s) /\ DOMAIN t = 1..(Len(s) - m)
        /\ \A i \in DOMAIN t : t[i] = s[i + m] /\ i + m \in DOMAIN s
    BY Shifted
  <1> HIDE DEF t
  <1>2. C \subseteq 1..Len(s) /\ IsFiniteSet(C) /\ (1 \in C <=> s[1] = "STORED")
    <2>1. C \subseteq 1..Len(s) /\ (1 \in C <=> s[1] = "STORED")
      BY <1>1 DEF Confirmed
    <2> HIDE DEF C
    <2>2. IsFiniteSet(1..Len(s)) /\ C \in SUBSET (1..Len(s))
      BY <1>1, <2>1, FS_Interval
    <2> QED
      BY <2>1, <2>2, FS_Subset
  <1>3. \A i \in D : i \in Nat /\ i + m \in E
    BY <1>1 DEF Confirmed
  <1> HIDE DEF C, D
  <1>4. IsFiniteSet(E) /\ Cardinality(C) \in Nat /\ Cardinality(E) \in Nat
    BY <1>2, FS_Subset, FS_CardinalityType
  <1>5. Cardinality(E) = IF s[1] = "STORED" THEN Cardinality(C) - 1 ELSE Cardinality(C)
    BY <1>2, FS_RemoveElement
  <1> HIDE DEF E
  <1>6. IsFiniteSet(D) /\ Cardinality(D) <= Cardinality(E)
    <2> DEFINE f == [i \in D |-> i + m]
    <2>1. f \in Injection(D, E)
      <3>1. f \in [D -> E]
        BY <1>3
      <3>2. \A i, j \in D : f[i] = f[j] => i = j
        BY <1>1, <1>3
      <3> QED
        BY <3>1, <3>2 DEF Injection, IsInjective
    <2> QED
      BY <1>4, <2>1, FS_Injection
  <1>7. Cardinality(D) \in Nat
    BY <1>6, FS_CardinalityType
  <1> QED
    BY <1>4, <1>5, <1>6, <1>7 DEF C, D, t

-----------------------------------------------------------------------------
(* The steps of a client.                                                  *)

Calm(c) ==
    sock'[c] = sock[c] /\ requests'[c] = requests[c] /\ replies'[c] = replies[c]
Domains == DOMAIN sock = Clients /\ DOMAIN requests = Clients /\ DOMAIN replies = Clients

LEMMA Failing ==
    ASSUME NetTypes, NEW kind, Fault(kind)
    PROVE  faults' \in Seq(Faults) /\ \A x : Happened(x)' <=> Happened(x) \/ x = kind
  <1>1. kind \in Faults /\ faults \in Seq(Faults) /\ faults' = Append(faults, kind)
    BY DEF Fault, NetTypes
  <1>2. /\ faults' \in Seq(Faults) /\ Len(faults) \in Nat /\ DOMAIN faults = 1..Len(faults)
        /\ DOMAIN faults' = 1..(Len(faults) + 1)
        /\ \A i \in 1..(Len(faults) + 1) :
             faults'[i] = IF i = Len(faults) + 1 THEN kind ELSE faults[i]
    BY <1>1, Appended
  <1> SUFFICES ASSUME NEW x PROVE Happened(x)' <=> Happened(x) \/ x = kind
    BY <1>2
  <1>3. (\E i \in DOMAIN faults' : faults'[i] = x)
          <=> (\E i \in DOMAIN faults : faults[i] = x) \/ x = kind
    <2>1. Len(faults) + 1 \in DOMAIN faults'
      BY <1>2
    <2>2. \A i \in DOMAIN faults : i \in DOMAIN faults' /\ faults'[i] = faults[i]
      BY <1>2
    <2>3. \A i \in DOMAIN faults' : i \in DOMAIN faults \/ i = Len(faults) + 1
      BY <1>2
    <2>4. faults'[Len(faults) + 1] = kind
      BY <1>2
    <2> QED
      BY <2>1, <2>2, <2>3, <2>4
  <1> QED
    BY <1>3 DEF Happened

LEMMA Sending ==
    ASSUME NetTypes, NEW c \in Clients, NEW cmd, Sent(c, cmd)
    PROVE  /\ requests'[c] = Append(requests[c], cmd) /\ replies'[c] = replies[c]
           /\ sock[c] # "dead" /\ sock'[c] = "open" /\ Domains' /\ faults' = faults
           /\ \A d \in Clients \ {c} : Calm(d)
  BY DEF NetTypes, Sent, Calm, Domains

LEMMA NotSending ==
    ASSUME NetTypes, NEW c \in Clients, SendFails(c)
    PROVE  net' = net /\ faults' \in Seq(Faults) /\ (Sound' <=> Sound)
  <1>1. CASE Fault("refused") /\ UNCHANGED net
    BY <1>1, Failing DEF Sound
  <1>2. CASE UNCHANGED faults /\ UNCHANGED net
    BY <1>2 DEF NetTypes, Sound, Happened
  <1> QED
    BY <1>1, <1>2 DEF SendFails

LEMMA Receiving ==
    ASSUME NetTypes, NEW c \in Clients, Received(c)
    PROVE  /\ replies[c] # <<>> /\ faults' = faults /\ Domains'
           /\ requests' = requests /\ sock' = sock
           /\ \E m \in 1..Len(replies[c]) :
                replies'[c] = SubSeq(replies[c], m + 1, Len(replies[c]))
           /\ \A d \in Clients \ {c} : Calm(d)
  BY DEF NetTypes, Received, Calm, Domains

LEMMA NotReceiving ==
    ASSUME NetTypes, NEW c \in Clients, RecvFails(c)
    PROVE  /\ net' = net /\ faults' \in Seq(Faults) /\ (Sound' => Sound)
           /\ Sound' => replies[c] = <<>> /\ requests[c] = <<>>
  <1>1. CASE Fault("timeout") /\ UNCHANGED net
    BY <1>1, Failing DEF Sound
  <1>2. CASE sock[c] = "dead" /\ replies[c] = <<>> /\ UNCHANGED faults /\ UNCHANGED net
    BY <1>2 DEF NetTypes, Sound, Happened
  <1> QED
    BY <1>1, <1>2 DEF RecvFails

\* Nothing is sent or read that concerns the transfer; something may be lost.
NetIdles ==
    /\ Domains' /\ faults' \in Seq(Faults) /\ (Sound' => Sound)
    /\ \A d \in {"src", "dst"} :
          requests'[d] \in {requests[d], <<>>} /\ replies'[d] \in {replies[d], <<>>}
    /\ \A d \in Clients : sock'[d] = "dead" => requests'[d] = <<>>

LEMMA CalmIdles ==
    ASSUME NetTypes, net' = net, faults' \in Seq(Faults), Sound' => Sound
    PROVE  NetIdles
  BY DEF NetIdles, net, Domains, NetTypes

LEMMA ListIdles ==
    ASSUME NetTypes,
           \/ (\E cmd : Sent("list", cmd)) \/ SendFails("list")
           \/ Received("list") \/ RecvFails("list") \/ Closes({"list"})
    PROVE  NetIdles
  <1>1. "list" \in Clients
    BY DEF Clients
  <1>2. CASE \E cmd : Sent("list", cmd)
    BY <1>2 DEF Sent, NetIdles, Clients, NetTypes, Sound, Happened, Domains
  <1>3. CASE SendFails("list")
    BY <1>1, <1>3, NotSending, CalmIdles
  <1>4. CASE Received("list")
    BY <1>4 DEF Received, NetIdles, Clients, NetTypes, Sound, Happened, Domains
  <1>5. CASE RecvFails("list")
    BY <1>1, <1>5, NotReceiving, CalmIdles
  <1>6. CASE Closes({"list"})
    BY <1>6 DEF NetIdles, Closes, Clients, NetTypes, Sound, Happened, Domains
  <1> QED
    BY <1>2, <1>3, <1>4, <1>5, <1>6

LEMMA TransferIdles ==
    ASSUME NetTypes,
           \/ SendFails("src") \/ RecvFails("src") \/ SendFails("dst") \/ RecvFails("dst")
           \/ Closes({"src", "dst"})
    PROVE  NetIdles
  <1>1. "src" \in Clients /\ "dst" \in Clients
    BY DEF Clients
  <1>2. CASE SendFails("src") \/ SendFails("dst")
    BY <1>1, <1>2, NotSending, CalmIdles
  <1>3. CASE RecvFails("src") \/ RecvFails("dst")
    BY <1>1, <1>3, NotReceiving, CalmIdles
  <1>4. CASE Closes({"src", "dst"})
    BY <1>4 DEF NetIdles, Closes, Clients, NetTypes, Sound, Happened, Domains
  <1> QED
    BY <1>2, <1>3, <1>4

LEMMA CloseIdles ==
    ASSUME NetTypes, NEW c \in Clients, Close(c)
    PROVE  NetIdles
  <1>1. faults' \in Seq(Faults) /\ (Sound' => Sound)
    BY Failing DEF Close, Sound
  <1> QED
    BY <1>1 DEF NetIdles, Close, Clients, NetTypes, Domains

LEMMA ServeListIdles ==
    ASSUME NetTypes, ServeList
    PROVE  NetIdles
  <1>1. PICK reply : Executes("list", reply)
    BY DEF ServeList
  <1>2. requests["list"] # <<>> /\ UNCHANGED <<sock, faults>>
    BY DEF ServeList
  <1> QED
    BY <1>1, <1>2 DEF NetIdles, Executes, Clients, NetTypes, Sound, Happened, Domains

LEMMA Idling ==
    ASSUME TransferInv, NetIdles, data' = data, n' = n,
           \/ pc' = pc /\ copying' = copying
           \/ pc \in Snapshot /\ pc' \in Snapshot \cup {"get", "failed"}
           \/ /\ pc \in {"get", "value", "set", "stored"} /\ pc' \in {"get", "done"}
              /\ keys' \subseteq keys
              /\ Sound' /\ pc = "value" => requests["src"] = <<>> /\ replies["src"] = <<>>
    PROVE  TransferInv'
  <1>1. /\ source' = source /\ had' = had /\ stored' = stored
        /\ NetTypes /\ DataTypes /\ OnceInv /\ CountInv
        /\ \A d \in {"src", "dst"} :
             requests'[d] \in {requests[d], <<>>} /\ replies'[d] \in {replies[d], <<>>}
    BY DEF data, TransferInv, NetIdles
  <1>2. NetTypes'
    <2>1. requests["src"] \in Seq(Gets) /\ requests["dst"] \in Seq(Sets)
      BY <1>1 DEF NetTypes
    <2>2. replies["src"] \in Seq(Values) /\ replies["dst"] \in Seq({"STORED", "ERROR"})
      BY <1>1 DEF NetTypes
    <2>3. \A S : <<>> \in Seq(S)
      OBVIOUS
    <2>4. requests'["src"] \in Seq(Gets) /\ requests'["dst"] \in Seq(Sets)
      BY <1>1, <2>1, <2>3
    <2>5. replies'["src"] \in Seq(Values) /\ replies'["dst"] \in Seq({"STORED", "ERROR"})
      BY <1>1, <2>2, <2>3
    <2> QED
      BY <2>4, <2>5 DEF NetTypes, NetIdles, Domains
  <1>3. DataTypes'
    BY <1>1 DEF DataTypes, Snapshot, copying
  <1>4. OnTheWay' \subseteq OnTheWay
    BY <1>1 DEF OnTheWay
  <1>5. \A i, j \in DOMAIN requests'["dst"] :
          requests'["dst"][i].key = requests'["dst"][j].key => i = j
    BY <1>1 DEF OnceInv
  <1>6. OnceInv'
    BY <1>1, <1>4, <1>5 DEF OnceInv, Snapshot, copying
  <1>7. CountInv'
    <2>1. CASE replies'["dst"] = replies["dst"]
      BY <1>1, <2>1 DEF CountInv
    <2>2. CASE replies'["dst"] = <<>>
      <3>1. Confirmed(<<>>) = {}
        BY DEF Confirmed
      <3>2. Cardinality(Confirmed(replies["dst"])) \in Nat /\ n \in Nat
        BY <1>1, OneMoreConfirmed DEF NetTypes, DataTypes
      <3>3. stored' = stored /\ Cardinality(stored) \in Nat
        BY <1>1, FS_Subset, FS_CardinalityType, TransferAssumption DEF DataTypes
      <3>4. Cardinality({}) = 0
        BY FS_EmptySet
      <3>5. n <= Cardinality(stored)
        BY <1>1, <3>2, <3>3 DEF CountInv
      <3>6. Cardinality(Confirmed(replies'["dst"])) = 0
        BY <2>2, <3>1, <3>4
      <3>7. n' + 0 <= Cardinality(stored')
        BY <3>2, <3>3, <3>5
      <3> QED
        BY <3>6, <3>7 DEF CountInv
    <2> QED
      BY <1>1, <2>1, <2>2
  <1>8. ASSUME Sound' PROVE InTurn' /\ Faithful'
    <2>1. InTurn /\ Faithful
      BY <1>8 DEF TransferInv, NetIdles
    <2>2. Faithful'
      BY <1>1, <2>1 DEF Faithful, Snapshot, copying
    <2>3. pc' # "value" => requests'["src"] = <<>> /\ replies'["src"] = <<>>
      BY <1>1, <1>8, <2>1 DEF InTurn, copying, Snapshot
    <2>4. InTurn'
      <3>1. Len(<<>>) = 0 /\ DOMAIN <<>> = {}
        OBVIOUS
      <3>2. Len(requests["src"]) \in Nat /\ Len(replies["src"]) \in Nat
        BY <1>1 DEF NetTypes
      <3>3. Len(requests'["src"]) + Len(replies'["src"]) <= 1
        <4>1. /\ Len(requests'["src"]) = 0 \/ Len(requests'["src"]) = Len(requests["src"])
              /\ Len(replies'["src"]) = 0 \/ Len(replies'["src"]) = Len(replies["src"])
          BY <1>1, <3>1
        <4>2. Len(requests["src"]) + Len(replies["src"]) <= 1
          BY <2>1 DEF InTurn
        <4>3. \A a, b, x, y : /\ a \in Nat /\ b \in Nat /\ a + b <= 1
                              /\ (x = 0 \/ x = a) /\ (y = 0 \/ y = b)
                              => x + y <= 1
          OBVIOUS
        <4> QED
          BY <3>2, <4>1, <4>2, <4>3, Zenon
      <3>4. CASE pc' = "value"
        <4>1. key' = key
          BY <3>4 DEF copying, Snapshot
        <4> QED
          BY <1>1, <2>1, <2>3, <3>1, <3>3, <4>1 DEF InTurn
      <3>5. CASE pc' # "value"
        BY <2>3, <3>1, <3>3, <3>5 DEF InTurn
      <3> QED
        BY <3>4, <3>5
    <2> QED
      BY <2>2, <2>4
  <1> QED
    BY <1>2, <1>3, <1>6, <1>7, <1>8 DEF TransferInv

-----------------------------------------------------------------------------
(* The snapshot.                                                           *)

LEMMA SnapshotInv ==
    ASSUME TransferInv,
           \/ SendStats \/ StatsItems \/ SendDump \/ CacheDump \/ EndSnapshot
           \/ AbortSnapshot \/ ServeList
    PROVE  TransferInv'
  <1>1. NetTypes
    BY DEF TransferInv
  <1>2. CASE ServeList
    <2>1. NetIdles
      BY <1>1, <1>2, ServeListIdles
    <2> QED
      BY <1>2, <2>1, Idling DEF ServeList, copying
  <1>3. CASE \/ SendStats \/ StatsItems \/ SendDump \/ CacheDump \/ EndSnapshot
             \/ AbortSnapshot
    <2>1. /\ pc \in Snapshot /\ pc' \in Snapshot \cup {"get", "failed"}
          /\ data' = data /\ n' = n
      BY <1>3 DEF SendStats, StatsItems, SendDump, CacheDump, EndSnapshot, AbortSnapshot,
                  Snapshot, copying
    <2>2. \/ (\E cmd : Sent("list", cmd)) \/ SendFails("list")
          \/ Received("list") \/ RecvFails("list") \/ Closes({"list"})
      BY <1>3 DEF SendStats, StatsItems, SendDump, CacheDump, EndSnapshot, AbortSnapshot
    <2>3. NetIdles
      BY <1>1, <2>2, ListIdles
    <2> QED
      BY <2>1, <2>3, Idling
  <1> QED
    BY <1>2, <1>3

-----------------------------------------------------------------------------
(* The transfer.                                                           *)

\* A step on the source's side.
LEMMA TargetUntouched ==
    ASSUME TransferInv, data' = data, n' = n, Sound' => Sound,
           requests'["dst"] = requests["dst"], replies'["dst"] = replies["dst"],
           keys' \subseteq keys, pc' \in Snapshot => pc \in Snapshot,
           pc' \in {"value", "set"} => key' \notin keys' \cup OnTheWay \cup stored,
           Sound' /\ pc' = "set" => got' \in had[key']
    PROVE  OnceInv' /\ CountInv' /\ (Sound' => Faithful')
  <1>1. had' = had /\ stored' = stored /\ OnTheWay' = OnTheWay
    BY DEF data, OnTheWay
  <1>2. OnceInv'
    BY <1>1 DEF TransferInv, OnceInv
  <1>3. CountInv'
    BY <1>1 DEF TransferInv, CountInv
  <1>4. Sound' => Faithful'
    BY <1>1 DEF TransferInv, Faithful
  <1> QED
    BY <1>2, <1>3, <1>4

LEMMA SendGetInv ==
    ASSUME TransferInv, NEW k \in Keys, SendGet(k)
    PROVE  TransferInv'
  <1>1. /\ NetTypes /\ DataTypes /\ "src" \in Clients /\ "dst" \in Clients \ {"src"}
        /\ pc = "get" /\ k \in keys /\ keys' = keys \ {k} /\ n' = n /\ data' = data
        /\ got' = got
    BY DEF SendGet, TransferInv, Clients
  <1>2. CASE SendFails("src") /\ UNCHANGED <<pc, key>>
    <2>1. NetIdles
      BY <1>1, <1>2, TransferIdles
    <2> QED
      BY <1>1, <1>2, <2>1, Idling
  <1>3. CASE Sent("src", [op |-> "get", key |-> k]) /\ pc' = "value" /\ key' = k
    <2> DEFINE get == [op |-> "get", key |-> k]
    <2>1. get \in Gets /\ get.key = k
      BY DEF Gets
    <2> HIDE DEF get
    <2>2. /\ requests'["src"] = Append(requests["src"], get) /\ replies'["src"] = replies["src"]
          /\ sock'["src"] = "open" /\ Domains' /\ faults' = faults
          /\ \A d \in Clients \ {"src"} : Calm(d)
      BY <1>1, <1>3, Sending DEF get
    <2>3. requests'["dst"] = requests["dst"] /\ replies'["dst"] = replies["dst"]
      BY <1>1, <2>2 DEF Calm
    <2>4. requests["src"] \in Seq(Gets) /\ requests'["src"] \in Seq(Gets)
      BY <1>1, <2>1, <2>2, Appended DEF NetTypes
    <2>5. \A d \in Clients : sock'[d] = "dead" => requests'[d] = <<>>
      BY <1>1, <2>2 DEF NetTypes, Calm
    <2>6. NetTypes'
      BY <1>1, <2>2, <2>3, <2>4, <2>5 DEF NetTypes, Domains
    <2>7. DataTypes'
      BY <1>1, <1>3 DEF DataTypes, data
    <2>8. Sound' <=> Sound
      BY <2>2 DEF Sound, Happened
    <2>9. k \notin OnTheWay \cup stored
      BY <1>1 DEF TransferInv, OnceInv
    <2>10. OnceInv' /\ CountInv' /\ (Sound' => Faithful')
      BY <1>1, <1>3, <2>3, <2>8, <2>9, TargetUntouched DEF Snapshot
    <2>11. ASSUME Sound' PROVE InTurn'
      <3>1. requests["src"] = <<>> /\ replies["src"] = <<>>
        BY <1>1, <2>8, <2>11 DEF TransferInv, InTurn
      <3>2. /\ Len(<<>>) = 0 /\ DOMAIN <<>> = {}
            /\ Len(requests'["src"]) = 1 /\ DOMAIN requests'["src"] = 1..1
            /\ requests'["src"][1] = get
        BY <2>1, <2>2, <2>4, <3>1, Appended
      <3> QED
        BY <1>3, <2>1, <2>2, <3>1, <3>2 DEF InTurn
    <2> QED
      BY <2>6, <2>7, <2>8, <2>10, <2>11 DEF TransferInv
  <1> QED
    BY <1>2, <1>3 DEF SendGet

\* A reply of the source is read: the one to the key in hand.
LEMMA ReplyRead ==
    ASSUME TransferInv, Received("src")
    PROVE  /\ NetTypes' /\ (Sound' <=> Sound)
           /\ requests'["dst"] = requests["dst"] /\ replies'["dst"] = replies["dst"]
           /\ Head(replies["src"]).entry \in Entries \cup {Miss}
           /\ Sound => /\ requests'["src"] = <<>> /\ replies'["src"] = <<>>
                       /\ Head(replies["src"]).entry \in had[key] \cup {Miss}
  <1>1. NetTypes /\ "src" \in Clients /\ "dst" \in Clients \ {"src"}
    BY DEF TransferInv, Clients
  <1>2. /\ replies["src"] # <<>> /\ faults' = faults /\ Domains'
        /\ requests' = requests /\ sock' = sock
        /\ \E m \in 1..Len(replies["src"]) :
             replies'["src"] = SubSeq(replies["src"], m + 1, Len(replies["src"]))
        /\ \A d \in Clients \ {"src"} : Calm(d)
    BY <1>1, Receiving
  <1>3. PICK m \in 1..Len(replies["src"]) :
          replies'["src"] = SubSeq(replies["src"], m + 1, Len(replies["src"]))
    BY <1>2
  <1>4. replies["src"] \in Seq(Values) /\ requests["src"] \in Seq(Gets)
    BY <1>1 DEF NetTypes
  <1>5. replies'["src"] \in Seq(Values) /\ Len(replies'["src"]) = Len(replies["src"]) - m
    BY <1>3, <1>4, Shifted
  <1>6. /\ Head(replies["src"]) \in Values /\ Head(replies["src"]) = replies["src"][1]
        /\ 1 \in DOMAIN replies["src"] /\ Len(replies["src"]) \in Nat \ {0}
    BY <1>2, <1>4, AfterHead
  <1>7. requests'["dst"] = requests["dst"] /\ replies'["dst"] = replies["dst"]
    BY <1>1, <1>2 DEF Calm
  <1>8. NetTypes'
    BY <1>1, <1>2, <1>5, <1>7 DEF NetTypes, Domains
  <1>9. Sound' <=> Sound
    BY <1>2 DEF Sound, Happened
  <1>10. Head(replies["src"]).entry \in Entries \cup {Miss}
    BY <1>6 DEF Values
  <1>11. ASSUME Sound
         PROVE  /\ requests'["src"] = <<>> /\ replies'["src"] = <<>>
                /\ Head(replies["src"]).entry \in had[key] \cup {Miss}
    <2>1. InTurn
      BY <1>11 DEF TransferInv
    <2>2. Len(requests["src"]) \in Nat
      BY <1>4
    <2>3. Len(requests["src"]) + Len(replies["src"]) <= 1
      BY <2>1 DEF InTurn
    <2>4. Len(requests["src"]) = 0 /\ Len(replies["src"]) = 1
      <3>1. \A a \in Nat, b \in Nat \ {0} : a + b <= 1 => a = 0 /\ b = 1
        OBVIOUS
      <3> QED
        BY <1>6, <2>2, <2>3, <3>1, Zenon
    <2>5. Len(replies'["src"]) = 0
      BY <1>3, <1>5, <2>4
    <2>6. requests["src"] = <<>> /\ replies'["src"] = <<>>
      BY <1>4, <1>5, <2>4, <2>5
    <2>7. replies["src"][1].entry \in had[key] \cup {Miss}
      BY <1>6, <2>1 DEF InTurn
    <2> QED
      BY <1>2, <1>6, <2>6, <2>7
  <1> QED
    BY <1>7, <1>8, <1>9, <1>10, <1>11

LEMMA NothingInTurn ==
    ASSUME requests'["src"] = <<>>, replies'["src"] = <<>>
    PROVE  InTurn'
  <1>1. Len(<<>>) = 0 /\ DOMAIN <<>> = {} /\ 0 + 0 <= 1
    OBVIOUS
  <1>2. Len(requests'["src"]) + Len(replies'["src"]) <= 1
    BY <1>1
  <1> QED
    BY <1>1, <1>2 DEF InTurn

LEMMA GetWithMetaInv ==
    ASSUME TransferInv, GetWithMeta
    PROVE  TransferInv'
  <1>1. /\ NetTypes /\ DataTypes /\ OnceInv
        /\ pc = "value" /\ n' = n /\ data' = data
    BY DEF GetWithMeta, TransferInv
  <1>2. key \in Keys /\ key \notin keys \cup OnTheWay \cup stored
    BY <1>1 DEF DataTypes, OnceInv
  <1>3. CASE RecvFails("src") /\ NextKey
    <2>1. NetIdles
      BY <1>1, <1>3, TransferIdles
    <2>2. Sound' => replies["src"] = <<>> /\ requests["src"] = <<>>
      BY <1>1, <1>3, NotReceiving DEF Clients
    <2> QED
      BY <1>1, <1>3, <2>1, <2>2, Idling DEF NextKey
  <1>4. CASE Received("src") /\ NextKey
    <2>1. /\ NetTypes' /\ (Sound' <=> Sound)
          /\ requests'["dst"] = requests["dst"] /\ replies'["dst"] = replies["dst"]
          /\ Sound => requests'["src"] = <<>> /\ replies'["src"] = <<>>
      BY <1>4, ReplyRead
    <2>2. DataTypes'
      BY <1>1, <1>4 DEF DataTypes, data, NextKey
    <2>3. OnceInv' /\ CountInv' /\ (Sound' => Faithful')
      BY <1>4, <1>1, <2>1, TargetUntouched DEF NextKey, Snapshot
    <2>5. Sound' => InTurn'
      BY <2>1, NothingInTurn
    <2> QED
      BY <2>1, <2>2, <2>3, <2>5 DEF TransferInv
  <1>5. CASE /\ Received("src") /\ Head(replies["src"]).entry # Miss
             /\ got' = Head(replies["src"]).entry
             /\ pc' = "set" /\ UNCHANGED <<key, keys>>
    <2>1. /\ NetTypes' /\ (Sound' <=> Sound)
          /\ requests'["dst"] = requests["dst"] /\ replies'["dst"] = replies["dst"]
          /\ got' \in Entries
          /\ Sound => /\ requests'["src"] = <<>> /\ replies'["src"] = <<>>
                      /\ got' \in had[key]
      BY <1>5, ReplyRead
    <2>2. DataTypes'
      BY <1>1, <1>2, <1>5, <2>1 DEF DataTypes, data
    <2>3. OnceInv' /\ CountInv' /\ (Sound' => Faithful')
      BY <1>1, <1>2, <1>5, <2>1, TargetUntouched DEF Snapshot
    <2>5. Sound' => InTurn'
      BY <2>1, NothingInTurn
    <2> QED
      BY <2>1, <2>2, <2>3, <2>5 DEF TransferInv
  <1>6. CASE /\ ReceivedCut("src") /\ got' = Cut[Head(replies["src"]).entry]
             /\ pc' = "set" /\ UNCHANGED <<key, keys>>
    <2>1. /\ replies["src"] # <<>> /\ Fault("cut") /\ requests' = requests /\ sock' = sock
          /\ replies' = [replies EXCEPT !["src"] = <<[entry |-> Miss]>> \o Tail(@)]
          /\ Head(replies["src"]).entry \in Embedded
      BY <1>6 DEF ReceivedCut
    <2>2. faults' \in Seq(Faults) /\ ~Sound'
      BY <1>1, <2>1, Failing DEF Sound
    <2>3. replies["src"] \in Seq(Values)
      BY <1>1 DEF NetTypes
    <2>4. Tail(replies["src"]) \in Seq(Values)
      BY <2>1, <2>3, AfterHead
    <2>5. [entry |-> Miss] \in Values
      BY DEF Values
    <2>6. <<[entry |-> Miss]>> \in Seq(Values)
      BY <2>5
    <2>7. <<[entry |-> Miss]>> \o Tail(replies["src"]) \in Seq(Values)
      BY <2>4, <2>6
    <2>8. /\ replies'["src"] \in Seq(Values) /\ replies'["dst"] = replies["dst"]
          /\ DOMAIN replies' = Clients
      BY <1>1, <2>1, <2>7 DEF NetTypes, Clients
    <2>9. NetTypes'
      BY <1>1, <2>1, <2>2, <2>8 DEF NetTypes
    <2>10. got' \in Entries
      BY <1>6, <2>1, TransferAssumption
    <2>11. DataTypes'
      BY <1>1, <1>2, <1>6, <2>10 DEF DataTypes, data
    <2>12. OnceInv' /\ CountInv'
      BY <1>1, <1>2, <1>6, <2>1, <2>2, <2>8, TargetUntouched DEF Snapshot
    <2> QED
      BY <2>2, <2>9, <2>11, <2>12 DEF TransferInv
  <1> QED
    BY <1>3, <1>4, <1>5, <1>6 DEF GetWithMeta

\* A step on the target's side.
LEMMA SourceUntouched ==
    ASSUME TransferInv, had' = had, Sound' => Sound,
           requests'["src"] = requests["src"], replies'["src"] = replies["src"],
           \/ pc' = pc /\ key' = key
           \/ pc # "value" /\ pc' # "value"
    PROVE  Sound' => InTurn'
  <1> SUFFICES ASSUME Sound' PROVE InTurn'
    OBVIOUS
  <1>1. InTurn
    BY DEF TransferInv
  <1>2. CASE pc' = pc /\ key' = key
    BY <1>1, <1>2 DEF InTurn
  <1>3. CASE pc # "value" /\ pc' # "value"
    BY <1>1, <1>3, NothingInTurn DEF InTurn
  <1> QED
    BY <1>2, <1>3

LEMMA SendSetInv ==
    ASSUME TransferInv, SendSet
    PROVE  TransferInv'
  <1>1. /\ NetTypes /\ DataTypes /\ OnceInv /\ CountInv
        /\ "dst" \in Clients /\ "src" \in Clients \ {"dst"}
        /\ pc = "set" /\ n' = n /\ data' = data
    BY DEF SendSet, TransferInv, Clients
  <1>2. /\ key \in Keys /\ got \in Entries /\ key \notin keys \cup OnTheWay \cup stored
        /\ had' = had /\ stored' = stored
    BY <1>1 DEF DataTypes, OnceInv, data
  <1>3. CASE SendFails("dst") /\ NextKey
    <2>1. NetIdles
      BY <1>1, <1>3, TransferIdles
    <2> QED
      BY <1>1, <1>3, <2>1, Idling DEF NextKey
  <1>4. CASE /\ Sent("dst", [op |-> "set", key |-> key, entry |-> got])
             /\ pc' = "stored" /\ UNCHANGED <<key, got, keys>>
    <2>1. PICK set : set = [op |-> "set", key |-> key, entry |-> got]
      OBVIOUS
    <2>2. set \in Sets /\ set.key = key /\ set.entry = got
      BY <1>2, <2>1 DEF Sets
    <2>3. /\ requests'["dst"] = Append(requests["dst"], set) /\ replies'["dst"] = replies["dst"]
          /\ sock'["dst"] = "open" /\ Domains' /\ faults' = faults
          /\ \A d \in Clients \ {"dst"} : Calm(d)
      BY <1>1, <1>4, <2>1, Sending
    <2>4. requests'["src"] = requests["src"] /\ replies'["src"] = replies["src"]
      BY <1>1, <2>3 DEF Calm
    <2>5. /\ requests'["dst"] \in Seq(Sets) /\ Len(requests["dst"]) \in Nat
          /\ DOMAIN requests["dst"] = 1..Len(requests["dst"])
          /\ DOMAIN requests'["dst"] = 1..(Len(requests["dst"]) + 1)
          /\ \A i \in 1..(Len(requests["dst"]) + 1) :
               requests'["dst"][i] = IF i = Len(requests["dst"]) + 1
                                     THEN set ELSE requests["dst"][i]
      <3>1. requests["dst"] \in Seq(Sets)
        BY <1>1 DEF NetTypes
      <3> QED
        BY <2>2, <2>3, <3>1, Appended
    <2>6. \A d \in Clients : sock'[d] = "dead" => requests'[d] = <<>>
      BY <1>1, <2>3 DEF NetTypes, Calm
    <2>7. NetTypes'
      BY <1>1, <2>3, <2>4, <2>5, <2>6 DEF NetTypes, Domains
    <2>8. DataTypes'
      BY <1>1, <1>2, <1>4 DEF DataTypes, data
    <2>9. Sound' <=> Sound
      BY <2>3 DEF Sound, Happened
    <2>10. \A i \in DOMAIN requests'["dst"] :
             \/ i \in DOMAIN requests["dst"] /\ requests'["dst"][i] = requests["dst"][i]
             \/ i = Len(requests["dst"]) + 1 /\ requests'["dst"][i] = set
      BY <2>5
    <2>11. OnTheWay' \subseteq OnTheWay \cup {key}
      BY <2>2, <2>10 DEF OnTheWay
    <2>12. \A i \in DOMAIN requests["dst"] : requests["dst"][i].key # key
      BY <1>2 DEF OnTheWay
    <2>13. \A i, j \in DOMAIN requests'["dst"] :
             requests'["dst"][i].key = requests'["dst"][j].key => i = j
      BY <1>1, <2>2, <2>10, <2>12 DEF OnceInv
    <2>14. OnceInv'
      BY <1>1, <1>2, <1>4, <2>11, <2>13 DEF OnceInv, Snapshot
    <2>15. CountInv'
      BY <1>1, <1>2, <2>3 DEF CountInv
    <2>16. Sound' => InTurn'
      BY <1>1, <1>2, <1>4, <2>4, <2>9, SourceUntouched
    <2>17. Sound' => Faithful'
      BY <1>1, <1>2, <1>4, <2>2, <2>9, <2>10 DEF TransferInv, Faithful
    <2> QED
      BY <2>7, <2>8, <2>14, <2>15, <2>16, <2>17 DEF TransferInv
  <1> QED
    BY <1>3, <1>4 DEF SendSet

LEMMA SetWithMetaInv ==
    ASSUME TransferInv, SetWithMeta
    PROVE  TransferInv'
  <1>1. /\ NetTypes /\ DataTypes /\ OnceInv /\ CountInv
        /\ "dst" \in Clients /\ "src" \in Clients \ {"dst"}
        /\ pc = "stored" /\ NextKey /\ data' = data
    BY DEF SetWithMeta, TransferInv, Clients
  <1>2. had' = had /\ stored' = stored /\ pc' = "get" /\ keys' = keys
    BY <1>1 DEF data, NextKey
  <1>3. CASE RecvFails("dst") /\ UNCHANGED n
    <2>1. NetIdles
      BY <1>1, <1>3, TransferIdles
    <2> QED
      BY <1>1, <1>2, <1>3, <2>1, Idling
  <1>4. CASE /\ Received("dst")
             /\ n' = IF Head(replies["dst"]) = "STORED" THEN n + 1 ELSE n
    <2>1. /\ replies["dst"] # <<>> /\ faults' = faults /\ Domains'
          /\ requests' = requests /\ sock' = sock
          /\ \E m \in 1..Len(replies["dst"]) :
               replies'["dst"] = SubSeq(replies["dst"], m + 1, Len(replies["dst"]))
          /\ \A d \in Clients \ {"dst"} : Calm(d)
      BY <1>1, <1>4, Receiving
    <2>2. PICK m \in 1..Len(replies["dst"]) :
            replies'["dst"] = SubSeq(replies["dst"], m + 1, Len(replies["dst"]))
      BY <2>1
    <2>3. replies["dst"] \in Seq({"STORED", "ERROR"})
      BY <1>1 DEF NetTypes
    <2>4. replies'["dst"] \in Seq({"STORED", "ERROR"}) /\ Head(replies["dst"]) = replies["dst"][1]
      BY <2>1, <2>2, <2>3, Shifted, AfterHead
    <2>5. replies'["src"] = replies["src"]
      BY <1>1, <2>1 DEF Calm
    <2>6. NetTypes'
      BY <1>1, <2>1, <2>4, <2>5 DEF NetTypes, Domains
    <2>7. n \in Nat /\ n' \in Nat
      BY <1>1, <1>4 DEF DataTypes
    <2>8. DataTypes'
      BY <1>1, <1>2, <2>7 DEF DataTypes, data
    <2>9. OnceInv'
      BY <1>1, <1>2, <2>1 DEF OnceInv, OnTheWay, Snapshot
    <2>10. CountInv'
      <3>1. /\ Cardinality(Confirmed(replies["dst"])) \in Nat
            /\ Cardinality(Confirmed(replies'["dst"])) \in Nat
            /\ Cardinality(Confirmed(replies'["dst"])) + (n' - n)
                 <= Cardinality(Confirmed(replies["dst"]))
        BY <1>4, <2>2, <2>3, <2>4, <2>7, ConfirmedRead
      <3>2. Cardinality(stored) \in Nat
        BY <1>1, FS_Subset, FS_CardinalityType, TransferAssumption DEF DataTypes
      <3>3. n + Cardinality(Confirmed(replies["dst"])) <= Cardinality(stored)
        BY <1>1 DEF CountInv
      <3>4. \A a, b, x, y, z \in Nat : x + (b - a) <= y /\ a + y <= z => b + x <= z
        OBVIOUS
      <3>5. n' + Cardinality(Confirmed(replies'["dst"])) <= Cardinality(stored)
        BY <2>7, <3>1, <3>2, <3>3, <3>4
      <3> QED
        BY <1>2, <3>5 DEF CountInv
    <2>11. Sound' <=> Sound
      BY <2>1 DEF Sound, Happened
    <2>12. Sound' => InTurn'
      BY <1>1, <1>2, <2>1, <2>5, <2>11, SourceUntouched
    <2>13. Sound' => Faithful'
      BY <1>2, <2>1, <2>11 DEF TransferInv, Faithful
    <2> QED
      BY <2>6, <2>8, <2>9, <2>10, <2>12, <2>13 DEF TransferInv
  <1> QED
    BY <1>3, <1>4 DEF SetWithMeta

LEMMA ReturnCountInv ==
    ASSUME TransferInv, ReturnCount
    PROVE  TransferInv'
  <1>1. NetIdles
    BY TransferIdles DEF ReturnCount, TransferInv
  <1> QED
    BY <1>1, Idling DEF ReturnCount, copying

-----------------------------------------------------------------------------
(* The memcacheds.                                                         *)

\* A command is executed; the reply may go to a socket that is closed.
LEMMA Executing ==
    ASSUME NetTypes, NEW c \in {"src", "dst"}, requests[c] # <<>>, NEW reply,
           Executes(c, reply), sock' = sock
    PROVE  /\ requests'[c] = Tail(requests[c]) /\ Domains'
           /\ replies'[c] = replies[c] \/ replies'[c] = Append(replies[c], reply)
           /\ \A d \in Clients \ {c} : requests'[d] = requests[d] /\ replies'[d] = replies[d]
           /\ \A d \in Clients : sock'[d] = "dead" => requests'[d] = <<>>
  BY DEF NetTypes, Executes, Domains, Clients

LEMMA ServeGetInv ==
    ASSUME TransferInv, ServeGet
    PROVE  TransferInv'
  <1>1. NetTypes /\ DataTypes
    BY DEF TransferInv
  <1>2. /\ pc' = pc /\ key' = key /\ got' = got /\ keys' = keys /\ n' = n /\ data' = data
        /\ sock' = sock /\ faults' = faults /\ had' = had /\ requests["src"] # <<>>
    BY DEF ServeGet, data, copying
  <1>3. PICK k : k = Head(requests["src"]).key
    OBVIOUS
  <1>4. PICK reply : reply = [entry |-> source[k]]
    OBVIOUS
  <1>5. Executes("src", reply)
    BY <1>3, <1>4 DEF ServeGet
  <1>6. /\ Tail(requests["src"]) \in Seq(Gets)
        /\ Head(requests["src"]) \in Gets /\ Head(requests["src"]) = requests["src"][1]
        /\ 1 \in DOMAIN requests["src"] /\ Len(requests["src"]) \in Nat \ {0}
        /\ Len(Tail(requests["src"])) = Len(requests["src"]) - 1
    <2>1. requests["src"] \in Seq(Gets)
      BY <1>1 DEF NetTypes
    <2> QED
      BY <1>2, <2>1, AfterHead
  <1>7. k \in Keys /\ reply.entry = source[k] /\ reply \in Values
        /\ source[k] \in had[k] \cup {Miss}
    BY <1>1, <1>3, <1>4, <1>6 DEF Gets, Values, DataTypes
  <1>8. /\ requests'["src"] = Tail(requests["src"]) /\ Domains'
        /\ replies'["src"] = replies["src"] \/ replies'["src"] = Append(replies["src"], reply)
        /\ \A d \in Clients \ {"src"} : requests'[d] = requests[d] /\ replies'[d] = replies[d]
        /\ \A d \in Clients : sock'[d] = "dead" => requests'[d] = <<>>
    BY <1>1, <1>2, <1>5, Executing
  <1>9. requests'["dst"] = requests["dst"] /\ replies'["dst"] = replies["dst"]
    BY <1>8 DEF Clients
  <1>10. replies["src"] \in Seq(Values) /\ replies'["src"] \in Seq(Values)
    <2>1. replies["src"] \in Seq(Values)
      BY <1>1 DEF NetTypes
    <2>2. Append(replies["src"], reply) \in Seq(Values)
      BY <1>7, <2>1
    <2> QED
      BY <1>8, <2>1, <2>2
  <1>11. NetTypes'
    BY <1>1, <1>2, <1>6, <1>8, <1>9, <1>10 DEF NetTypes, Domains
  <1>12. DataTypes'
    BY <1>1, <1>2 DEF DataTypes, data
  <1>13. Sound' <=> Sound
    BY <1>2 DEF Sound, Happened
  <1>14. OnceInv' /\ CountInv' /\ (Sound' => Faithful')
    <2>1. pc \in {"value", "set"} => key \notin keys \cup OnTheWay \cup stored
      BY DEF TransferInv, OnceInv
    <2>2. Sound /\ pc = "set" => got \in had[key]
      BY DEF TransferInv, Faithful
    <2> QED
      BY <1>2, <1>9, <1>13, <2>1, <2>2, TargetUntouched
  <1>15. ASSUME Sound PROVE InTurn'
    <2>1. InTurn /\ pc = "value"
      BY <1>2, <1>15 DEF TransferInv, InTurn
    <2>2. Len(requests["src"]) + Len(replies["src"]) <= 1 /\ Len(replies["src"]) \in Nat
      <3>1. Len(replies["src"]) \in Nat
        BY <1>10
      <3> QED
        BY <2>1, <3>1 DEF InTurn
    <2>3. Len(requests["src"]) = 1 /\ Len(replies["src"]) = 0 /\ k = key
      <3>1. \A a \in Nat \ {0}, b \in Nat : a + b <= 1 => a = 1 /\ b = 0
        OBVIOUS
      <3> QED
        BY <1>3, <1>6, <2>1, <2>2, <3>1 DEF InTurn
    <2>4. requests'["src"] = <<>> /\ Len(requests'["src"]) = 0 /\ DOMAIN requests'["src"] = {}
      <3>1. Len(Tail(requests["src"])) = 0
        BY <1>6, <2>3
      <3>2. Tail(requests["src"]) = <<>>
        BY <1>6, <3>1, EmptySeq
      <3> QED
        BY <1>8, <3>1, <3>2
    <2>5. /\ Len(replies'["src"]) <= 1 /\ Len(replies'["src"]) \in Nat
          /\ \A i \in DOMAIN replies'["src"] : replies'["src"][i] = reply
      <3>1. CASE replies'["src"] = replies["src"]
        BY <1>10, <2>3, <3>1
      <3>2. CASE replies'["src"] = Append(replies["src"], reply)
        BY <1>7, <1>10, <2>3, <3>2, Appended
      <3> QED
        BY <1>8, <3>1, <3>2
    <2>6. Len(requests'["src"]) + Len(replies'["src"]) <= 1
      BY <2>4, <2>5
    <2>7. \A i \in DOMAIN replies'["src"] : replies'["src"][i].entry \in had'[key'] \cup {Miss}
      BY <1>2, <1>7, <2>3, <2>5
    <2> QED
      BY <1>2, <2>1, <2>4, <2>6, <2>7 DEF InTurn
  <1> QED
    BY <1>11, <1>12, <1>13, <1>14, <1>15 DEF TransferInv

LEMMA ServeSetInv ==
    ASSUME TransferInv, ServeSet
    PROVE  TransferInv'
  <1>1. NetTypes /\ DataTypes /\ OnceInv /\ CountInv
    BY DEF TransferInv
  <1>2. /\ pc' = pc /\ key' = key /\ got' = got /\ keys' = keys /\ n' = n
        /\ sock' = sock /\ had' = had /\ source' = source /\ requests["dst"] # <<>>
    BY DEF ServeSet, copying
  <1>3. PICK cmd : cmd = Head(requests["dst"])
    OBVIOUS
  <1>4. /\ Tail(requests["dst"]) \in Seq(Sets)
        /\ cmd \in Sets /\ cmd = requests["dst"][1] /\ 1 \in DOMAIN requests["dst"]
        /\ Len(requests["dst"]) \in Nat \ {0}
        /\ DOMAIN Tail(requests["dst"]) = 1..(Len(requests["dst"]) - 1)
        /\ \A i \in DOMAIN Tail(requests["dst"]) :
             /\ Tail(requests["dst"])[i] = requests["dst"][i + 1]
             /\ i + 1 \in DOMAIN requests["dst"]
    <2>1. requests["dst"] \in Seq(Sets)
      BY <1>1 DEF NetTypes
    <2> QED
      BY <1>2, <1>3, <2>1, AfterHead
  <1>5. PICK reply \in {"STORED", "ERROR"} :
          /\ Executes("dst", reply)
          /\ \/ reply = "STORED" /\ faults' = faults /\ stored' = stored \cup {cmd.key}
             \/ reply = "ERROR" /\ Fault("reject") /\ stored' = stored
    BY <1>3 DEF ServeSet
  <1>6. cmd.key \in Keys /\ cmd.key \in OnTheWay /\ stored \subseteq Keys
    BY <1>1, <1>4 DEF Sets, OnTheWay, DataTypes
  <1>7. /\ requests'["dst"] = Tail(requests["dst"]) /\ Domains'
        /\ replies'["dst"] = replies["dst"] \/ replies'["dst"] = Append(replies["dst"], reply)
        /\ \A d \in Clients \ {"dst"} : requests'[d] = requests[d] /\ replies'[d] = replies[d]
        /\ \A d \in Clients : sock'[d] = "dead" => requests'[d] = <<>>
    BY <1>1, <1>2, <1>5, Executing
  <1>8. requests'["src"] = requests["src"] /\ replies'["src"] = replies["src"]
    BY <1>7 DEF Clients
  <1>9. faults' \in Seq(Faults) /\ (Sound' <=> Sound)
    <2>1. CASE faults' = faults
      BY <1>1, <2>1 DEF Sound, Happened, NetTypes
    <2>2. CASE Fault("reject")
      <3>1. faults' \in Seq(Faults) /\ \A x : Happened(x)' <=> Happened(x) \/ x = "reject"
        BY <1>1, <2>2, Failing
      <3>2. /\ Happened("timeout")' <=> Happened("timeout")
            /\ Happened("cut")' <=> Happened("cut")
        BY <3>1
      <3> QED
        BY <3>1, <3>2 DEF Sound
    <2> QED
      BY <1>5, <2>1, <2>2
  <1>10. /\ replies["dst"] \in Seq({"STORED", "ERROR"})
         /\ replies'["dst"] \in Seq({"STORED", "ERROR"})
    <2>1. replies["dst"] \in Seq({"STORED", "ERROR"})
      BY <1>1 DEF NetTypes
    <2>2. Append(replies["dst"], reply) \in Seq({"STORED", "ERROR"})
      BY <1>5, <2>1
    <2> QED
      BY <1>7, <2>1, <2>2
  <1>11. NetTypes'
    BY <1>1, <1>2, <1>4, <1>7, <1>8, <1>9, <1>10 DEF NetTypes, Domains
  <1>12. DataTypes'
    BY <1>1, <1>2, <1>5, <1>6 DEF DataTypes
  <1>13. \A i, j \in DOMAIN requests'["dst"] :
           requests'["dst"][i].key = requests'["dst"][j].key => i = j
    <2> SUFFICES ASSUME NEW i \in DOMAIN requests'["dst"], NEW j \in DOMAIN requests'["dst"],
                        requests'["dst"][i].key = requests'["dst"][j].key
                 PROVE  i = j
      OBVIOUS
    <2>1. i + 1 = j + 1
      BY <1>1, <1>4, <1>7 DEF OnceInv
    <2>2. i \in Nat /\ j \in Nat
      BY <1>4, <1>7
    <2> QED
      BY <2>1, <2>2
  <1>14. OnTheWay' \subseteq OnTheWay \ {cmd.key}
    <2> SUFFICES ASSUME NEW i \in DOMAIN requests'["dst"]
                 PROVE  requests'["dst"][i].key \in OnTheWay \ {cmd.key}
      BY DEF OnTheWay
    <2>1. requests'["dst"][i] = requests["dst"][i + 1] /\ i + 1 \in DOMAIN requests["dst"]
      BY <1>4, <1>7
    <2>2. i \in Nat /\ i # 0
      BY <1>4, <1>7
    <2>3. requests["dst"][i + 1].key # cmd.key
      BY <1>1, <1>4, <2>1, <2>2 DEF OnceInv
    <2> QED
      BY <2>1, <2>3 DEF OnTheWay
  <1>15. OnceInv'
    BY <1>1, <1>2, <1>5, <1>6, <1>13, <1>14 DEF OnceInv
  <1>16. CountInv'
    <2>1. /\ Cardinality(Confirmed(replies["dst"])) \in Nat
          /\ Cardinality(Confirmed(replies'["dst"])) \in Nat
          /\ Cardinality(Confirmed(replies'["dst"]))
               <= Cardinality(Confirmed(replies["dst"])) + (IF reply = "STORED" THEN 1 ELSE 0)
      <3> DEFINE C(s) == Cardinality(Confirmed(s))
      <3>1. /\ C(replies["dst"]) \in Nat /\ C(Append(replies["dst"], reply)) \in Nat
            /\ C(Append(replies["dst"], reply))
                 <= C(replies["dst"]) + (IF reply = "STORED" THEN 1 ELSE 0)
        BY <1>5, <1>10, OneMoreConfirmed
      <3>2. CASE replies'["dst"] = replies["dst"]
        BY <3>1, <3>2
      <3>3. CASE replies'["dst"] = Append(replies["dst"], reply)
        BY <3>1, <3>3
      <3> QED
        BY <1>7, <3>2, <3>3
    <2>2. IsFiniteSet(stored)
      BY <1>6, FS_Subset, TransferAssumption
    <2>3. cmd.key \notin stored
      BY <1>1, <1>6 DEF OnceInv
    <2>4. /\ Cardinality(stored) \in Nat
          /\ Cardinality(stored') = Cardinality(stored) + (IF reply = "STORED" THEN 1 ELSE 0)
      BY <1>5, <2>2, <2>3, FS_AddElement, FS_CardinalityType
    <2>5. n \in Nat /\ n + Cardinality(Confirmed(replies["dst"])) <= Cardinality(stored)
      BY <1>1 DEF CountInv, DataTypes
    <2>6. \A a, x, y, z, d \in Nat : x <= y + d /\ a + y <= z => a + x <= z + d
      OBVIOUS
    <2>7. n + Cardinality(Confirmed(replies'["dst"])) <= Cardinality(stored')
      BY <2>1, <2>4, <2>5, <2>6
    <2> QED
      BY <1>2, <2>7 DEF CountInv
  <1>17. Sound' => InTurn'
    <2>1. had' = had /\ pc' = pc /\ key' = key /\ (Sound' => Sound)
      BY <1>2, <1>9
    <2> QED
      BY <1>8, <2>1, SourceUntouched
  <1>18. Sound' => Faithful'
    BY <1>2, <1>4, <1>7, <1>9 DEF TransferInv, Faithful
  <1> QED
    BY <1>11, <1>12, <1>15, <1>16, <1>17, <1>18 DEF TransferInv

LEMMA CloseInv ==
    ASSUME TransferInv, NEW c \in Clients, Close(c)
    PROVE  TransferInv'
  <1>1. NetIdles
    BY CloseIdles DEF TransferInv
  <1> QED
    BY <1>1, Idling DEF Close, copying

\* What the source has had, it has had.
LEMMA SourceChangesInv ==
    ASSUME TransferInv, NEW k \in Keys, SourceChanges(k)
    PROVE  TransferInv'
  <1>1. PICK e \in Entries \cup {Miss} :
          /\ source' = [source EXCEPT ![k] = e]
          /\ had' = [had EXCEPT ![k] = @ \cup ({e} \ {Miss})]
    BY DEF SourceChanges
  <1>2. UNCHANGED <<pc, copying, net, stored, faults>> /\ DataTypes
    BY DEF SourceChanges, TransferInv
  <1>3. /\ had' \in [Keys -> SUBSET Entries] /\ \A j \in Keys : had[j] \subseteq had'[j]
        /\ source' \in [Keys -> Entries \cup {Miss}]
        /\ \A j \in Keys : source'[j] # Miss => source'[j] \in had'[j]
    BY <1>1, <1>2 DEF DataTypes
  <1>4. NetTypes' /\ OnceInv' /\ CountInv' /\ (Sound' <=> Sound)
    <2>1. NetTypes'
      BY <1>2 DEF TransferInv, NetTypes, net
    <2>2. OnceInv'
      BY <1>2 DEF TransferInv, OnceInv, OnTheWay, copying, net
    <2>3. CountInv'
      BY <1>2 DEF TransferInv, CountInv, copying, net
    <2>4. Sound' <=> Sound
      BY <1>2 DEF Sound, Happened
    <2> QED
      BY <2>1, <2>2, <2>3, <2>4
  <1>5. DataTypes'
    BY <1>2, <1>3 DEF DataTypes, copying
  <1>6. ASSUME Sound PROVE InTurn' /\ Faithful'
    <2>1. InTurn /\ Faithful /\ NetTypes
      BY <1>6 DEF TransferInv
    <2>2. \A i \in DOMAIN requests["dst"] : requests["dst"][i].key \in Keys
      <3>1. requests["dst"] \in Seq(Sets)
        BY <2>1 DEF NetTypes
      <3>2. \A i \in DOMAIN requests["dst"] : requests["dst"][i] \in Sets
        BY <3>1
      <3> QED
        BY <3>2 DEF Sets
    <2>3. Faithful'
      BY <1>2, <1>3, <2>1, <2>2 DEF Faithful, DataTypes, copying, net
    <2>4. replies["src"] # <<>> => key \in Keys
      BY <1>2, <2>1 DEF InTurn, DataTypes
    <2>5. \A i \in DOMAIN replies["src"] : replies["src"][i].entry \in had'[key] \cup {Miss}
      <3>1. DOMAIN <<>> = {}
        OBVIOUS
      <3> QED
        BY <1>3, <2>1, <2>4, <3>1 DEF InTurn
    <2>6. InTurn'
      BY <1>2, <2>1, <2>5 DEF InTurn, copying, net
    <2> QED
      BY <2>3, <2>6
  <1> QED
    BY <1>4, <1>5, <1>6 DEF TransferInv

-----------------------------------------------------------------------------
(* The invariant, and the refinement.                                      *)

LEMMA InitTransfer == Init => TransferInv
  <1> SUFFICES ASSUME Init PROVE TransferInv
    OBVIOUS
  <1>1. /\ pc = "stats" /\ keys = {} /\ n = 0 /\ stored = {} /\ faults = <<>>
        /\ sock = [c \in Clients |-> "none"]
        /\ requests = [c \in Clients |-> <<>>] /\ replies = [c \in Clients |-> <<>>]
        /\ source = InitSource /\ had = [k \in Keys |-> {InitSource[k]} \ {Miss}]
    BY DEF Init
  <1>2. requests["src"] = <<>> /\ requests["dst"] = <<>> /\ replies["src"] = <<>> /\ replies["dst"] = <<>>
    BY <1>1 DEF Clients
  <1>3. \A S : <<>> \in Seq(S) /\ Len(<<>>) = 0 /\ DOMAIN <<>> = {}
    OBVIOUS
  <1>4. NetTypes
    BY <1>1, <1>2, <1>3 DEF NetTypes, Clients
  <1>5. DataTypes
    BY <1>1, TransferAssumption DEF DataTypes
  <1>6. OnceInv
    BY <1>1, <1>2, <1>3 DEF OnceInv, OnTheWay
  <1>7. CountInv
    <2>1. Confirmed(replies["dst"]) = {}
      BY <1>2, <1>3 DEF Confirmed
    <2>2. Cardinality({}) = 0
      BY FS_EmptySet
    <2> QED
      BY <1>1, <2>1, <2>2, 0 + 0 <= 0 DEF CountInv
  <1>8. InTurn /\ Faithful
    BY <1>1, <1>2, <1>3 DEF InTurn, Faithful
  <1> QED
    BY <1>4, <1>5, <1>6, <1>7, <1>8 DEF TransferInv

LEMMA NextTransfer == TransferInv /\ [Next]_vars => TransferInv'
  <1> SUFFICES ASSUME TransferInv, [Next]_vars PROVE TransferInv'
    OBVIOUS
  <1>1. CASE Next
    BY <1>1, SnapshotInv, SendGetInv, GetWithMetaInv, SendSetInv, SetWithMetaInv,
       ReturnCountInv, ServeGetInv, ServeSetInv, CloseInv, SourceChangesInv
       DEF Next, Prefetch, Serve
  <1>2. CASE UNCHANGED vars
    <2>1. UNCHANGED <<pc, keys, key, got, n, sock, requests, replies, source, had, stored, faults>>
      BY <1>2 DEF vars, copying, net, data
    <2>2. NetTypes' /\ DataTypes' /\ CountInv'
      BY <2>1 DEF TransferInv, NetTypes, DataTypes, CountInv
    <2>3. OnceInv'
      BY <2>1 DEF TransferInv, OnceInv, OnTheWay
    <2>4. Sound' => InTurn' /\ Faithful'
      BY <2>1 DEF TransferInv, InTurn, Faithful, Sound, Happened
    <2> QED
      BY <2>2, <2>3, <2>4 DEF TransferInv
  <1> QED
    BY <1>1, <1>2

\* Failures that are no fault of the promise.
LEMMA SoundStays ==
    ASSUME NetTypes, NEW kind \in {"refused", "close", "reject"}, Fault(kind)
    PROVE  Sound' <=> Sound
  <1>1. \A x : Happened(x)' <=> Happened(x) \/ x = kind
    BY Failing
  <1>2. /\ Happened("timeout")' <=> Happened("timeout")
        /\ Happened("cut")' <=> Happened("cut")
    BY <1>1
  <1> QED
    BY <1>2 DEF Sound

\* The promise stands still, or is spoiled.
Promised == <<had, target, stored, n, pc \in {"done", "failed"}>>

LEMMA SpoilOrStutter ==
    ASSUME Promised' = Promised, Sound' => Sound, Sound \in BOOLEAN, Sound' \in BOOLEAN
    PROVE  [Promise!TNext]_(Promise!tvars)
  <1>1. CASE Sound' <=> Sound
    BY <1>1 DEF Promised, Sound, Promise!tvars
  <1>2. CASE ~Sound'
    BY <1>2 DEF Promised, Sound, Promise!TNext, Promise!Spoil
  <1> QED
    BY <1>1, <1>2

LEMMA StepKeepsPromise ==
    ASSUME TransferInv, [Next]_vars
    PROVE  [Promise!TNext]_(Promise!tvars)
  <1>1. /\ NetTypes /\ DataTypes /\ OnceInv /\ CountInv
        /\ Sound \in BOOLEAN /\ Sound' \in BOOLEAN
    BY DEF TransferInv, Sound
  <1>2. CASE \/ SendStats \/ StatsItems \/ SendDump \/ CacheDump \/ EndSnapshot
             \/ ServeList
    <2>1. NetIdles
      <3>1. CASE ServeList
        BY <1>1, <3>1, ServeListIdles
      <3>2. CASE SendStats \/ StatsItems \/ SendDump \/ CacheDump \/ EndSnapshot
        <4>1. \/ (\E cmd : Sent("list", cmd)) \/ SendFails("list")
              \/ Received("list") \/ RecvFails("list") \/ Closes({"list"})
          BY <3>2 DEF SendStats, StatsItems, SendDump, CacheDump, EndSnapshot
        <4> QED
          BY <1>1, <4>1, ListIdles
      <3> QED
        BY <1>2, <3>1, <3>2
    <2>2. Promised' = Promised
      BY <1>2 DEF SendStats, StatsItems, SendDump, CacheDump, EndSnapshot, ServeList,
                  Promised, data, copying
    <2> QED
      BY <1>1, <2>1, <2>2, SpoilOrStutter DEF NetIdles
  <1>3. CASE AbortSnapshot \/ ReturnCount
    <2>1. /\ pc \in {"abort", "get"} /\ pc' \in {"failed", "done"} /\ n' = n /\ data' = data
          /\ faults' = faults
      BY <1>3 DEF AbortSnapshot, ReturnCount, copying, Closes
    <2> QED
      BY <2>1 DEF data, Happened, Promise!TNext, Promise!Return
  <1>4. ASSUME NEW k \in Keys, SendGet(k) PROVE [Promise!TNext]_(Promise!tvars)
    <2>1. Promised' = Promised
      BY <1>4 DEF SendGet, Promised, data
    <2>2. Sound' <=> Sound
      <3>1. CASE SendFails("src")
        BY <1>1, <3>1, NotSending DEF Clients
      <3>2. CASE faults' = faults
        BY <3>2 DEF Sound, Happened
      <3> QED
        BY <1>4, <3>1, <3>2 DEF SendGet, Sent
    <2> QED
      BY <1>1, <2>1, <2>2, SpoilOrStutter
  <1>5. CASE GetWithMeta
    <2>1. Promised' = Promised
      BY <1>5 DEF GetWithMeta, NextKey, Promised, data
    <2>2. Sound' => Sound
      <3>1. CASE RecvFails("src")
        BY <1>1, <3>1, NotReceiving DEF Clients
      <3>2. CASE faults' = faults
        BY <3>2 DEF Sound, Happened
      <3>3. CASE Fault("cut")
        BY <1>1, <3>3, Failing DEF Sound
      <3> QED
        BY <1>5, <3>1, <3>2, <3>3 DEF GetWithMeta, Received, ReceivedCut
    <2> QED
      BY <1>1, <2>1, <2>2, SpoilOrStutter
  <1>6. CASE SendSet
    <2>1. Promised' = Promised
      BY <1>6 DEF SendSet, NextKey, Promised, data
    <2>2. Sound' <=> Sound
      <3>1. CASE SendFails("dst")
        BY <1>1, <3>1, NotSending DEF Clients
      <3>2. CASE faults' = faults
        BY <3>2 DEF Sound, Happened
      <3> QED
        BY <1>6, <3>1, <3>2 DEF SendSet, Sent
    <2> QED
      BY <1>1, <2>1, <2>2, SpoilOrStutter
  <1>7. CASE SetWithMeta
    <2>1. data' = data /\ pc = "stored" /\ pc' = "get"
      BY <1>7 DEF SetWithMeta, NextKey
    <2>2. CASE RecvFails("dst") /\ UNCHANGED n
      <3>1. Promised' = Promised
        BY <2>1, <2>2 DEF Promised, data
      <3>2. Sound' => Sound
        BY <1>1, <2>2, NotReceiving DEF Clients
      <3> QED
        BY <1>1, <3>1, <3>2, SpoilOrStutter
    <2>3. CASE Received("dst") /\ n' = IF Head(replies["dst"]) = "STORED" THEN n + 1 ELSE n
      <3>1. faults' = faults /\ replies["dst"] # <<>>
        BY <2>3 DEF Received
      <3>2. Sound' <=> Sound
        BY <3>1 DEF Sound, Happened
      <3>3. CASE Head(replies["dst"]) # "STORED"
        <4>1. Promised' = Promised
          BY <2>1, <2>3, <3>3 DEF Promised, data
        <4> QED
          BY <1>1, <3>2, <4>1, SpoilOrStutter
      <3>4. CASE Head(replies["dst"]) = "STORED"
        <4>1. n < Cardinality(stored)
          <5>1. replies["dst"] \in Seq({"STORED", "ERROR"})
            BY <1>1 DEF NetTypes
          <5>2. /\ 1 \in 1..Len(replies["dst"]) /\ replies["dst"][1] = "STORED"
            BY <3>1, <3>4, <5>1, AfterHead
          <5>3. /\ Cardinality(Confirmed(replies["dst"])) \in Nat
                /\ \E r \in Nat : r + 1 <= Cardinality(Confirmed(replies["dst"]))
            BY <5>1, <5>2, ConfirmedRead
          <5>4. n \in Nat /\ n + Cardinality(Confirmed(replies["dst"])) <= Cardinality(stored)
            BY <1>1 DEF CountInv, DataTypes
          <5>5. Cardinality(stored) \in Nat
            BY <1>1, FS_Subset, FS_CardinalityType, TransferAssumption DEF DataTypes
          <5> QED
            BY <5>3, <5>4, <5>5
        <4>2. Promise!Count
          <5>1. n' = n + 1 /\ had' = had /\ target' = target /\ stored' = stored
            BY <2>1, <2>3, <3>4 DEF data
          <5>2. pc \notin {"done", "failed"} /\ pc' \notin {"done", "failed"}
            BY <2>1
          <5>3. (pc' \in {"done", "failed"}) = (pc \in {"done", "failed"})
            BY <5>2
          <5>4. (~Happened("timeout")' /\ ~Happened("cut")')
                  = (~Happened("timeout") /\ ~Happened("cut"))
            BY <3>2, Zenon DEF Sound
          <5>5. Promise!Cardinality(stored) = Cardinality(stored)
            BY DEF Promise!Cardinality, Cardinality
          <5> QED
            BY <4>1, <5>1, <5>2, <5>3, <5>4, <5>5, Zenon DEF Promise!Count
        <4> QED
          BY <4>2 DEF Promise!TNext
      <3> QED
        BY <3>3, <3>4
    <2> QED
      BY <1>7, <2>2, <2>3 DEF SetWithMeta
  <1>8. CASE ServeGet
    <2>1. Promised' = Promised /\ faults' = faults
      BY <1>8 DEF ServeGet, Promised, data, copying
    <2> QED
      BY <1>1, <2>1, SpoilOrStutter DEF Sound, Happened
  <1>9. CASE ServeSet
    <2>1. requests["dst"] # <<>> /\ pc' = pc /\ n' = n /\ had' = had
      BY <1>9 DEF ServeSet, copying
    <2>2. PICK cmd : cmd = Head(requests["dst"])
      OBVIOUS
    <2>3. CASE /\ target' = [target EXCEPT ![cmd.key] = cmd.entry]
               /\ stored' = stored \cup {cmd.key} /\ faults' = faults
      <3>1. cmd \in Sets /\ 1 \in DOMAIN requests["dst"] /\ cmd = requests["dst"][1]
        <4>1. requests["dst"] \in Seq(Sets)
          BY <1>1 DEF NetTypes
        <4> QED
          BY <2>1, <2>2, <4>1, AfterHead
      <3>2. /\ cmd.key \in Keys /\ cmd.entry \in Entries /\ cmd.key \notin stored
            /\ (Sound => cmd.entry \in had[cmd.key])
        BY <1>1, <3>1 DEF Sets, OnceInv, OnTheWay, TransferInv, Faithful
      <3>3. Sound' <=> Sound
        BY <2>3 DEF Sound, Happened
      <3>4. cmd.entry \in IF Sound THEN had[cmd.key] ELSE Entries
        BY <3>2
      <3>5. Promise!Move(cmd.key)
        BY <2>1, <2>3, <3>2, <3>3, <3>4 DEF Promise!Move, Sound
      <3> QED
        BY <3>2, <3>5 DEF Promise!TNext
    <2>4. CASE Fault("reject") /\ UNCHANGED <<target, stored>>
      <3>1. Sound' <=> Sound
        BY <1>1, <2>4, SoundStays
      <3>2. Promised' = Promised
        BY <2>1, <2>4 DEF Promised
      <3> QED
        BY <1>1, <3>1, <3>2, SpoilOrStutter
    <2> QED
      BY <1>9, <2>2, <2>3, <2>4 DEF ServeSet
  <1>10. ASSUME NEW c \in Clients, Close(c) PROVE [Promise!TNext]_(Promise!tvars)
    <2>1. Promised' = Promised /\ Fault("close")
      BY <1>10 DEF Close, Promised, data, copying
    <2>2. Sound' <=> Sound
      BY <1>1, <2>1, SoundStays
    <2> QED
      BY <1>1, <2>1, <2>2, SpoilOrStutter
  <1>11. ASSUME NEW k \in Keys, SourceChanges(k) PROVE [Promise!TNext]_(Promise!tvars)
    <2>1. PICK e \in Entries \cup {Miss} : had' = [had EXCEPT ![k] = @ \cup ({e} \ {Miss})]
      BY <1>11 DEF SourceChanges
    <2>2. UNCHANGED <<pc, n, target, stored, faults>> /\ had \in [Keys -> SUBSET Entries]
      BY <1>1, <1>11 DEF SourceChanges, copying, DataTypes
    <2>3. CASE e = Miss
      <3>1. had' = had
        BY <2>1, <2>2, <2>3
      <3>2. Promised' = Promised
        BY <2>2, <3>1 DEF Promised
      <3> QED
        BY <1>1, <2>2, <3>2, SpoilOrStutter DEF Sound, Happened
    <2>4. CASE e # Miss
      <3>1. e \in Entries /\ had' = [had EXCEPT ![k] = @ \cup {e}]
        BY <2>1, <2>4
      <3>2. Promise!SourceWrites(k)
        BY <2>2, <3>1 DEF Promise!SourceWrites, Happened
      <3> QED
        BY <3>2 DEF Promise!TNext
    <2> QED
      BY <2>3, <2>4
  <1>12. CASE UNCHANGED vars
    BY <1>12 DEF vars, copying, data, Promise!tvars, Happened
  <1> QED
    BY <1>2, <1>3, <1>4, <1>5, <1>6, <1>7, <1>8, <1>9, <1>10, <1>11, <1>12
       DEF Next, Prefetch, Serve

\* The prefetch implements Transfer, for any keys, slab classes, limits,
\* failures and changes at the source: a key is stored at the target once
\* at the most and as the source had it, unless a reply was late or a value
\* cut, and no more keys are counted than were stored
\* (controller/memcache_backend.py:9-11, main.py:205-226).
THEOREM TransferIsKept == Spec => TransferKept
  <1>1. Init => Promise!TInit
    <2> SUFFICES ASSUME Init PROVE Promise!TInit
      OBVIOUS
    <2>1. had \in [Keys -> SUBSET Entries]
      BY InitTransfer DEF TransferInv, DataTypes
    <2>2. ~Happened("timeout") /\ ~Happened("cut")
      BY DEF Init, Happened
    <2> QED
      BY <2>1, <2>2 DEF Init, Promise!TInit
  <1> QED
    BY <1>1, InitTransfer, NextTransfer, StepKeepsPromise, PTL
       DEF Spec, TransferKept, Promise!TSpec

-----------------------------------------------------------------------------
(***************************************************************************)
(* The snapshot is complete: what an undisturbed list_keys_with_size has   *)
(* listed so far, and what is on the way on its socket.                    *)
(***************************************************************************)
Undisturbed ==
    /\ faults = <<>> /\ changes = 0 /\ Cardinality(Keys) <= MaxKeys
    /\ \A k \in Keys : Items(SlabOf[k]) \cap Cold # {}

\* What cachedump lists of a slab class, and the reply to stats items.
Dumpable(s) == Items(s) \cap Cold
Slabs == {SlabOf[k] : k \in {j \in Keys : source[j] # Miss}}
Stats == [s \in Slabs |-> NumberLines(s)]

\* One command is being executed, or its reply is to be read.
Awaited(cmd, reply) ==
    \/ requests["list"] = <<cmd>> /\ replies["list"] = <<>>
    \/ requests["list"] = <<>> /\ replies["list"] = <<reply>>

AskedInv ==
    /\ DOMAIN sock = Clients /\ DOMAIN requests = Clients /\ DOMAIN replies = Clients
    /\ sock["list"] # "dead"
    /\ pc \in {"items", "dumped"} => sock["list"] = "open"
    /\ pc \in {"stats", "dump"} => requests["list"] = <<>> /\ replies["list"] = <<>>
    /\ pc = "items" => Awaited([op |-> "stats"], Stats)
    /\ pc = "dumped" =>
         /\ DOMAIN slabs # {}
         /\ Awaited([op |-> "dump", slab |-> NextSlab, limit |-> Limit], Dumpable(NextSlab))

\* A slab class is either still to be dumped or listed in full.
ListedInv ==
    /\ pc \in {"stats", "items"} => out = {}
    /\ pc \in {"dump", "dumped"} =>
         /\ out \subseteq Keys /\ DOMAIN slabs \subseteq Nat
         /\ \A s \in DOMAIN slabs : slabs[s] = Cardinality(Dumpable(s)) /\ Dumpable(s) # {}
         /\ \A k \in out : SlabOf[k] \notin DOMAIN slabs
         /\ \A k \in Cold : source[k] # Miss => k \in out \/ SlabOf[k] \in DOMAIN slabs
    /\ pc \in {"get", "value", "set", "stored", "done"} =>
         \A k \in Cold : source[k] # Miss => k \in out

CompleteInv == changes \in Nat /\ (Undisturbed => AskedInv /\ ListedInv)

LEMMA LeastNumber ==
    ASSUME NEW T, T \subseteq Nat, T # {}
    PROVE  \E m \in T : \A k \in T : m <= k
  <1> DEFINE R == {ss \in Nat \X Nat : ss[1] < ss[2]}
  <1>1. IsWellFoundedOn(R, Nat)
    BY NatLessThanWellFounded DEF OpToRel
  <1>2. PICK m \in T : \A k \in T : ~(<<k, m>> \in R)
    <2> HIDE DEF R
    <2> QED
      BY <1>1, WFMin
  <1>3. \A k \in T : ~(k < m)
    BY <1>2
  <1>4. \A k \in T : k \in Nat /\ m \in Nat
    OBVIOUS
  <1>5. \A k \in T : m <= k
    BY <1>3, <1>4
  <1> QED
    BY <1>5

LEMMA NextSlabIsOne ==
    ASSUME DOMAIN slabs \subseteq Nat, DOMAIN slabs # {}
    PROVE  NextSlab \in DOMAIN slabs
  <1>1. \E s \in DOMAIN slabs : \A t \in DOMAIN slabs : s <= t
    BY LeastNumber
  <1> QED
    BY <1>1 DEF NextSlab

LEMMA Dumpables ==
    ASSUME NEW s
    PROVE  /\ IsFiniteSet(Dumpable(s)) /\ Cardinality(Dumpable(s)) \in Nat
           /\ Dumpable(s) \subseteq Keys
  <1>1. Dumpable(s) \in SUBSET Keys
    BY DEF Dumpable, Items
  <1> QED
    BY <1>1, FS_Subset, FS_CardinalityType, TransferAssumption

\* There is room for all that the next slab class has.
LEMMA Room ==
    ASSUME ListedInv, Undisturbed, pc \in {"dump", "dumped"}, DOMAIN slabs # {}
    PROVE  /\ NextSlab \in DOMAIN slabs /\ Cardinality(out) \in Nat /\ Cardinality(out) <= MaxKeys
           /\ slabs[NextSlab] = Cardinality(Dumpable(NextSlab))
           /\ slabs[NextSlab] \in Nat \ {0}
           /\ slabs[NextSlab] <= MaxKeys - Cardinality(out)
           /\ Limit = slabs[NextSlab]
  <1> DEFINE D == Dumpable(NextSlab)
  <1>1. NextSlab \in DOMAIN slabs
    BY NextSlabIsOne DEF ListedInv
  <1>2. /\ out \in SUBSET Keys /\ slabs[NextSlab] = Cardinality(D) /\ D # {}
        /\ \A k \in D : k \notin out
    BY <1>1 DEF ListedInv, Dumpable, Items
  <1>3. IsFiniteSet(D) /\ Cardinality(D) \in Nat /\ D \subseteq Keys
    BY Dumpables
  <1> HIDE DEF D
  <1>4. IsFiniteSet(out) /\ Cardinality(out) \in Nat
    BY <1>2, FS_Subset, FS_CardinalityType, TransferAssumption
  <1>5. Cardinality(out \cup D) = Cardinality(out) + Cardinality(D)
    <2>1. out \cap D = {}
      BY <1>2
    <2>2. Cardinality(out \cup D)
            = Cardinality(out) + Cardinality(D) - Cardinality(out \cap D)
      BY <1>3, <1>4, FS_Union
    <2>3. Cardinality(out \cap D) = 0
      BY <2>1, FS_EmptySet
    <2> QED
      BY <1>3, <1>4, <2>2, <2>3
  <1>6. Cardinality(out \cup D) <= Cardinality(Keys) /\ Cardinality(Keys) \in Nat
    <2>1. out \cup D \in SUBSET Keys
      BY <1>2, <1>3
    <2> QED
      BY <2>1, FS_Subset, FS_CardinalityType, TransferAssumption
  <1>7. Cardinality(D) # 0
    BY <1>2, <1>3, FS_EmptySet
  <1>8. /\ Cardinality(D) <= MaxKeys - Cardinality(out) /\ Cardinality(out) <= MaxKeys
        /\ MaxKeys \in Nat /\ MinDump \in Nat
    BY <1>3, <1>4, <1>5, <1>6, TransferAssumption DEF Undisturbed
  <1>9. Limit = slabs[NextSlab]
    BY <1>2, <1>3, <1>4, <1>8 DEF Limit
  <1> QED
    BY <1>1, <1>2, <1>3, <1>4, <1>7, <1>8, <1>9 DEF D

\* The loop ends when every slab class was dumped, or every key is listed.
LEMMA ListedIsAll ==
    ASSUME ListedInv, Undisturbed, pc = "dump", Listed
    PROVE  \A k \in Cold : source[k] # Miss => k \in out
  <1>1. CASE DOMAIN slabs = {}
    BY <1>1 DEF ListedInv
  <1>2. CASE DOMAIN slabs # {}
    <2>1. /\ Limit = slabs[NextSlab] /\ slabs[NextSlab] \in Nat \ {0}
          /\ slabs[NextSlab] <= MaxKeys - Cardinality(out) /\ Cardinality(out) \in Nat
      BY <1>2, Room
    <2>2. Cardinality(out) >= MaxKeys \/ Limit <= 0
      BY <1>2 DEF Listed
    <2> QED
      BY <2>1, <2>2, TransferAssumption
  <1> QED
    BY <1>1, <1>2

-----------------------------------------------------------------------------
LEMMA InitComplete == Init => CompleteInv
  <1> SUFFICES ASSUME Init PROVE AskedInv /\ ListedInv
    BY DEF CompleteInv, Init
  <1>1. /\ pc = "stats" /\ out = {} /\ sock = [c \in Clients |-> "none"]
        /\ requests = [c \in Clients |-> <<>>] /\ replies = [c \in Clients |-> <<>>]
    BY DEF Init
  <1> QED
    BY <1>1 DEF AskedInv, ListedInv, Clients

\* Nothing has failed or changed in a step after which nothing has.
LEMMA UndisturbedBefore ==
    ASSUME [Next]_vars, faults \in Seq(Faults), changes \in Nat, Undisturbed'
    PROVE  Undisturbed /\ faults' = faults /\ source' = source /\ ~\E kind : Fault(kind)
  <1>1. ~\E kind : Fault(kind)
    <2> SUFFICES ASSUME NEW kind, Fault(kind) PROVE FALSE
      OBVIOUS
    <2>1. faults' = Append(faults, kind) /\ faults' = <<>>
      BY DEF Fault, Undisturbed
    <2>2. \A S, e : \A t \in Seq(S) : Append(t, e) # <<>>
      OBVIOUS
    <2> QED
      BY <2>1, <2>2
  <1>2. changes' = 0
    BY DEF Undisturbed
  <1>3. ~\E k \in Keys : SourceChanges(k)
    BY <1>2 DEF SourceChanges
  <1>4. faults' = faults /\ source' = source /\ changes' = changes
    <2>1. CASE Prefetch
      <3>1. CASE SendStats \/ SendDump \/ (\E k \in Keys : SendGet(k)) \/ SendSet
        BY <1>1, <3>1 DEF SendStats, SendDump, SendGet, SendSet, Sent, SendFails, data
      <3>2. CASE StatsItems \/ CacheDump \/ GetWithMeta \/ SetWithMeta
        BY <1>1, <3>2 DEF StatsItems, CacheDump, GetWithMeta, SetWithMeta, Received,
                          ReceivedCut, RecvFails, data
      <3>3. CASE EndSnapshot \/ AbortSnapshot \/ ReturnCount
        BY <3>3 DEF EndSnapshot, AbortSnapshot, ReturnCount, Closes, data
      <3> QED
        BY <2>1, <3>1, <3>2, <3>3 DEF Prefetch
    <2>2. CASE Serve
      BY <1>1, <2>2 DEF Serve, ServeList, ServeGet, ServeSet, data
    <2>3. CASE \E c \in Clients : Close(c)
      BY <1>1, <2>3 DEF Close
    <2>4. CASE UNCHANGED vars
      BY <2>4 DEF vars, data
    <2> QED
      BY <1>3, <2>1, <2>2, <2>3, <2>4 DEF Next
  <1>5. Undisturbed
    BY <1>4 DEF Undisturbed, Items
  <1> QED
    BY <1>1, <1>4, <1>5

\* What the stage of the snapshot says stays true while nothing happens on
\* its socket.
LEMMA Untouched ==
    ASSUME AskedInv, ListedInv, source' = source, listing' = listing, pc' = pc,
           Domains', Calm("list")
    PROVE  AskedInv' /\ ListedInv'
  <1>1. slabs' = slabs /\ out' = out
    BY DEF listing
  <1>2. \A s : Dumpable(s)' = Dumpable(s)
    BY DEF Dumpable, Items
  <1>3. Stats' = Stats
    BY DEF Stats, Slabs, NumberLines, Items
  <1>4. NextSlab' = NextSlab /\ Limit' = Limit
    BY <1>1 DEF NextSlab, Limit
  <1>5. AskedInv'
    BY <1>1, <1>2, <1>3, <1>4 DEF AskedInv, Awaited, Calm, Domains
  <1>6. ListedInv'
    BY <1>1, <1>2 DEF ListedInv
  <1> QED
    BY <1>5, <1>6

LEMMA AskStats ==
    ASSUME AskedInv, ~\E kind : Fault(kind), source' = source, SendStats, ListedInv
    PROVE  AskedInv' /\ ListedInv'
  <1>1. /\ pc = "stats" /\ pc' = "items" /\ Sent("list", [op |-> "stats"])
        /\ "list" \in Clients /\ out' = out
    BY DEF SendStats, SendFails, AskedInv, Clients, listing
  <1>2. requests'["list"] = <<[op |-> "stats"]>> /\ replies'["list"] = <<>>
    <2>1. requests["list"] = <<>> /\ replies["list"] = <<>>
      BY <1>1 DEF AskedInv
    <2>2. /\ requests'["list"] = Append(requests["list"], [op |-> "stats"])
          /\ replies' = replies
      BY <1>1 DEF Sent, AskedInv
    <2>3. \A cmd : Append(<<>>, cmd) = <<cmd>>
      OBVIOUS
    <2> QED
      BY <2>1, <2>2, <2>3
  <1>3. /\ DOMAIN sock' = Clients /\ DOMAIN requests' = Clients /\ DOMAIN replies' = Clients
        /\ sock'["list"] = "open"
    BY <1>1 DEF Sent, AskedInv
  <1> QED
    BY <1>1, <1>2, <1>3 DEF AskedInv, ListedInv, Awaited

\* What Received leaves of a stream of one reply.
LEMMA LastReply ==
    ASSUME DOMAIN replies = Clients, Received("list"), NEW cmd, NEW reply,
           Awaited(cmd, reply)
    PROVE  /\ Head(replies["list"]) = reply
           /\ requests'["list"] = <<>> /\ replies'["list"] = <<>>
           /\ sock' = sock /\ DOMAIN replies' = Clients /\ requests' = requests
  <1>1. replies["list"] = <<reply>> /\ requests["list"] = <<>>
    BY DEF Received, Awaited
  <1>2. PICK i \in 1..Len(replies["list"]) :
          replies' = [replies EXCEPT !["list"] = SubSeq(@, i + 1, Len(@))]
    BY DEF Received
  <1>3. Len(<<reply>>) = 1 /\ Head(<<reply>>) = reply
    OBVIOUS
  <1>4. i = 1
    BY <1>1, <1>3
  <1>5. SubSeq(<<reply>>, 1 + 1, 1) = <<>>
    OBVIOUS
  <1>6. replies' = [replies EXCEPT !["list"] = <<>>]
    BY <1>1, <1>2, <1>3, <1>4, <1>5
  <1> QED
    BY <1>1, <1>3, <1>6 DEF Received, Clients

LEMMA ReadStats ==
    ASSUME AskedInv, Undisturbed, ~\E kind : Fault(kind), source' = source, ListedInv,
           source \in [Keys -> Entries \cup {Miss}], StatsItems
    PROVE  AskedInv' /\ ListedInv'
  <1>1. /\ pc = "items" /\ pc' = "dump" /\ Received("list") /\ out' = out /\ out = {}
        /\ slabs' = [s \in DOMAIN Head(replies["list"]) |->
                       Head(replies["list"])[s][Len(Head(replies["list"])[s])]]
    BY DEF StatsItems, RecvFails, AskedInv, ListedInv
  <1>2. /\ Head(replies["list"]) = Stats
        /\ requests'["list"] = <<>> /\ replies'["list"] = <<>>
        /\ sock' = sock /\ DOMAIN replies' = Clients /\ requests' = requests
    BY <1>1, LastReply DEF AskedInv
  <1>3. DOMAIN Stats = Slabs /\ \A s \in Slabs : Stats[s] = NumberLines(s)
    BY DEF Stats
  <1>4. DOMAIN slabs' = Slabs /\ \A s \in Slabs : slabs'[s] = Stats[s][Len(Stats[s])]
    BY <1>1, <1>2, <1>3
  <1>5. \A s \in Slabs : slabs'[s] = Cardinality(Dumpable(s))
    <2> SUFFICES ASSUME NEW s \in Slabs PROVE slabs'[s] = Cardinality(Dumpable(s))
      OBVIOUS
    <2>1. Len(NumberLines(s)) = 3 /\ NumberLines(s)[3] = Cardinality(Dumpable(s))
      BY DEF NumberLines, Dumpable
    <2> QED
      BY <1>3, <1>4, <2>1
  <1>6. \A s : Dumpable(s)' = Dumpable(s)
    BY DEF Dumpable, Items
  <1>7. AskedInv'
    BY <1>1, <1>2 DEF AskedInv
  <1>8. Slabs \subseteq Nat /\ \A s \in Slabs : Dumpable(s) # {}
    BY TransferAssumption DEF Slabs, Undisturbed, Dumpable
  <1>9. \A k \in Cold : source[k] # Miss => SlabOf[k] \in Slabs
    BY TransferAssumption DEF Slabs
  <1> QED
    BY <1>1, <1>4, <1>5, <1>6, <1>7, <1>8, <1>9 DEF ListedInv

LEMMA AskDump ==
    ASSUME AskedInv, ListedInv, Undisturbed, ~\E kind : Fault(kind), source' = source,
           SendDump
    PROVE  AskedInv' /\ ListedInv'
  <1> DEFINE cmd == [op |-> "dump", slab |-> NextSlab, limit |-> Limit]
  <1>1. /\ pc = "dump" /\ pc' = "dumped" /\ Sent("list", cmd) /\ "list" \in Clients
        /\ slabs' = slabs /\ out' = out /\ DOMAIN slabs # {}
    BY DEF SendDump, SendFails, AskedInv, Clients, Listed
  <1> HIDE DEF cmd
  <1>2. requests'["list"] = <<cmd>> /\ replies'["list"] = <<>>
    <2>1. requests["list"] = <<>> /\ replies["list"] = <<>>
      BY <1>1 DEF AskedInv
    <2>2. requests'["list"] = Append(requests["list"], cmd) /\ replies' = replies
      BY <1>1 DEF Sent, AskedInv
    <2>3. \A m : Append(<<>>, m) = <<m>>
      OBVIOUS
    <2> QED
      BY <2>1, <2>2, <2>3
  <1>3. /\ DOMAIN sock' = Clients /\ DOMAIN requests' = Clients /\ DOMAIN replies' = Clients
        /\ sock'["list"] = "open"
    BY <1>1 DEF Sent, AskedInv
  <1>4. NextSlab' = NextSlab /\ Limit' = Limit
    BY <1>1 DEF NextSlab, Limit
  <1>5. \A s : Dumpable(s)' = Dumpable(s)
    BY DEF Dumpable, Items
  <1>6. AskedInv'
    BY <1>1, <1>2, <1>3, <1>4 DEF AskedInv, Awaited, cmd
  <1>7. ListedInv'
    BY <1>1, <1>5 DEF ListedInv
  <1> QED
    BY <1>6, <1>7

LEMMA ReadDump ==
    ASSUME AskedInv, ListedInv, Undisturbed, ~\E kind : Fault(kind), source' = source,
           CacheDump
    PROVE  AskedInv' /\ ListedInv'
  <1> DEFINE cmd == [op |-> "dump", slab |-> NextSlab, limit |-> Limit]
             D == Dumpable(NextSlab)
  <1>1. /\ pc = "dumped" /\ pc' = "dump" /\ Received("list") /\ SlabDone
        /\ out' = out \cup Head(replies["list"])
    BY DEF CacheDump, RecvFails, AskedInv
  <1>2. /\ Head(replies["list"]) = D
        /\ requests'["list"] = <<>> /\ replies'["list"] = <<>>
        /\ sock' = sock /\ DOMAIN replies' = Clients /\ requests' = requests
    <2>1. Awaited(cmd, D) /\ DOMAIN replies = Clients
      BY <1>1 DEF AskedInv
    <2> HIDE DEF cmd, D
    <2> QED
      BY <1>1, <2>1, LastReply
  <1>3. out' = out \cup D /\ D \subseteq Keys
    BY <1>1, <1>2, Dumpables
  <1>4. NextSlab \in DOMAIN slabs
    BY <1>1, NextSlabIsOne DEF AskedInv, ListedInv
  <1>5. /\ DOMAIN slabs' = DOMAIN slabs \ {NextSlab}
        /\ \A s \in DOMAIN slabs' : slabs'[s] = slabs[s]
    BY <1>1 DEF SlabDone
  <1>6. \A s : Dumpable(s)' = Dumpable(s)
    BY DEF Dumpable, Items
  <1>7. \A k \in D : SlabOf[k] = NextSlab
    BY DEF Dumpable, Items
  <1>8. \A k \in Cold : source[k] # Miss /\ SlabOf[k] = NextSlab => k \in D
    BY TransferAssumption DEF Dumpable, Items
  <1>9. AskedInv'
    BY <1>1, <1>2 DEF AskedInv
  <1> HIDE DEF D
  <1>10. ListedInv'
    BY <1>1, <1>3, <1>4, <1>5, <1>6, <1>7, <1>8 DEF ListedInv
  <1> QED
    BY <1>9, <1>10

\* Once the keys are listed, only the transfer goes on.
After == {"get", "value", "set", "stored", "done"}

LEMMA Transferring ==
    ASSUME AskedInv, ListedInv, source' = source, listing' = listing, pc \in After,
           pc' \in After, Domains', sock'["list"] # "dead"
    PROVE  AskedInv' /\ ListedInv'
  BY DEF AskedInv, ListedInv, Domains, After, listing

LEMMA EndComplete ==
    ASSUME AskedInv, ListedInv, Undisturbed, source' = source, EndSnapshot \/ AbortSnapshot
    PROVE  AskedInv' /\ ListedInv'
  <1>1. out' = out /\ pc' \in {"get", "failed"}
    BY DEF EndSnapshot, AbortSnapshot, listing
  <1>2. Domains' /\ sock'["list"] # "dead"
    BY DEF EndSnapshot, AbortSnapshot, Closes, AskedInv, Domains, Clients
  <1>3. pc' = "get" => \A k \in Cold : source[k] # Miss => k \in out
    BY ListedIsAll DEF EndSnapshot, AbortSnapshot
  <1> QED
    BY <1>1, <1>2, <1>3 DEF AskedInv, ListedInv, Domains

\* A cachedump within its limit lists what there is to list.
LEMMA ServeListComplete ==
    ASSUME AskedInv, ListedInv, Undisturbed, source' = source, ServeList
    PROVE  AskedInv' /\ ListedInv'
  <1>1. /\ listing' = listing /\ pc' = pc /\ sock' = sock /\ requests["list"] # <<>>
        /\ "list" \in Clients
    BY DEF ServeList, Clients
  <1>2. \A s : Dumpable(s)' = Dumpable(s)
    BY DEF Dumpable, Items
  <1>3. Stats' = Stats /\ NextSlab' = NextSlab /\ Limit' = Limit
    BY <1>1 DEF Stats, Slabs, NumberLines, Items, NextSlab, Limit, listing
  <1>4. ListedInv'
    BY <1>1, <1>2 DEF ListedInv, listing
  <1>5. Domains'
    BY DEF ServeList, Executes, AskedInv, Domains
  \* The command is executed, and its reply is all there is to read.
  <1>6. ASSUME NEW cmd, NEW reply, NEW any, Awaited(cmd, any), Executes("list", reply),
               sock["list"] = "open"
        PROVE  requests'["list"] = <<>> /\ replies'["list"] = <<reply>>
    <2>1. requests["list"] = <<cmd>> /\ replies["list"] = <<>>
      BY <1>1, <1>6 DEF Awaited
    <2>2. /\ requests' = [requests EXCEPT !["list"] = Tail(@)]
          /\ replies' = [replies EXCEPT !["list"] = Append(@, reply)]
      BY <1>6 DEF Executes
    <2>3. Tail(<<cmd>>) = <<>> /\ Append(<<>>, reply) = <<reply>>
      OBVIOUS
    <2> QED
      BY <1>1, <2>1, <2>2, <2>3 DEF AskedInv
  <1>7. CASE pc = "items"
    <2>1. Awaited([op |-> "stats"], Stats) /\ sock["list"] = "open"
      BY <1>7 DEF AskedInv
    <2>2. requests["list"] = <<[op |-> "stats"]>>
      BY <1>1, <2>1 DEF Awaited
    <2>3. Head(requests["list"]).op = "stats"
      <3>1. \A m : Head(<<m>>) = m
        OBVIOUS
      <3> QED
        BY <2>2, <3>1
    <2>4. Executes("list", Stats)
      BY <2>3 DEF ServeList, Stats, Slabs
    <2>5. requests'["list"] = <<>> /\ replies'["list"] = <<Stats>>
      BY <1>6, <2>1, <2>4
    <2> QED
      BY <1>1, <1>3, <1>4, <1>5, <1>7, <2>1, <2>5 DEF AskedInv, Awaited, Domains
  <1>8. CASE pc = "dumped"
    <2> DEFINE cmd == [op |-> "dump", slab |-> NextSlab, limit |-> Limit]
               D == Dumpable(NextSlab)
    <2>1. Awaited(cmd, D) /\ sock["list"] = "open" /\ DOMAIN slabs # {}
      BY <1>8 DEF AskedInv
    <2>2. Head(requests["list"]) = cmd
      <3>1. \A m : Head(<<m>>) = m
        OBVIOUS
      <3> QED
        BY <1>1, <2>1, <3>1 DEF Awaited
    <2>3. cmd.op = "dump" /\ cmd.slab = NextSlab /\ cmd.limit = Limit
      OBVIOUS
    <2> HIDE DEF cmd
    <2>4. PICK K \in SUBSET D : /\ Cardinality(K) = Limit \/ K = D
                                /\ Executes("list", K)
      BY <2>2, <2>3 DEF ServeList, Dumpable
    <2>5. Limit = Cardinality(D)
      BY <1>8, <2>1, Room
    <2>6. K = D
      <3>1. IsFiniteSet(D)
        BY Dumpables
      <3> HIDE DEF D
      <3> QED
        BY <2>4, <2>5, <3>1, FS_Subset
    <2>7. requests'["list"] = <<>> /\ replies'["list"] = <<D>>
      <3> HIDE DEF D
      <3> QED
        BY <1>6, <2>1, <2>4, <2>6
    <2>8. AskedInv'
      BY <1>1, <1>2, <1>3, <1>5, <1>8, <2>1, <2>7 DEF AskedInv, Awaited, Domains, listing
    <2> QED
      BY <1>4, <2>8
  <1>9. CASE pc \notin {"items", "dumped"}
    BY <1>1, <1>4, <1>5, <1>9 DEF AskedInv, Domains
  <1> QED
    BY <1>7, <1>8, <1>9

LEMMA TransferComplete ==
    ASSUME AskedInv, ListedInv, ~\E kind : Fault(kind), source' = source,
           \/ \E k \in Keys : SendGet(k)
           \/ GetWithMeta \/ SendSet \/ SetWithMeta \/ ReturnCount
    PROVE  AskedInv' /\ ListedInv'
  <1>1. listing' = listing /\ pc \in After /\ pc' \in After
    BY DEF SendGet, GetWithMeta, SendSet, SetWithMeta, ReturnCount, NextKey, After
  <1>2. Domains' /\ sock'["list"] # "dead"
    <2>1. CASE (\E k \in Keys : SendGet(k)) \/ SendSet
      BY <2>1 DEF SendGet, SendSet, Sent, SendFails, net, AskedInv, Domains, Clients
    <2>2. CASE GetWithMeta \/ SetWithMeta
      BY <2>2 DEF GetWithMeta, SetWithMeta, Received, ReceivedCut, RecvFails, net,
                  AskedInv, Domains, Clients
    <2>3. CASE ReturnCount
      BY <2>3 DEF ReturnCount, Closes, AskedInv, Domains, Clients
    <2> QED
      BY <2>1, <2>2, <2>3
  <1> QED
    BY <1>1, <1>2, Transferring

LEMMA ServeComplete ==
    ASSUME AskedInv, ListedInv, source' = source, ServeGet \/ ServeSet
    PROVE  AskedInv' /\ ListedInv'
  <1>1. listing' = listing /\ pc' = pc
    BY DEF ServeGet, ServeSet
  <1>2. Domains' /\ Calm("list")
    BY DEF ServeGet, ServeSet, Executes, AskedInv, Domains, Calm, Clients
  <1> QED
    BY <1>1, <1>2, Untouched

LEMMA NextComplete == TransferInv /\ CompleteInv /\ [Next]_vars => CompleteInv'
  <1> SUFFICES ASSUME TransferInv, CompleteInv, [Next]_vars PROVE CompleteInv'
    OBVIOUS
  <1>1. changes' \in Nat
    <2>1. changes \in Nat
      BY DEF CompleteInv
    <2>2. CASE \E k \in Keys : SourceChanges(k)
      BY <2>1, <2>2 DEF SourceChanges
    <2>3. Prefetch => changes' = changes
      BY DEF Prefetch, SendStats, StatsItems, SendDump, CacheDump, EndSnapshot,
             AbortSnapshot, SendGet, GetWithMeta, SendSet, SetWithMeta, ReturnCount
    <2>4. Serve \/ (\E c \in Clients : Close(c)) \/ UNCHANGED vars => changes' = changes
      BY DEF Serve, ServeList, ServeGet, ServeSet, Close, vars
    <2> QED
      BY <2>1, <2>2, <2>3, <2>4 DEF Next
  <1> SUFFICES ASSUME Undisturbed' PROVE AskedInv' /\ ListedInv'
    BY <1>1 DEF CompleteInv
  <1>2. /\ faults \in Seq(Faults) /\ changes \in Nat
        /\ source \in [Keys -> Entries \cup {Miss}]
    BY DEF TransferInv, NetTypes, DataTypes, CompleteInv
  <1>3. Undisturbed /\ source' = source /\ ~\E kind : Fault(kind)
    BY <1>2, UndisturbedBefore
  <1>4. AskedInv /\ ListedInv
    BY <1>3 DEF CompleteInv
  <1>5. CASE Prefetch
    BY <1>2, <1>3, <1>4, <1>5, AskStats, ReadStats, AskDump, ReadDump, EndComplete,
       TransferComplete DEF Prefetch
  <1>6. CASE Serve
    BY <1>3, <1>4, <1>6, ServeListComplete, ServeComplete DEF Serve
  <1>7. CASE \E c \in Clients : Close(c)
    BY <1>3, <1>7 DEF Close
  <1>8. CASE \E k \in Keys : SourceChanges(k)
    <2>1. changes' = changes + 1 /\ changes' = 0
      BY <1>8 DEF SourceChanges, Undisturbed
    <2> QED
      BY <1>2, <2>1
  <1>9. CASE UNCHANGED vars
    <2>1. listing' = listing /\ pc' = pc /\ Domains' /\ Calm("list")
      BY <1>4, <1>9 DEF vars, net, AskedInv, Domains, Calm
    <2> QED
      BY <1>3, <1>4, <2>1, Untouched
  <1> QED
    BY <1>5, <1>6, <1>7, <1>8, <1>9 DEF Next

\* main.py:163-176: without failures and changes at the source, and with
\* room for every key, the snapshot has listed every key that a cachedump
\* can list before the first is copied, for any keys, slab classes and
\* limits, if every slab class has one.
THEOREM SnapshotCompletes == Spec => []SnapshotIsComplete
  <1>1. CompleteInv => SnapshotIsComplete
    BY DEF CompleteInv, ListedInv, Undisturbed, SnapshotIsComplete
  <1>2. Init => TransferInv /\ CompleteInv
    BY InitTransfer, InitComplete
  <1>3. (TransferInv /\ CompleteInv) /\ [Next]_vars => (TransferInv /\ CompleteInv)'
    BY NextTransfer, NextComplete
  <1> QED
    BY <1>1, <1>2, <1>3, PTL DEF Spec
=============================================================================
