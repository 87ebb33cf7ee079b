---------------------------- MODULE PriceFeedProofs ----------------------------
(***************************************************************************)
(* Theorems of PriceFeed: type correctness, the sequence numbers, the      *)
(* prices that reach the log, the status and the stored watchlist, for any *)
(* lists, clocks, windows and numbers of providers and requests.           *)
(***************************************************************************)
EXTENDS PriceFeed, EventLogProofs, SequenceTheorems

-----------------------------------------------------------------------------
(* Lists of symbols.                                                       *)

NoRepeats(q) == \A i, j \in DOMAIN q : q[i] = q[j] => i = j

SymbolLists == {q \in Seq(Symbols) : NoRepeats(q)}

\* The recursive function behind At, up to some length: the entries kept so far
\* are entries at these places, and differ where those do.
LEMMA AtFacts ==
  ASSUME NEW T, NEW q \in Seq(T), NEW I
  PROVE  /\ At(q, I) \in Seq(T)
         /\ \A k \in DOMAIN At(q, I) : \E i \in DOMAIN q \cap I : At(q, I)[k] = q[i]
         /\ (\A i, j \in DOMAIN q \cap I : q[i] = q[j] => i = j) => NoRepeats(At(q, I))
<1> DEFINE IsKept(f, n) ==
      f = [m \in 0..n |-> IF m = 0 THEN <<>>
                          ELSE IF m \in I THEN Append(f[m - 1], q[m]) ELSE f[m - 1]]
           S == {n \in Nat : ~\E f : IsKept(f, n)}
<1>0. Len(q) \in Nat /\ DOMAIN q = 1..Len(q) /\ \A i \in 1..Len(q) : q[i] \in T
  BY LenProperties, ElementOfSeq
<1>1. S = {}
  <2> SUFFICES ASSUME S # {} PROVE FALSE
    OBVIOUS
  <2>1. PICK n \in S : \A m \in S : n <= m
    <3>1. S \subseteq Nat
      OBVIOUS
    <3> HIDE DEF S
    <3> QED
      BY <3>1, LeastNatural
  <2>2. n # 0
    <3>1. IsKept([m \in 0..0 |-> <<>>], 0)
      OBVIOUS
    <3> QED
      BY <2>1, <3>1
  <2>3. n \in Nat \ {0} /\ n - 1 \in Nat /\ n - 1 \notin S
    <3>1. n \in Nat
      BY <2>1
    <3> HIDE DEF S
    <3> QED
      BY <2>1, <2>2, <3>1
  <2>4. PICK f : IsKept(f, n - 1)
    BY <2>3
  <2> DEFINE g == [m \in 0..n |->
                     IF m = n THEN (IF n \in I THEN Append(f[n - 1], q[n]) ELSE f[n - 1])
                     ELSE f[m]]
  <2>5. ASSUME NEW m \in 0..n
        PROVE  g[m] = IF m = 0 THEN <<>>
                      ELSE IF m \in I THEN Append(g[m - 1], q[m]) ELSE g[m - 1]
    <3>1. CASE m = 0
      <4>1. g[0] = f[0] /\ 0 \in 0..n - 1
        BY <2>3
      <4> QED
        BY <2>4, <3>1, <4>1
    <3>2. CASE m \in 1..n - 1
      <4>1. m # n /\ m - 1 # n /\ m - 1 \in 0..n /\ m \in 0..n - 1 /\ m # 0
        BY <2>3, <3>2
      <4> QED
        BY <2>4, <4>1
    <3>3. CASE m = n
      <4>1. n - 1 \in 0..n /\ n - 1 # n /\ n # 0
        BY <2>3
      <4> QED
        BY <3>3, <4>1
    <3> QED
      BY <2>3, <3>1, <3>2, <3>3
  <2>6. IsKept(g, n)
    BY <2>5
  <2> QED
    BY <2>1, <2>6
<1>2. PICK f : f = CHOOSE h : IsKept(h, Len(q))
  OBVIOUS
<1>3. IsKept(f, Len(q))
  <2>1. \A n \in Nat : \E h : IsKept(h, n)
    <3> HIDE DEF IsKept
    <3> QED
      BY <1>1
  <2> HIDE DEF IsKept, S
  <2> QED
    BY <1>0, <1>2, <2>1
<1>4. At(q, I) = f[Len(q)]
  BY <1>2 DEF At
<1> DEFINE Places(n) == {i \in I : 1 <= i /\ i <= n /\ i \in DOMAIN q}
           Good(n) ==
             /\ f[n] \in Seq(T)
             /\ \A k \in DOMAIN f[n] : \E i \in Places(n) : f[n][k] = q[i]
             /\ (\A i, j \in DOMAIN q \cap I : q[i] = q[j] => i = j) => NoRepeats(f[n])
           B == {n \in 0..Len(q) : ~Good(n)}
<1>5. /\ f[0] = <<>>
      /\ \A n \in 1..Len(q) : f[n] = IF n \in I THEN Append(f[n - 1], q[n]) ELSE f[n - 1]
  <2>1. 0 \in 0..Len(q) /\ \A n \in 1..Len(q) : n \in 0..Len(q) /\ n # 0
    BY <1>0
  <2> QED
    BY <1>3, <2>1
<1> HIDE DEF IsKept, S
<1>6. ASSUME NEW n \in 1..Len(q), Good(n - 1)
      PROVE  Good(n)
  <2>0. n \in Nat /\ n - 1 \in Nat /\ n \in DOMAIN q /\ q[n] \in T
    BY <1>0
  <2>1. \A i \in Places(n - 1) : i \in Places(n) /\ i # n
    BY <1>0, <2>0
  <2>2. CASE n \notin I
    <3>1. f[n] = f[n - 1]
      BY <1>5, <2>2
    <3>2. \A k \in DOMAIN f[n] : \E i \in Places(n) : f[n][k] = q[i]
      BY <1>6, <2>1, <3>1
    <3> QED
      BY <1>6, <3>1, <3>2
  <2>3. CASE n \in I
    <3> DEFINE p == f[n - 1]
    <3>1. f[n] = Append(p, q[n]) /\ p \in Seq(T)
      BY <1>5, <1>6, <2>3
    <3>2. \A k \in DOMAIN p : \E i \in Places(n - 1) : p[k] = q[i]
      BY <1>6
    <3>3. n \in Places(n)
      BY <2>0, <2>3
    <3> HIDE DEF p
    <3>4. /\ f[n] \in Seq(T) /\ Len(p) \in Nat
          /\ DOMAIN p = 1..Len(p) /\ DOMAIN f[n] = 1..Len(p) + 1
          /\ \A k \in 1..Len(p) : f[n][k] = p[k]
          /\ f[n][Len(p) + 1] = q[n]
      BY <2>0, <3>1, AppendProperties, LenProperties
    <3>5. ASSUME NEW k \in DOMAIN f[n] PROVE k \in DOMAIN p \/ k = Len(p) + 1
      BY <3>4
    <3>6. \A k \in DOMAIN f[n] : \E i \in Places(n) : f[n][k] = q[i]
      BY <2>1, <3>2, <3>3, <3>4, <3>5
    <3>7. ASSUME \A i, j \in DOMAIN q \cap I : q[i] = q[j] => i = j
          PROVE  NoRepeats(f[n])
      <4>1. NoRepeats(p)
        BY <1>6, <3>7 DEF p
      <4>2. \A k \in DOMAIN p : p[k] # q[n]
        <5>1. \A i \in Places(n - 1) : q[i] # q[n]
          BY <2>1, <3>3, <3>7
        <5> HIDE DEF Places
        <5> QED
          BY <3>2, <5>1
      <4> QED
        BY <3>4, <3>5, <4>1, <4>2 DEF NoRepeats
    <3> QED
      BY <3>4, <3>6, <3>7
  <2> QED
    BY <2>2, <2>3
<1>7. Good(0)
  BY <1>5 DEF NoRepeats
<1> HIDE DEF Good
<1>8. B = {}
  <2> SUFFICES ASSUME B # {} PROVE FALSE
    OBVIOUS
  <2>1. PICK n \in B : \A m \in B : n <= m
    <3>1. B \subseteq Nat
      BY <1>0
    <3> HIDE DEF B
    <3> QED
      BY <3>1, LeastNatural
  <2>2. n \in 0..Len(q) /\ ~Good(n)
    BY <2>1
  <2>3. n # 0
    BY <1>7, <2>2
  <2>4. n \in 1..Len(q) /\ n - 1 \in 0..Len(q) /\ ~(n <= n - 1)
    BY <1>0, <2>2, <2>3
  <2>5. Good(n - 1)
    BY <2>1, <2>4
  <2> QED
    BY <1>6, <2>2, <2>4, <2>5
<1>9. Good(Len(q))
  BY <1>0, <1>8
<1> QED
  BY <1>4, <1>9 DEF Good

\* normalizeSymbols leaves known symbols, each once.
LEMMA NormalizeType ==
  ASSUME NEW list \in Seq(DOMAIN Canonical)
  PROVE  NormalizeSymbols(list) \in SymbolLists
<1> DEFINE T == Symbols \cup {""}
           canon == [i \in DOMAIN list |-> Canonical[list[i]]]
           I == {i \in DOMAIN canon :
                   canon[i] # "" /\ \A j \in DOMAIN canon : j < i => canon[j] # canon[i]}
           kept == At(canon, I)
<1>1. Len(list) \in Nat /\ DOMAIN list = 1..Len(list)
      /\ \A i \in DOMAIN list : list[i] \in DOMAIN Canonical
  BY LenProperties, ElementOfSeq
<1>2. canon \in Seq(T)
  <2>1. Canonical \in [DOMAIN Canonical -> T]
    BY FeedAssumption
  <2>2. \A i \in DOMAIN list : Canonical[list[i]] \in T
    BY <1>1, <2>1
  <2> HIDE DEF T
  <2>3. canon \in [1..Len(list) -> T]
    BY <1>1, <2>2
  <2> QED
    BY <1>1, <2>3
<1>3. DOMAIN canon \subseteq Nat
  BY <1>1
<1>4. NormalizeSymbols(list) = kept
  BY DEF NormalizeSymbols
<1> HIDE DEF canon
<1>5. \A i, j \in DOMAIN canon \cap I : canon[i] = canon[j] => i = j
  <2> TAKE i, j \in DOMAIN canon \cap I
  <2>1. i = j \/ i < j \/ j < i
    <3> HIDE DEF I
    <3> QED
      BY <1>3
  <2> QED
    BY <2>1
<1>6. \A i \in I : canon[i] \in Symbols
  <2>1. \A i \in DOMAIN canon : canon[i] \in T
    <3> HIDE DEF T
    <3> QED
      BY <1>2
  <2> QED
    BY <2>1
<1> HIDE DEF I, T
<1>7. /\ kept \in Seq(T) /\ NoRepeats(kept)
      /\ \A k \in DOMAIN kept : \E i \in DOMAIN canon \cap I : kept[k] = canon[i]
  BY <1>2, <1>5, AtFacts
<1>8. \A k \in DOMAIN kept : kept[k] \in Symbols
  BY <1>6, <1>7
<1> HIDE DEF kept
<1>9. kept \in Seq(Symbols)
  BY <1>7, <1>8
<1> QED
  BY <1>4, <1>7, <1>9 DEF SymbolLists

\* The quotes of a tick: a price for a symbol, no symbol twice.
QuoteLists ==
  {q \in Seq([sym : Symbols, price : Nat]) :
     \A i, j \in DOMAIN q : q[i].sym = q[j].sym => i = j}

LEMMA QuotesType ==
  ASSUME NEW w \in SymbolLists, NEW I, NEW price,
         \A i \in I \cap DOMAIN w : price[w[i]] \in Prices
  PROVE  [i \in DOMAIN At(w, I) |->
            [sym |-> At(w, I)[i], price |-> price[At(w, I)[i]]]] \in QuoteLists
<1> DEFINE a == At(w, I)
           q == [i \in DOMAIN a |-> [sym |-> a[i], price |-> price[a[i]]]]
<1>1. w \in Seq(Symbols) /\ \A i, j \in DOMAIN w \cap I : w[i] = w[j] => i = j
  BY DEF SymbolLists, NoRepeats
<1>2. /\ a \in Seq(Symbols) /\ NoRepeats(a)
      /\ \A k \in DOMAIN a : \E i \in DOMAIN w \cap I : a[k] = w[i]
  BY <1>1, AtFacts
<1>3. Prices \subseteq Nat
  BY FeedAssumption
<1> HIDE DEF a
<1>4. ASSUME NEW k \in DOMAIN a PROVE a[k] \in Symbols /\ price[a[k]] \in Nat
  <2>1. PICK i \in DOMAIN w \cap I : a[k] = w[i]
    BY <1>2
  <2>2. a[k] \in Symbols
    BY <1>2
  <2> QED
    BY <1>3, <2>1, <2>2
<1>5. Len(a) \in Nat /\ DOMAIN a = 1..Len(a)
  BY <1>2, LenProperties
<1>6. q \in Seq([sym : Symbols, price : Nat])
  BY <1>4, <1>5
<1>7. \A i, j \in DOMAIN q : q[i].sym = q[j].sym => i = j
  BY <1>2 DEF NoRepeats
<1> HIDE DEF q
<1>8. q \in QuoteLists
  BY <1>6, <1>7 DEF QuoteLists
<1> QED
  BY <1>8 DEF q, a

LEMMA HeadAndTail ==
  ASSUME NEW q \in QuoteLists, q # <<>>
  PROVE  /\ Head(q).sym \in Symbols /\ Head(q).price \in Nat
         /\ Tail(q) \in QuoteLists
         /\ \A i \in DOMAIN Tail(q) : Tail(q)[i].sym # Head(q).sym
         /\ \A i \in DOMAIN Tail(q) : \E j \in DOMAIN q : Tail(q)[i] = q[j]
         /\ \E j \in DOMAIN q : Head(q) = q[j]
<1> DEFINE Q == [sym : Symbols, price : Nat]
<1>1. q \in Seq(Q) /\ \A i, j \in DOMAIN q : q[i].sym = q[j].sym => i = j
  BY DEF QuoteLists
<1>2. Len(q) \in Nat /\ Len(q) # 0 /\ DOMAIN q = 1..Len(q) /\ \A i \in 1..Len(q) : q[i] \in Q
  <2> HIDE DEF Q
  <2> QED
    BY <1>1, EmptySeq, LenProperties, ElementOfSeq
<1>3. Head(q) = q[1] /\ 1 \in DOMAIN q
  BY <1>1, <1>2
<1>4. /\ Tail(q) \in Seq(Q) /\ Len(Tail(q)) = Len(q) - 1
      /\ \A i \in 1..Len(q) - 1 : Tail(q)[i] = q[i + 1]
  <2> HIDE DEF Q
  <2> QED
    BY <1>1, HeadTailProperties
<1>5. DOMAIN Tail(q) = 1..Len(q) - 1
  BY <1>4, LenProperties
<1>6. \A i \in DOMAIN Tail(q) : i + 1 \in DOMAIN q /\ i + 1 # 1 /\ Tail(q)[i] = q[i + 1]
  BY <1>2, <1>4, <1>5
<1>7. \A i, j \in DOMAIN Tail(q) : Tail(q)[i].sym = Tail(q)[j].sym => i = j
  <2>1. DOMAIN Tail(q) \subseteq Nat
    BY <1>5
  <2>2. \A i, j \in DOMAIN Tail(q) : Tail(q)[i].sym = Tail(q)[j].sym => i + 1 = j + 1
    BY <1>1, <1>6
  <2> QED
    BY <2>1, <2>2
<1>8. Tail(q) \in QuoteLists
  BY <1>4, <1>7 DEF QuoteLists
<1> QED
  BY <1>1, <1>2, <1>3, <1>6, <1>8

-----------------------------------------------------------------------------
(* Type correctness, with the lists free of repetitions.                   *)

WorldOK == now \in Nat /\ crashes \in Nat

WebOK ==
  /\ row = NoRow \/ row \in SymbolLists
  /\ symbols \in SymbolLists
  /\ put \in [Clients -> [at : {"idle", "set", "read"}, list : SymbolLists, alone : BOOLEAN]]
  /\ puts \in Nat
  /\ promise = NoPromise \/ promise \in SymbolLists

RunnerOK ==
  /\ pc \in {"down", "off", "tick", "fetch", "backoff", "emit", "wait", "ended"}
  /\ cancelled \in BOOLEAN
  /\ provider \in 1..Len(Providers) /\ attempt \in 0..MaxRetries
  /\ pc = "backoff" => attempt < MaxRetries
  /\ want \in SymbolLists /\ quotes \in QuoteLists
  /\ asOf \in Nat /\ nextFire \in Nat
  /\ status \in [started : Nat, success : Nat, error : BOOLEAN]

CachesOK ==
  /\ lastSeq \in [Symbols -> Nat]
  /\ dedup \in [Symbols -> [price : Nat, lastSeen : Nat]]
  /\ steady \in [Symbols -> [price : Nat, since : Nat, last : Nat]]

Rows == [key : ToSet(Providers) \X Symbols \X Nat, sym : Symbols,
         time : Nat, price : Nat, seq : Nat]

LogOK == log \subseteq Rows

TypeInv == WorldOK /\ WebOK /\ RunnerOK /\ CachesOK /\ LogOK

LEMMA TypeInvImplies == TypeInv => TypeOK
<1> SUFFICES ASSUME TypeInv PROVE TypeOK
  OBVIOUS
<1>1. {now, asOf, nextFire, puts, crashes} \subseteq Nat
  BY DEF TypeInv, WorldOK, WebOK, RunnerOK
<1>2. /\ symbols \in Seq(Symbols) /\ want \in Seq(Symbols)
      /\ row = NoRow \/ row \in Seq(Symbols)
      /\ promise = NoPromise \/ promise \in Seq(Symbols)
  BY DEF TypeInv, WebOK, RunnerOK, SymbolLists
<1>3. quotes \in Seq([sym : Symbols, price : Nat])
  BY DEF TypeInv, RunnerOK, QuoteLists
<1>4. put \in [Clients -> [at : {"idle", "set", "read"}, list : Seq(Symbols),
                           alone : BOOLEAN]]
  <2>1. SymbolLists \subseteq Seq(Symbols)
    BY DEF SymbolLists
  <2> QED
    BY <2>1 DEF TypeInv, WebOK
<1>5. {symbols, want} \subseteq Seq(Symbols)
  BY <1>2
<1> QED
  BY <1>1, <1>2, <1>3, <1>4, <1>5 DEF TypeInv, RunnerOK, CachesOK, LogOK, Rows, TypeOK

LEMMA EmptyLists == <<>> \in SymbolLists /\ <<>> \in QuoteLists
BY DEF SymbolLists, NoRepeats, QuoteLists

LEMMA FeedConstants ==
  /\ Interval \in Nat /\ Interval > 0
  /\ DedupWindow \in Nat /\ MaxRetries \in Nat /\ MaxQuoteAge \in Nat
  /\ Len(Providers) \in Nat /\ Len(Providers) > 0
  /\ \A i \in 1..Len(Providers) : Providers[i] \in ToSet(Providers)
<1>1. Providers \in Seq(STRING) /\ Len(Providers) > 0
  BY FeedAssumption
<1>2. Len(Providers) \in Nat /\ DOMAIN Providers = 1..Len(Providers)
  BY <1>1, LenProperties
<1>3. \A i \in 1..Len(Providers) : Providers[i] \in ToSet(Providers)
  BY <1>2 DEF ToSet
<1>4. DedupWindow \in Nat /\ MaxRetries \in Nat /\ MaxQuoteAge \in Nat
  <2>1. {DedupWindow, MaxQuoteAge, MaxRetries, MaxPuts, MaxCrashes, MaxNow} \subseteq Nat
    BY FeedAssumption
  <2> QED
    BY <2>1
<1>5. Interval \in Nat /\ Interval > 0
  <2>1. Interval \in Nat \ {0}
    BY FeedAssumption
  <2> QED
    BY <2>1
<1> QED
  BY <1>1, <1>2, <1>3, <1>4, <1>5

LEMMA InitTypeInv == Init => TypeInv
<1> SUFFICES ASSUME Init PROVE TypeInv
  OBVIOUS
<1>1. WebOK
  BY EmptyLists DEF Init, WebOK, Idle
<1>2. RunnerOK
  <2>1. 1 \in 1..Len(Providers) /\ 0 \in 0..MaxRetries
    BY FeedConstants
  <2>2. NoStatus \in [started : Nat, success : Nat, error : BOOLEAN]
    BY DEF NoStatus
  <2> QED
    BY <2>1, <2>2, EmptyLists DEF Init, RunnerOK
<1>3. CachesOK
  BY DEF Init, CachesOK, Unpolled
<1> QED
  BY <1>1, <1>2, <1>3 DEF Init, TypeInv, WorldOK, LogOK

\* The parts a step leaves alone keep their types.
LEMMA UntouchedTypes ==
  /\ WorldOK /\ UNCHANGED world => WorldOK'
  /\ WebOK /\ UNCHANGED webSide => WebOK'
  /\ CachesOK /\ UNCHANGED caches => CachesOK'
  /\ LogOK /\ UNCHANGED log => LogOK'
  /\ RunnerOK /\ UNCHANGED <<pc, cancelled, tick, nextFire, status>> => RunnerOK'
BY DEF world, WorldOK, webSide, WebOK, caches, CachesOK, LogOK, tick, RunnerOK

\* A step of the runner outside emitQuote: its own variables only.
LEMMA RunnerType ==
  ASSUME TypeInv,
         BeginTick \/ FetchSucceeds \/ FetchIsRetried \/ Backoff \/ ProviderFails
           \/ TickSucceeds \/ TickerFires \/ LoopEnds
  PROVE  RunnerOK' /\ UNCHANGED <<log, caches, webSide, world>>
<1>0. /\ RunnerOK /\ now \in Nat /\ symbols \in SymbolLists
      /\ MaxRetries \in Nat /\ Interval \in Nat /\ Interval > 0 /\ Len(Providers) \in Nat
  BY FeedConstants DEF TypeInv, WorldOK, WebOK
<1>1. CASE BeginTick
  <2>1. status' \in [started : Nat, success : Nat, error : BOOLEAN]
    BY <1>0, <1>1 DEF BeginTick, RunnerOK
  <2>2. 1 \in 1..Len(Providers) /\ 0 \in 0..MaxRetries
    BY <1>0, FeedConstants
  <2> QED
    BY <1>0, <1>1, <2>1, <2>2 DEF BeginTick, Ask, RunnerOK
<1>2. CASE FetchSucceeds
  <2>1. PICK got \in SUBSET ToSet(want) \ {{}} :
          LET answered == At(want, {i \in DOMAIN want : want[i] \in got})
          IN  \E price \in [got -> Prices] :
                quotes' = [i \in DOMAIN answered |->
                             [sym |-> answered[i], price |-> price[answered[i]]]]
    BY <1>2 DEF FetchSucceeds
  <2> DEFINE I == {i \in DOMAIN want : want[i] \in got}
  <2>2. PICK price \in [got -> Prices] :
          quotes' = [i \in DOMAIN At(want, I) |->
                       [sym |-> At(want, I)[i], price |-> price[At(want, I)[i]]]]
    BY <2>1
  <2>3. \A i \in I \cap DOMAIN want : price[want[i]] \in Prices
    OBVIOUS
  <2>4. want \in SymbolLists
    BY <1>0 DEF RunnerOK
  <2> HIDE DEF I
  <2>5. quotes' \in QuoteLists
    BY <2>2, <2>3, <2>4, QuotesType
  <2> QED
    BY <1>0, <1>2, <2>5 DEF FetchSucceeds, fetch, RunnerOK
<1>3. CASE FetchIsRetried
  BY <1>0, <1>3 DEF FetchIsRetried, tick, RunnerOK
<1>4. CASE Backoff
  BY <1>0, <1>4 DEF Backoff, RunnerOK
<1>5. ASSUME NEW seen, AfterTick(seen)
      PROVE  /\ nextFire' \in Nat
             /\ pc' \in {"ended", "wait"}
  BY <1>0, <1>5 DEF AfterTick, RunnerOK
<1>6. CASE ProviderFails
  <2>1. CASE provider < Len(Providers)
    <3>1. provider + 1 \in 1..Len(Providers) /\ 0 \in 0..MaxRetries
      BY <1>0, <2>1 DEF RunnerOK
    <3> QED
      BY <1>0, <1>6, <2>1, <3>1 DEF ProviderFails, Ask, RunnerOK
  <2>2. CASE ~(provider < Len(Providers))
    <3>1. status' \in [started : Nat, success : Nat, error : BOOLEAN]
      BY <1>0, <1>6, <2>2 DEF ProviderFails, RunnerOK
    <3>2. nextFire' \in Nat /\ pc' \in {"ended", "wait"}
      BY <1>5, <1>6, <2>2 DEF ProviderFails
    <3> QED
      BY <1>0, <1>6, <2>2, <3>1, <3>2 DEF ProviderFails, fetch, RunnerOK
  <2> QED
    BY <2>1, <2>2
<1>7. CASE TickSucceeds
  <2>1. status' \in [started : Nat, success : Nat, error : BOOLEAN]
    BY <1>0, <1>7 DEF TickSucceeds, RunnerOK
  <2>2. nextFire' \in Nat /\ pc' \in {"ended", "wait"}
    BY <1>5, <1>7 DEF TickSucceeds
  <2> QED
    BY <1>0, <1>7, <2>1, <2>2 DEF TickSucceeds, tick, RunnerOK
<1>8. CASE TickerFires
  <2>1. nextFire' \in Nat
    <3>1. now \in Nat /\ nextFire \in Nat /\ nextFire <= now
      BY <1>0, <1>8 DEF TickerFires, RunnerOK
    <3>2. (now - nextFire) % Interval \in 0..Interval - 1
      BY <1>0, <3>1
    <3>3. nextFire' = now + Interval - ((now - nextFire) % Interval)
      BY <1>8 DEF TickerFires
    <3> QED
      BY <1>0, <3>1, <3>2, <3>3
  <2> QED
    BY <1>0, <1>8, <2>1 DEF TickerFires, tick, RunnerOK
<1>9. CASE LoopEnds
  BY <1>0, <1>9 DEF LoopEnds, tick, RunnerOK
<1>10. UNCHANGED <<log, caches, webSide, world>>
  BY DEF BeginTick, FetchSucceeds, FetchIsRetried, Backoff, ProviderFails,
         TickSucceeds, TickerFires, LoopEnds, tick, fetch
<1> QED
  BY <1>1, <1>2, <1>3, <1>4, <1>6, <1>7, <1>8, <1>9, <1>10

\* What emitQuote does with the quote at the head, in one formula.
EmitSteps ==
  DropStaleQuote \/ SkipUnchanged \/ IngestQuote \/ IngestFails \/ IngestIsCancelled

LEMMA EmitFacts ==
  ASSUME TypeInv, EmitSteps
  PROVE  /\ pc = "emit" /\ quotes # <<>> /\ quotes \in QuoteLists
         /\ Head(quotes).sym \in Symbols /\ Head(quotes).price \in Nat
         /\ quotes' = Tail(quotes) \/ quotes' = <<>>
         /\ quotes' \in QuoteLists
         /\ NextMonotonicSequence(Head(quotes).sym) \in Nat
         /\ PriceEvent(Head(quotes)) \in Rows
         /\ UNCHANGED <<asOf, webSide, world, cancelled, fetch, status>>
<1>1. pc = "emit" /\ quotes # <<>> /\ quotes \in QuoteLists
  BY DEF EmitSteps, DropStaleQuote, SkipUnchanged, IngestQuote, IngestFails,
         IngestIsCancelled, Reaches, EmitsNext, TypeInv, RunnerOK
<1>2. quotes' = Tail(quotes) \/ quotes' = <<>>
  BY DEF EmitSteps, DropStaleQuote, SkipUnchanged, IngestQuote, IngestFails,
         IngestIsCancelled, Emitted
<1>3. UNCHANGED <<asOf, webSide, world, cancelled, fetch, status>>
  BY DEF EmitSteps, DropStaleQuote, SkipUnchanged, IngestQuote, IngestFails,
         IngestIsCancelled, Emitted
<1>4. Head(quotes).sym \in Symbols /\ Head(quotes).price \in Nat /\ Tail(quotes) \in QuoteLists
  BY <1>1, HeadAndTail
<1> DEFINE s == Head(quotes).sym
<1>5. NextMonotonicSequence(s) \in Nat
  <2>1. lastSeq[s] \in Nat
    BY <1>4 DEF TypeInv, CachesOK
  <2>2. asOf \in Nat
    BY DEF TypeInv, RunnerOK
  <2> HIDE DEF s
  <2> QED
    BY <2>1, <2>2 DEF NextMonotonicSequence
<1>6. PriceEvent(Head(quotes)) \in Rows
  <2>1. Bucket(asOf) \in Nat
    BY FeedConstants DEF Bucket, TypeInv, RunnerOK
  <2>2. Providers[provider] \in ToSet(Providers) /\ asOf \in Nat
    BY FeedConstants DEF TypeInv, RunnerOK
  <2> QED
    BY <1>4, <1>5, <2>1, <2>2 DEF PriceEvent, Rows
<1>7. quotes' \in QuoteLists
  BY <1>2, <1>4, EmptyLists
<1> QED
  BY <1>1, <1>2, <1>3, <1>4, <1>5, <1>6, <1>7

LEMMA SteadyTypes ==
  ASSUME TypeInv, EmitSteps
  PROVE  /\ Steadied(Head(quotes)) \in [price : Nat, since : Nat, last : Nat]
         /\ Unpolled \in [price : Nat, since : Nat, last : Nat]
<1>1. Head(quotes).sym \in Symbols /\ Head(quotes).price \in Nat /\ asOf \in Nat
  BY EmitFacts DEF TypeInv, RunnerOK
<1> QED
  BY <1>1 DEF Steadied, Unpolled, TypeInv, CachesOK

LEMMA EmitType ==
  ASSUME TypeInv, EmitSteps
  PROVE  RunnerOK' /\ CachesOK' /\ LogOK'
<1> DEFINE s == Head(quotes).sym
           q == Head(quotes)
<1>0. /\ RunnerOK /\ CachesOK /\ LogOK /\ now \in Nat /\ asOf \in Nat /\ nextFire \in Nat
      /\ Interval \in Nat
  BY FeedConstants DEF TypeInv, WorldOK, RunnerOK
<1>1. /\ pc = "emit" /\ s \in Symbols /\ q.price \in Nat
      /\ quotes' \in QuoteLists /\ NextMonotonicSequence(s) \in Nat /\ PriceEvent(q) \in Rows
      /\ UNCHANGED <<asOf, webSide, world, cancelled, fetch, status>>
  BY EmitFacts
<1>2. /\ Steadied(q) \in [price : Nat, since : Nat, last : Nat]
      /\ Unpolled \in [price : Nat, since : Nat, last : Nat]
  BY SteadyTypes
<1>3. RunnerOK'
  <2>1. nextFire' \in Nat /\ pc' \in {"emit", "ended", "wait"}
    BY <1>0, <1>1
    DEF EmitSteps, DropStaleQuote, SkipUnchanged, IngestQuote, IngestFails,
        IngestIsCancelled, Emitted, AfterTick
  <2> QED
    BY <1>0, <1>1, <2>1 DEF RunnerOK, fetch
<1>4. LogOK'
  <2>1. log' \in {log, AppendEvent(log, PriceEvent(q))}
    BY DEF EmitSteps, DropStaleQuote, SkipUnchanged, IngestQuote, IngestFails,
           IngestIsCancelled
  <2> QED
    BY <1>0, <1>1, <2>1 DEF LogOK, AppendEvent
<1>5. lastSeq' \in [Symbols -> Nat]
  <2>1. lastSeq' = lastSeq \/ TakeSequence(s)
    BY DEF EmitSteps, DropStaleQuote, SkipUnchanged, IngestQuote, IngestFails,
           IngestIsCancelled
  <2> QED
    BY <1>0, <1>1, <2>1 DEF TakeSequence, CachesOK
<1>6. dedup' \in [Symbols -> [price : Nat, lastSeen : Nat]]
  <2>1. \/ dedup' = dedup
        \/ dedup' = [dedup EXCEPT ![s] = [price |-> q.price, lastSeen |-> asOf]]
    BY DEF EmitSteps, DropStaleQuote, SkipUnchanged, IngestQuote, IngestFails,
           IngestIsCancelled
  <2> QED
    BY <1>0, <1>1, <2>1 DEF CachesOK
<1>7. steady' \in [Symbols -> [price : Nat, since : Nat, last : Nat]]
  <2>1. \/ steady' = [steady EXCEPT ![s] = Steadied(q)]
        \/ steady' = [steady EXCEPT ![s] = Unpolled]
    BY DEF EmitSteps, DropStaleQuote, SkipUnchanged, IngestQuote, IngestFails,
           IngestIsCancelled, Emitted
  <2> QED
    BY <1>0, <1>1, <1>2, <2>1 DEF CachesOK
<1> QED
  BY <1>3, <1>4, <1>5, <1>6, <1>7 DEF CachesOK

\* A start takes the stored watchlist, a stop forgets it.
LEMMA StartType ==
  ASSUME TypeInv, NEW enabled \in BOOLEAN, Start(enabled)
  PROVE  TypeInv'
<1>1. NormalizeSymbols(ConfigList) \in SymbolLists
  BY NormalizeType, FeedAssumption
<1>2. symbols' \in SymbolLists
  BY <1>1, EmptyLists DEF Start, TypeInv, WebOK
<1>3. WebOK'
  BY <1>2 DEF Start, TypeInv, WebOK
<1>4. RunnerOK'
  BY DEF Start, TypeInv, RunnerOK, tick
<1> QED
  BY <1>3, <1>4, UntouchedTypes DEF Start, TypeInv

LEMMA VanishType ==
  ASSUME TypeInv, Vanish, crashes' \in Nat
  PROVE  TypeInv'
<1>1. WebOK'
  BY EmptyLists DEF Vanish, TypeInv, WebOK, Idle
<1>2. RunnerOK'
  <2>1. 1 \in 1..Len(Providers) /\ 0 \in 0..MaxRetries
    BY FeedConstants
  <2>2. NoStatus \in [started : Nat, success : Nat, error : BOOLEAN]
    BY DEF NoStatus
  <2> QED
    BY <2>1, <2>2, EmptyLists DEF Vanish, TypeInv, RunnerOK
<1>3. CachesOK'
  BY DEF Vanish, TypeInv, CachesOK
<1> QED
  BY <1>1, <1>2, <1>3 DEF Vanish, TypeInv, WorldOK, LogOK

LEMMA RequestType ==
  ASSUME TypeInv, NEW c \in Clients,
         \/ PutReads(c) \/ PutStores(c) \/ PutFails(c)
         \/ \E list \in Lists : PutSets(c, list)
  PROVE  WebOK' /\ UNCHANGED <<log, pc, cancelled, tick, nextFire, status, caches, world>>
<1>0. WebOK /\ Idle \in [at : {"idle", "set", "read"}, list : SymbolLists, alone : BOOLEAN]
  BY EmptyLists DEF TypeInv, Idle
<1>1. CASE PutReads(c)
  BY <1>0, <1>1 DEF PutReads, WebOK
<1>2. CASE PutStores(c)
  <2>1. put[c].list \in SymbolLists
    BY <1>0 DEF WebOK
  <2> HIDE DEF Idle
  <2> QED
    BY <1>0, <1>2, <2>1 DEF PutStores, WebOK
<1>3. CASE PutFails(c)
  <2>1. put[c].list \in SymbolLists
    BY <1>0 DEF WebOK
  <2> HIDE DEF Idle
  <2> QED
    BY <1>0, <1>3, <2>1 DEF PutFails, WebOK
<1>4. ASSUME NEW list \in Lists, PutSets(c, list) PROVE WebOK'
  <2>1. NormalizeSymbols(list) \in SymbolLists
    BY NormalizeType, FeedAssumption
  <2>2. symbols' \in SymbolLists /\ puts' \in Nat /\ promise' = NoPromise /\ row' = row
    BY <1>0, <1>4, <2>1 DEF PutSets, WebOK
  <2> DEFINE alone == pc # "off" /\ \A o \in Clients : put[o].at = "idle"
  <2>3. put' = [d \in Clients |->
                  IF d = c THEN [at |-> "set", list |-> <<>>, alone |-> alone]
                  ELSE [put[d] EXCEPT !.alone = FALSE]]
    BY <1>4 DEF PutSets
  <2>4. alone \in BOOLEAN
    OBVIOUS
  <2> HIDE DEF alone
  <2>5. put' \in [Clients -> [at : {"idle", "set", "read"}, list : SymbolLists,
                              alone : BOOLEAN]]
    BY <1>0, <2>3, <2>4, EmptyLists DEF WebOK
  <2> QED
    BY <1>0, <2>2, <2>5 DEF WebOK
<1>5. UNCHANGED <<log, pc, cancelled, tick, nextFire, status, caches, world>>
  BY DEF PutReads, PutStores, PutFails, PutSets
<1> QED
  BY <1>1, <1>2, <1>3, <1>4, <1>5

LEMMA NextTypeInv == TypeInv /\ [Next]_vars => TypeInv'
<1> SUFFICES ASSUME TypeInv, [Next]_vars PROVE TypeInv'
  OBVIOUS
<1>1. ASSUME NEW enabled \in BOOLEAN, Start(enabled) PROVE TypeInv'
  BY <1>1, StartType
<1>2. CASE Crash \/ Exit
  <2>1. Vanish /\ crashes' \in Nat
    BY <1>2 DEF Crash, Exit, TypeInv, WorldOK
  <2> QED
    BY <2>1, VanishType
<1>3. CASE Terminate
  <2>1. crashes' \in Nat
    BY <1>3 DEF Terminate, TypeInv, WorldOK
  <2>2. RunnerOK'
    BY <1>3 DEF Terminate, TypeInv, RunnerOK, tick
  <2> QED
    BY <1>3, <2>1, <2>2, UntouchedTypes DEF Terminate, TypeInv, WorldOK
<1>4. CASE ClockTicks
  BY <1>4, UntouchedTypes DEF ClockTicks, TypeInv, WorldOK
<1>5. CASE BeginTick \/ FetchSucceeds \/ FetchIsRetried \/ Backoff \/ ProviderFails
             \/ TickSucceeds \/ TickerFires \/ LoopEnds
  BY <1>5, RunnerType, UntouchedTypes DEF TypeInv
<1>6. CASE EmitSteps
  BY <1>6, EmitType, EmitFacts, UntouchedTypes DEF TypeInv
<1>7. ASSUME NEW c \in Clients,
             \/ PutReads(c) \/ PutStores(c) \/ PutFails(c)
             \/ \E list \in Lists : PutSets(c, list)
      PROVE  TypeInv'
  BY <1>7, RequestType, UntouchedTypes DEF TypeInv
<1>8. CASE UNCHANGED vars
  <2>1. UNCHANGED <<world, webSide, caches, log>>
        /\ UNCHANGED <<pc, cancelled, tick, nextFire, status>>
    BY <1>8 DEF vars, world, webSide, caches, tick
  <2> QED
    BY <2>1, UntouchedTypes DEF TypeInv
<1> QED
  BY <1>1, <1>2, <1>3, <1>4, <1>5, <1>6, <1>7, <1>8
  DEF Next, RunnerSteps, RequestSteps, EmitSteps

\* The lists stay lists of known symbols, the stored one and the ones fetched
\* for included, and no attempt goes beyond the bounds.
THEOREM TypeCorrect == Spec => []TypeOK
BY InitTypeInv, NextTypeInv, TypeInvImplies, PTL DEF Spec

-----------------------------------------------------------------------------
(* The rows and what the runner remembers of them.                         *)

\* A row carries the time of its fetch as its sequence number, and nothing of a
\* symbol whose quote is still to be emitted is as new as the fetch.
PastRows ==
  /\ \A e \in log : /\ e.seq = e.time /\ e.time <= asOf
                    /\ e.key[2] = e.sym /\ e.key[3] = Bucket(e.time)
  /\ \A s \in Symbols : /\ lastSeq[s] <= asOf /\ dedup[s].lastSeen <= asOf
                        /\ steady[s].last <= asOf /\ steady[s].since <= steady[s].last
  /\ \A i \in DOMAIN quotes :
       /\ lastSeq[quotes[i].sym] < asOf
       /\ \A e \in log : e.sym = quotes[i].sym => e.time < asOf

\* The steps the rows and the caches can tell apart.
LEMMA FeedSteps ==
  ASSUME [Next]_vars
  PROVE  EmitSteps \/ FetchSucceeds \/ Vanish \/ UNCHANGED <<log, asOf, quotes, caches>>
<1>1. CASE Crash \/ Exit
  BY <1>1 DEF Crash, Exit
<1>2. ASSUME NEW enabled \in BOOLEAN, Start(enabled)
      PROVE  UNCHANGED <<log, asOf, quotes, caches>>
  BY <1>2 DEF Start, tick
<1>3. CASE Terminate \/ ClockTicks \/ LoopEnds
  BY <1>3 DEF Terminate, ClockTicks, LoopEnds, tick
<1>4. CASE BeginTick \/ FetchIsRetried \/ Backoff \/ ProviderFails \/ TickSucceeds \/ TickerFires
  BY <1>4 DEF BeginTick, FetchIsRetried, Backoff, ProviderFails, TickSucceeds,
              TickerFires, tick
<1>5. ASSUME NEW c \in Clients,
             \/ PutReads(c) \/ PutStores(c) \/ PutFails(c)
             \/ \E list \in Lists : PutSets(c, list)
      PROVE  UNCHANGED <<log, asOf, quotes, caches>>
  BY <1>5 DEF PutReads, PutStores, PutFails, PutSets, tick
<1>6. CASE UNCHANGED vars
  BY <1>6 DEF vars, caches
<1> QED
  BY <1>1, <1>2, <1>3, <1>4, <1>5, <1>6 DEF Next, RunnerSteps, RequestSteps, EmitSteps

\* What emitting a quote does to the row and the caches of its symbol, and that
\* it leaves the other symbols alone.
LEMMA EmitChanges ==
  ASSUME TypeInv, PastRows, EmitSteps
  PROVE  LET q == Head(quotes)
             s == q.sym
             e == PriceEvent(q)
         IN  /\ e.time = asOf /\ e.seq = asOf /\ e.sym = s /\ e.price = q.price
             /\ e.key[2] = s /\ e.key[3] = Bucket(asOf)
             /\ lastSeq[s] < asOf /\ \A f \in log : f.sym = s => f.time < asOf
             /\ log' = log \/ log' = log \cup {e}
             /\ lastSeq'[s] <= asOf
             /\ dedup'[s] = dedup[s] \/ dedup'[s].lastSeen = asOf
             /\ steady'[s] = Unpolled \/ steady'[s] = Steadied(q)
             /\ \A z \in Symbols : z # s => /\ lastSeq'[z] = lastSeq[z]
                                            /\ dedup'[z] = dedup[z]
                                            /\ steady'[z] = steady[z]
<1> DEFINE q == Head(quotes)
           s == q.sym
           e == PriceEvent(q)
<1>0. /\ quotes # <<>> /\ quotes \in QuoteLists /\ s \in Symbols /\ q.price \in Nat
      /\ asOf \in Nat
  BY EmitFacts DEF TypeInv, RunnerOK
<1>1. PICK j \in DOMAIN quotes : q = quotes[j]
  BY <1>0, HeadAndTail
<1>2. lastSeq[s] < asOf /\ \A f \in log : f.sym = s => f.time < asOf
  BY <1>1 DEF PastRows
<1>3. lastSeq \in [Symbols -> Nat]
  BY DEF TypeInv, CachesOK
<1>4. NextMonotonicSequence(s) = asOf
  BY <1>0, <1>2, <1>3 DEF NextMonotonicSequence
<1> HIDE DEF s, q
<1>5. /\ e.time = asOf /\ e.seq = asOf /\ e.sym = s /\ e.price = q.price
      /\ e.key[2] = s /\ e.key[3] = Bucket(asOf)
  BY <1>4 DEF PriceEvent, s
<1> HIDE DEF e
<1>6. log' = log \/ log' = log \cup {e}
  BY DEF EmitSteps, DropStaleQuote, SkipUnchanged, IngestQuote, IngestFails,
         IngestIsCancelled, AppendEvent, e, q
<1>7. /\ lastSeq'[s] <= asOf
      /\ \A z \in Symbols : z # s => lastSeq'[z] = lastSeq[z]
  <2>1. lastSeq' = lastSeq \/ TakeSequence(s)
    BY DEF EmitSteps, DropStaleQuote, SkipUnchanged, IngestQuote, IngestFails,
           IngestIsCancelled, s, q
  <2> QED
    BY <1>0, <1>2, <1>3, <1>4, <2>1 DEF TakeSequence
<1>8. /\ dedup'[s] = dedup[s] \/ dedup'[s].lastSeen = asOf
      /\ \A z \in Symbols : z # s => dedup'[z] = dedup[z]
  <2>1. \/ dedup' = dedup
        \/ dedup' = [dedup EXCEPT ![s] = [price |-> q.price, lastSeen |-> asOf]]
    BY DEF EmitSteps, DropStaleQuote, SkipUnchanged, IngestQuote, IngestFails,
           IngestIsCancelled, s, q
  <2>2. dedup \in [Symbols -> [price : Nat, lastSeen : Nat]]
    BY DEF TypeInv, CachesOK
  <2> QED
    BY <1>0, <2>1, <2>2
<1>9. /\ steady'[s] = Unpolled \/ steady'[s] = Steadied(q)
      /\ \A z \in Symbols : z # s => steady'[z] = steady[z]
  <2>1. \/ steady' = [steady EXCEPT ![s] = Steadied(q)]
        \/ steady' = [steady EXCEPT ![s] = Unpolled]
    BY DEF EmitSteps, DropStaleQuote, SkipUnchanged, IngestQuote, IngestFails,
           IngestIsCancelled, Emitted, s, q
  <2>2. steady \in [Symbols -> [price : Nat, since : Nat, last : Nat]]
    BY DEF TypeInv, CachesOK
  <2> QED
    BY <1>0, <2>1, <2>2
<1> QED
  BY <1>2, <1>5, <1>6, <1>7, <1>8, <1>9 DEF e, s, q

LEMMA InitPastRows == Init => PastRows
BY DEF Init, PastRows, Unpolled

LEMMA QuoteFacts == \A qs \in QuoteLists : \A i \in DOMAIN qs : qs[i].sym \in Symbols
<1> SUFFICES ASSUME NEW qs \in QuoteLists, NEW i \in DOMAIN qs PROVE qs[i].sym \in Symbols
  OBVIOUS
<1>1. qs \in Seq([sym : Symbols, price : Nat])
  BY DEF QuoteLists
<1>2. qs[i] \in [sym : Symbols, price : Nat]
  BY <1>1, LenProperties, ElementOfSeq
<1> QED
  BY <1>2

LEMMA NextPastRows == TypeInv /\ PastRows /\ [Next]_vars => PastRows'
<1> SUFFICES ASSUME TypeInv, PastRows, [Next]_vars PROVE PastRows'
  OBVIOUS
<1>0. /\ asOf \in Nat
      /\ lastSeq \in [Symbols -> Nat]
      /\ dedup \in [Symbols -> [price : Nat, lastSeen : Nat]]
      /\ steady \in [Symbols -> [price : Nat, since : Nat, last : Nat]]
      /\ \A e \in log : e.time \in Nat /\ e.sym \in Symbols
  BY DEF TypeInv, RunnerOK, CachesOK, LogOK, Rows
<1>1. CASE EmitSteps
  <2> DEFINE q == Head(quotes)
             s == q.sym
             e == PriceEvent(q)
  <2>1. /\ quotes # <<>> /\ quotes \in QuoteLists /\ s \in Symbols /\ asOf' = asOf
        /\ quotes' = Tail(quotes) \/ quotes' = <<>>
    BY <1>1, EmitFacts
  <2>2. /\ e.time = asOf /\ e.seq = asOf /\ e.sym = s
        /\ e.key[2] = s /\ e.key[3] = Bucket(asOf)
        /\ log' = log \/ log' = log \cup {e}
        /\ lastSeq'[s] <= asOf
        /\ dedup'[s] = dedup[s] \/ dedup'[s].lastSeen = asOf
        /\ steady'[s] = Unpolled \/ steady'[s] = Steadied(q)
        /\ \A z \in Symbols : z # s => /\ lastSeq'[z] = lastSeq[z]
                                       /\ dedup'[z] = dedup[z]
                                       /\ steady'[z] = steady[z]
    BY <1>1, EmitChanges
  <2>3. \A i \in DOMAIN quotes' : /\ quotes'[i].sym # s /\ quotes'[i].sym \in Symbols
                                  /\ \E j \in DOMAIN quotes : quotes'[i] = quotes[j]
    <3>1. \A j \in DOMAIN quotes : quotes[j].sym \in Symbols
      BY <2>1, QuoteFacts
    <3>2. CASE quotes' = Tail(quotes)
      BY <2>1, <3>1, <3>2, HeadAndTail
    <3>3. CASE quotes' = <<>>
      BY <3>3
    <3> QED
      BY <2>1, <3>2, <3>3
  <2>4. Steadied(q).last = asOf /\ Steadied(q).since <= asOf
    BY <1>0, <2>1 DEF Steadied, PastRows
  <2>5. steady'[s].last <= asOf /\ steady'[s].since <= steady'[s].last
    BY <1>0, <2>2, <2>4 DEF Unpolled
  <2> HIDE DEF e, s, q
  <2>6. \A f \in log' : /\ f.seq = f.time /\ f.time <= asOf
                        /\ f.key[2] = f.sym /\ f.key[3] = Bucket(f.time)
    BY <1>0, <2>2 DEF PastRows
  <2>7. ASSUME NEW z \in Symbols
        PROVE  /\ lastSeq'[z] <= asOf /\ dedup'[z].lastSeen <= asOf
               /\ steady'[z].last <= asOf /\ steady'[z].since <= steady'[z].last
    <3>1. /\ lastSeq[z] <= asOf /\ dedup[z].lastSeen <= asOf
          /\ steady[z].last <= asOf /\ steady[z].since <= steady[z].last
      BY DEF PastRows
    <3>2. CASE z = s
      <4>1. dedup'[z].lastSeen <= asOf
        BY <1>0, <2>2, <3>1, <3>2
      <4> QED
        BY <2>2, <2>5, <3>2, <4>1
    <3>3. CASE z # s
      BY <2>2, <3>1, <3>3
    <3> QED
      BY <3>2, <3>3
  <2>8. ASSUME NEW i \in DOMAIN quotes'
        PROVE  /\ lastSeq'[quotes'[i].sym] < asOf
               /\ \A f \in log' : f.sym = quotes'[i].sym => f.time < asOf
    BY <2>2, <2>3 DEF PastRows
  <2> QED
    BY <2>1, <2>6, <2>7, <2>8 DEF PastRows, Bucket
<1>2. CASE FetchSucceeds
  <2>1. /\ asOf' = now /\ now > asOf /\ now \in Nat
        /\ UNCHANGED <<log, lastSeq, dedup, steady>>
    BY <1>2 DEF FetchSucceeds, caches, TypeInv, WorldOK
  <2>2. \A i \in DOMAIN quotes' : quotes'[i].sym \in Symbols
    BY <1>2, RunnerType, QuoteFacts DEF RunnerOK
  <2>3. \A f \in log : f.time < asOf'
    BY <1>0, <2>1 DEF PastRows
  <2>4. \A z \in Symbols : /\ lastSeq[z] < asOf' /\ dedup[z].lastSeen <= asOf'
                           /\ steady[z].last <= asOf'
    BY <1>0, <2>1 DEF PastRows
  <2>5. \A f \in log : f.time <= asOf'
    BY <1>0, <2>1, <2>3
  <2>6. \A z \in Symbols : lastSeq[z] <= asOf'
    BY <1>0, <2>1, <2>4
  <2> QED
    BY <2>1, <2>2, <2>3, <2>4, <2>5, <2>6 DEF PastRows, Bucket
<1>3. CASE Vanish
  <2>1. /\ UNCHANGED <<log, asOf, steady>> /\ quotes' = <<>>
        /\ \A s \in Symbols : lastSeq'[s] = 0 /\ dedup'[s].lastSeen = 0
    BY <1>3 DEF Vanish
  <2> QED
    BY <1>0, <2>1 DEF PastRows, Bucket
<1>4. CASE UNCHANGED <<log, asOf, quotes, caches>>
  BY <1>4 DEF PastRows, caches, Bucket
<1> QED
  BY <1>1, <1>2, <1>3, <1>4, FeedSteps

\* Source sequences grow with the time of the quotes, although a restart loses
\* the counters: every row's number is the time of its fetch.
THEOREM SequencesFollowTime == Spec => []SequenceFollowsTime
<1>1. PastRows => SequenceFollowsTime
  BY DEF PastRows, SequenceFollowsTime
<1> QED
  BY InitTypeInv, NextTypeInv, InitPastRows, NextPastRows, <1>1, PTL DEF Spec

\* A symbol has a row since an instant.
RowSince(s, t) == \E e \in log : e.sym = s /\ e.time >= t

\* Of a symbol polled at one price for a while: its rows of that while have that
\* price, and an ingest a poll interval after the beginning has left one.
StreakOf(s) ==
  steady[s].last > 0 =>
    /\ \A e \in log : e.sym = s /\ e.time >= steady[s].since => e.price = steady[s].price
    /\ dedup[s].lastSeen >= steady[s].since + Interval => RowSince(s, steady[s].since)
    /\ steady[s].last > steady[s].since + Interval + DedupWindow
         => RowSince(s, steady[s].since)

StreakInv == \A s \in Symbols : StreakOf(s)

\* An emitted quote that counts was ingested, under its key, or skipped as seen.
LEMMA SteadySteps ==
  ASSUME TypeInv, PastRows, EmitSteps, steady'[Head(quotes).sym] # Unpolled
  PROVE  LET s == Head(quotes).sym
         IN  \/ /\ \E f \in log' : f.key = PriceEvent(Head(quotes)).key
             \/ /\ dedup' = dedup /\ log' = log
                /\ dedup[s].lastSeen > 0 /\ asOf - dedup[s].lastSeen <= DedupWindow
<1>1. steady \in [Symbols -> [price : Nat, since : Nat, last : Nat]]
      /\ Head(quotes).sym \in Symbols
  BY EmitFacts DEF TypeInv, CachesOK
<1>2. steady' # [steady EXCEPT ![Head(quotes).sym] = Unpolled]
  BY <1>1
<1>3. SkipUnchanged \/ IngestQuote
  BY <1>2 DEF EmitSteps, DropStaleQuote, IngestFails, IngestIsCancelled, Emitted
<1>4. CASE SkipUnchanged
  BY <1>4 DEF SkipUnchanged, ShouldDedup, Unchanged
<1>5. CASE IngestQuote
  <2>1. log' = AppendEvent(log, PriceEvent(Head(quotes)))
    BY <1>5 DEF IngestQuote
  <2> QED
    BY <2>1 DEF AppendEvent
<1> QED
  BY <1>3, <1>4, <1>5

\* Two instants of one poll interval are less than the interval apart.
LEMMA SameBucket ==
  ASSUME NEW t \in Nat, NEW u \in Nat, NEW v \in Nat,
         Bucket(t) = Bucket(u), u >= v + Interval
  PROVE  t >= v
<1>1. Interval \in Nat \ {0}
  BY FeedConstants
<1>2. /\ Interval * (t \div Interval) <= t /\ u < Interval * (u \div Interval) + Interval
      /\ t \div Interval \in Nat
  BY <1>1, SMT
<1>3. t \div Interval = u \div Interval
  BY DEF Bucket
<1> DEFINE m == Interval * (t \div Interval)
<1>4. m <= t /\ u < m + Interval /\ m \in Nat
  BY <1>1, <1>2, <1>3, SMT
<1> HIDE DEF m
<1> QED
  BY <1>1, <1>4, SMT

\* The streak of the symbol whose quote is emitted.
LEMMA EmittedStreak ==
  ASSUME TypeInv, PastRows, StreakInv, EmitSteps, NEW s, s = Head(quotes).sym
  PROVE  StreakOf(s)'
<1> PICK q : q = Head(quotes)
  OBVIOUS
<1> PICK e : e = PriceEvent(q)
  OBVIOUS
<1> PICK n : n = Steadied(q)
  OBVIOUS
<1>0. /\ asOf \in Nat /\ asOf' = asOf /\ s \in Symbols /\ q.price \in Nat
      /\ Interval \in Nat /\ Interval > 0 /\ DedupWindow \in Nat
  BY EmitFacts, FeedConstants DEF TypeInv, RunnerOK
<1>1. /\ dedup[s] \in [price : Nat, lastSeen : Nat]
      /\ steady[s] \in [price : Nat, since : Nat, last : Nat]
      /\ \A f \in log : f.time \in Nat
  BY <1>0 DEF TypeInv, CachesOK, LogOK, Rows
<1>2. /\ e.time = asOf /\ e.sym = s /\ e.price = q.price
      /\ e.key[2] = s /\ e.key[3] = Bucket(asOf)
      /\ \A f \in log : f.sym = s => f.time < asOf
      /\ log' = log \/ log' = log \cup {e}
      /\ dedup'[s] = dedup[s] \/ dedup'[s].lastSeen = asOf
      /\ steady'[s] = Unpolled \/ steady'[s] = n
  BY EmitChanges
<1>3. CASE steady'[s] = Unpolled
  BY <1>3 DEF StreakOf, Unpolled
<1>4. CASE steady'[s] # Unpolled
  <2>1. steady'[s] = n
    BY <1>2, <1>4
  <2>2. \/ \E f \in log' : f.key = e.key
        \/ /\ dedup' = dedup /\ log' = log
           /\ dedup[s].lastSeen > 0 /\ asOf - dedup[s].lastSeen <= DedupWindow
    BY <1>4, SteadySteps
  <2>3. /\ n.price = q.price /\ n.last = asOf /\ n.since \in Nat /\ n.since <= asOf
        /\ \/ n.since = asOf
           \/ steady[s].last > 0 /\ n.since = steady[s].since /\ n.price = steady[s].price
    BY <1>0, <1>1 DEF Steadied, PastRows
  <2>4. ASSUME NEW f \in log', f.sym = s, f.time >= n.since PROVE f.price = n.price
    <3>1. CASE f = e
      BY <1>2, <2>3, <3>1
    <3>2. CASE f \in log
      <4>1. f.time < asOf /\ f.time \in Nat
        BY <1>1, <1>2, <2>4, <3>2
      <4>2. n.since # asOf
        BY <1>0, <2>3, <2>4, <4>1
      <4>3. steady[s].last > 0 /\ n.since = steady[s].since /\ n.price = steady[s].price
        BY <2>3, <4>2
      <4> QED
        BY <1>0, <2>4, <3>2, <4>3 DEF StreakInv, StreakOf
    <3> QED
      BY <1>2, <2>4, <3>1, <3>2
  <2>5. ASSUME NEW f \in log', f.key = e.key, asOf >= n.since + Interval
        PROVE  f.sym = s /\ f.time >= n.since
    <3>1. CASE f = e
      BY <1>0, <1>2, <2>3, <3>1
    <3>2. CASE f \in log
      <4>1. f.sym = s /\ Bucket(f.time) = Bucket(asOf) /\ f.time \in Nat
        BY <1>1, <1>2, <2>5, <3>2 DEF PastRows
      <4> QED
        BY <1>0, <2>3, <2>5, <4>1, SameBucket
    <3> QED
      BY <1>2, <2>5, <3>1, <3>2
  <2>6. RowSince(s, n.since) => RowSince(s, n.since)'
    BY <1>2, <2>1 DEF RowSince
  <2>7. ASSUME dedup[s].lastSeen >= n.since + Interval PROVE RowSince(s, n.since)'
    <3>1. dedup[s].lastSeen <= asOf
      BY <1>0 DEF PastRows
    <3>2. n.since # asOf
      BY <1>0, <1>1, <2>3, <2>7, <3>1
    <3>3. steady[s].last > 0 /\ n.since = steady[s].since
      BY <2>3, <3>2
    <3> QED
      BY <1>0, <2>6, <2>7, <3>3 DEF StreakInv, StreakOf
  <2>8. ASSUME dedup'[s].lastSeen >= n.since + Interval PROVE RowSince(s, n.since)'
    <3>1. CASE dedup'[s] = dedup[s]
      BY <2>7, <2>8, <3>1
    <3>2. CASE dedup'[s] # dedup[s]
      <4>1. dedup'[s].lastSeen = asOf /\ asOf >= n.since + Interval
        BY <1>2, <2>8, <3>2
      <4>2. PICK f \in log' : f.key = e.key
        BY <2>2, <3>2
      <4> QED
        BY <2>5, <4>1, <4>2 DEF RowSince
    <3> QED
      BY <3>1, <3>2
  <2>9. ASSUME asOf > n.since + Interval + DedupWindow PROVE RowSince(s, n.since)'
    <3>1. CASE \E f \in log' : f.key = e.key
      <4>1. asOf >= n.since + Interval
        BY <1>0, <2>3, <2>9
      <4> QED
        BY <2>5, <3>1, <4>1 DEF RowSince
    <3>2. CASE dedup[s].lastSeen > 0 /\ asOf - dedup[s].lastSeen <= DedupWindow
      <4>1. dedup[s].lastSeen >= n.since + Interval
        BY <1>0, <1>1, <2>3, <2>9, <3>2
      <4> QED
        BY <2>7, <4>1
    <3> QED
      BY <2>2, <3>1, <3>2
  <2> QED
    BY <2>1, <2>3, <2>4, <2>8, <2>9 DEF StreakOf, RowSince
<1> QED
  BY <1>3, <1>4

LEMMA InitStreakInv == Init => StreakInv
BY DEF Init, StreakInv, StreakOf, Unpolled

LEMMA NextStreakInv == TypeInv /\ PastRows /\ StreakInv /\ [Next]_vars => StreakInv'
<1> SUFFICES ASSUME TypeInv, PastRows, StreakInv, [Next]_vars PROVE StreakInv'
  OBVIOUS
<1>0. /\ steady \in [Symbols -> [price : Nat, since : Nat, last : Nat]]
      /\ Interval \in Nat /\ Interval > 0
  BY FeedConstants DEF TypeInv, CachesOK
<1>1. CASE EmitSteps
  <2> PICK s : s = Head(quotes).sym
    OBVIOUS
  <2>1. StreakOf(s)'
    BY <1>1, EmittedStreak
  <2>2. ASSUME NEW z \in Symbols, z # s PROVE StreakOf(z)'
    <3>1. /\ dedup'[z] = dedup[z] /\ steady'[z] = steady[z]
          /\ log' = log \/ log' = log \cup {PriceEvent(Head(quotes))}
          /\ PriceEvent(Head(quotes)).sym = s
      BY <1>1, <2>2, EmitChanges
    <3>2. {f \in log' : f.sym = z} = {f \in log : f.sym = z}
      BY <2>2, <3>1
    <3>3. \A t : RowSince(z, t)' <=> RowSince(z, t)
      BY <3>2 DEF RowSince
    <3>4. StreakOf(z)
      BY DEF StreakInv
    <3> QED
      BY <3>1, <3>2, <3>4 DEF StreakOf, RowSince
  <2> QED
    BY <2>1, <2>2 DEF StreakInv
<1>2. CASE FetchSucceeds
  BY <1>2 DEF FetchSucceeds, caches, StreakInv, StreakOf, RowSince
<1>3. CASE Vanish
  <2>1. UNCHANGED <<log, steady>> /\ \A s \in Symbols : dedup'[s].lastSeen = 0
    BY <1>3 DEF Vanish
  <2>2. \A s \in Symbols : ~(0 >= steady[s].since + Interval)
    BY <1>0
  <2> QED
    BY <2>1, <2>2 DEF StreakInv, StreakOf, RowSince
<1>4. CASE UNCHANGED <<log, asOf, quotes, caches>>
  BY <1>4 DEF StreakInv, StreakOf, RowSince, caches
<1> QED
  BY <1>1, <1>2, <1>3, <1>4, FeedSteps

LEMMA StreakImplies == TypeInv /\ PastRows /\ StreakInv => PolledPriceIsStored
<1> SUFFICES ASSUME TypeInv, PastRows, StreakInv,
                    NEW s \in Symbols,
                    steady[s].last - steady[s].since > DedupWindow + Interval,
                    NEW e \in Newest(s)
             PROVE  e.price = steady[s].price
  BY DEF PolledPriceIsStored
<1>1. /\ steady[s] \in [price : Nat, since : Nat, last : Nat]
      /\ Interval \in Nat /\ DedupWindow \in Nat
      /\ \A f \in log : f.time \in Nat
  BY FeedConstants DEF TypeInv, CachesOK, LogOK, Rows
<1>2. steady[s].last > 0 /\ steady[s].last > steady[s].since + Interval + DedupWindow
  BY <1>1
<1>3. PICK f \in log : f.sym = s /\ f.time >= steady[s].since
  BY <1>2 DEF StreakInv, StreakOf, RowSince
<1>4. e \in log /\ e.sym = s /\ f.time <= e.time
  BY <1>3 DEF Newest
<1>5. e.time >= steady[s].since
  BY <1>1, <1>3, <1>4
<1> QED
  BY <1>2, <1>4, <1>5 DEF StreakInv, StreakOf

\* A price that the provider keeps quoting reaches the log, for any poll
\* interval and any window in which equal prices are skipped.
THEOREM PolledPricesAreStored == Spec => []PolledPriceIsStored
BY InitTypeInv, NextTypeInv, InitPastRows, NextPastRows, InitStreakInv, NextStreakInv,
   StreakImplies, PTL DEF Spec

-----------------------------------------------------------------------------
(* The status of the runner and the watchlist.                             *)

StatusInv == status.started <= now /\ CleanStatusIsCurrent

LEMMA NextStatusInv == TypeInv /\ StatusInv /\ [Next]_vars => StatusInv'
<1> SUFFICES ASSUME TypeInv, StatusInv, [Next]_vars PROVE StatusInv'
  OBVIOUS
<1>0. /\ status \in [started : Nat, success : Nat, error : BOOLEAN] /\ now \in Nat
      /\ cancelled \in BOOLEAN
  BY DEF TypeInv, RunnerOK, WorldOK
<1>1. CASE Crash \/ Exit
  BY <1>0, <1>1 DEF Crash, Exit, Vanish, NoStatus, StatusInv, CleanStatusIsCurrent
<1>2. ASSUME NEW enabled \in BOOLEAN, Start(enabled) PROVE StatusInv'
  BY <1>0, <1>2 DEF Start, world, StatusInv, CleanStatusIsCurrent
<1>3. CASE Terminate \/ ClockTicks \/ LoopEnds
  BY <1>0, <1>3 DEF Terminate, ClockTicks, LoopEnds, world, StatusInv, CleanStatusIsCurrent
<1>4. CASE BeginTick
  BY <1>0, <1>4 DEF BeginTick, Ask, world, StatusInv, CleanStatusIsCurrent
<1>5. CASE FetchSucceeds \/ FetchIsRetried \/ Backoff \/ TickerFires
  BY <1>0, <1>5 DEF FetchSucceeds, FetchIsRetried, Backoff, TickerFires, world,
                    StatusInv, CleanStatusIsCurrent
<1>6. CASE ProviderFails
  <2>1. UNCHANGED world
    BY <1>6 DEF ProviderFails
  <2>2. CASE provider < Len(Providers)
    BY <1>0, <1>6, <2>1, <2>2
    DEF ProviderFails, Ask, world, StatusInv, CleanStatusIsCurrent
  <2>3. CASE ~(provider < Len(Providers))
    <3>1. status' = [status EXCEPT !.error = TRUE]
      BY <1>6, <2>3 DEF ProviderFails
    <3> QED
      BY <1>0, <2>1, <3>1 DEF world, StatusInv, CleanStatusIsCurrent
  <2> QED
    BY <2>2, <2>3
<1>7. CASE TickSucceeds
  BY <1>0, <1>7 DEF TickSucceeds, world, StatusInv, CleanStatusIsCurrent
<1>8. CASE IngestIsCancelled
  BY <1>0, <1>8 DEF IngestIsCancelled, world, StatusInv, CleanStatusIsCurrent
<1>9. CASE DropStaleQuote \/ SkipUnchanged \/ IngestQuote \/ IngestFails
  BY <1>0, <1>9 DEF DropStaleQuote, SkipUnchanged, IngestQuote, IngestFails, Emitted,
                    world, StatusInv, CleanStatusIsCurrent
<1>10. ASSUME NEW c \in Clients,
              \/ PutReads(c) \/ PutStores(c) \/ PutFails(c)
              \/ \E list \in Lists : PutSets(c, list)
       PROVE  StatusInv'
  BY <1>0, <1>10 DEF PutReads, PutStores, PutFails, PutSets, world, StatusInv,
                     CleanStatusIsCurrent
<1>11. CASE UNCHANGED vars
  BY <1>11 DEF vars, StatusInv, CleanStatusIsCurrent
<1> QED
  BY <1>1, <1>2, <1>3, <1>4, <1>5, <1>6, <1>7, <1>8, <1>9, <1>10, <1>11
  DEF Next, RunnerSteps, RequestSteps

\* A status without an error is never older than the last tick.
THEOREM CleanStatusesAreCurrent == Spec => []CleanStatusIsCurrent
<1>1. Init => StatusInv
  BY DEF Init, NoStatus, StatusInv, CleanStatusIsCurrent
<1>2. StatusInv => CleanStatusIsCurrent
  BY DEF StatusInv
<1> QED
  BY InitTypeInv, NextTypeInv, NextStatusInv, <1>1, <1>2, PTL DEF Spec

\* A request without competitors, while it runs, and after it the promise.
PromiseInv ==
  /\ \A c \in Clients :
       /\ put[c].at = "idle" => ~put[c].alone
       /\ put[c].alone =>
            /\ pc \notin {"down", "off"}
            /\ \A d \in Clients : d # c => put[d].at = "idle"
            /\ put[c].at = "read" => put[c].list = symbols
  /\ promise # NoPromise => \A c \in Clients : put[c].at = "idle"
  /\ WatchlistIsKept

\* The steps the promise can tell apart; the others leave a process a process.
LEMMA WebSteps ==
  ASSUME TypeInv, [Next]_vars
  PROVE  \/ \E enabled \in BOOLEAN : Start(enabled)
         \/ Vanish
         \/ \E c \in Clients : \/ PutReads(c) \/ PutStores(c) \/ PutFails(c)
                               \/ \E list \in Lists : PutSets(c, list)
         \/ /\ UNCHANGED webSide
            /\ pc' = pc \/ {pc, pc'} \cap {"down", "off"} = {}
<1>1. CASE Crash \/ Exit
  BY <1>1 DEF Crash, Exit
<1>2. CASE Terminate \/ ClockTicks \/ LoopEnds
  BY <1>2 DEF Terminate, ClockTicks, LoopEnds
<1>3. CASE BeginTick \/ FetchSucceeds \/ FetchIsRetried \/ Backoff \/ TickSucceeds \/ TickerFires
  BY <1>3 DEF BeginTick, Ask, FetchSucceeds, FetchIsRetried, Backoff, TickSucceeds,
              AfterTick, TickerFires
<1>4. CASE ProviderFails
  BY <1>4 DEF ProviderFails, Ask, AfterTick
<1>5. CASE EmitSteps
  BY <1>5 DEF EmitSteps, EmitsNext, Reaches, DropStaleQuote, SkipUnchanged, IngestQuote,
              IngestFails, IngestIsCancelled, Emitted, AfterTick
<1>6. CASE UNCHANGED vars
  BY <1>6 DEF vars, webSide
<1> QED
  BY <1>1, <1>2, <1>3, <1>4, <1>5, <1>6 DEF Next, RunnerSteps, RequestSteps, EmitSteps

LEMMA NextPromiseInv == TypeInv /\ PromiseInv /\ [Next]_vars => PromiseInv'
<1> SUFFICES ASSUME TypeInv, PromiseInv, [Next]_vars PROVE PromiseInv'
  OBVIOUS
<1> USE DEF WatchlistIsKept
<1>0. /\ put \in [Clients -> [at : {"idle", "set", "read"}, list : SymbolLists,
                              alone : BOOLEAN]]
      /\ \A c \in Clients : put[c].alone => put[c].at # "idle"
  BY DEF TypeInv, WebOK, PromiseInv
<1>1. ASSUME NEW enabled \in BOOLEAN, Start(enabled) PROVE PromiseInv'
  <2>1. pc = "down" /\ UNCHANGED <<put, promise, row>>
        /\ (pc' # "off" /\ row # NoRow => symbols' = row)
    BY <1>1 DEF Start
  <2>2. \A c \in Clients : ~put[c].alone
    BY <2>1 DEF PromiseInv
  <2> QED
    BY <2>1, <2>2 DEF PromiseInv, NoPromise
<1>2. CASE Vanish
  <2>1. put' = [c \in Clients |-> Idle] /\ pc' = "down" /\ UNCHANGED <<row, promise>>
    BY <1>2 DEF Vanish
  <2> QED
    BY <2>1 DEF PromiseInv, Idle
<1>3. CASE UNCHANGED webSide /\ (pc' = pc \/ {pc, pc'} \cap {"down", "off"} = {})
  <2>1. UNCHANGED <<row, symbols, put, promise>>
        /\ (pc \in {"down", "off"} <=> pc' \in {"down", "off"})
    BY <1>3 DEF webSide
  <2> QED
    BY <2>1 DEF PromiseInv
<1>4. ASSUME NEW c \in Clients, PutReads(c) PROVE PromiseInv'
  <2>1. /\ put[c].at = "set" /\ UNCHANGED <<row, symbols, pc, promise>>
        /\ put' = [put EXCEPT ![c].at = "read", ![c].list = symbols]
    BY <1>4 DEF PutReads
  <2>2. /\ put'[c].at = "read" /\ put'[c].list = symbols /\ put'[c].alone = put[c].alone
        /\ \A d \in Clients : d # c => put'[d] = put[d]
    BY <1>0, <2>1
  <2>3. promise = NoPromise
    BY <2>1 DEF PromiseInv
  <2> QED
    BY <1>0, <2>1, <2>2, <2>3 DEF PromiseInv
<1>5. ASSUME NEW c \in Clients, PutStores(c) \/ PutFails(c) PROVE PromiseInv'
  <2>1. /\ put[c].at = "read" /\ UNCHANGED <<symbols, pc>>
        /\ put' = [put EXCEPT ![c] = Idle]
        /\ \/ promise' = promise
           \/ put[c].alone /\ promise' = put[c].list /\ row' = put[c].list
    BY <1>5 DEF PutStores, PutFails
  <2>2. /\ put'[c].at = "idle" /\ put'[c].alone = FALSE
        /\ \A d \in Clients : d # c => put'[d] = put[d]
    BY <1>0, <2>1 DEF Idle
  <2>3. promise = NoPromise
    BY <2>1 DEF PromiseInv
  <2>4. CASE put[c].alone /\ promise' = put[c].list /\ row' = put[c].list
    BY <1>0, <2>1, <2>2, <2>4 DEF PromiseInv
  <2>5. CASE promise' = NoPromise
    BY <1>0, <2>1, <2>2, <2>5 DEF PromiseInv
  <2> QED
    BY <2>1, <2>3, <2>4, <2>5
<1>6. ASSUME NEW c \in Clients, NEW list \in Lists, PutSets(c, list) PROVE PromiseInv'
  <2> DEFINE alone == pc # "off" /\ \A o \in Clients : put[o].at = "idle"
  <2>1. /\ put[c].at = "idle" /\ pc # "down" /\ pc' = pc /\ promise' = NoPromise
        /\ put' = [d \in Clients |->
                     IF d = c THEN [at |-> "set", list |-> <<>>, alone |-> alone]
                     ELSE [put[d] EXCEPT !.alone = FALSE]]
    BY <1>6 DEF PutSets, Serving
  <2>2. /\ put'[c].at = "set" /\ put'[c].alone = alone
        /\ \A d \in Clients : d # c => put'[d].alone = FALSE /\ put'[d].at = put[d].at
    BY <1>0, <2>1
  <2> QED
    BY <1>0, <2>1, <2>2 DEF PromiseInv
<1> QED
  BY <1>1, <1>2, <1>3, <1>4, <1>5, <1>6, WebSteps

\* The list of the last request that was answered undisturbed is the one polled
\* and the one stored, for any number of clients and whatever restarts.
THEOREM WatchlistsAreKept == Spec => []WatchlistIsKept
<1>1. Init => PromiseInv
  BY DEF Init, Idle, PromiseInv, WatchlistIsKept
<1>2. PromiseInv => WatchlistIsKept
  BY DEF PromiseInv
<1> QED
  BY InitTypeInv, NextTypeInv, NextPromiseInv, <1>1, <1>2, PTL DEF Spec

-----------------------------------------------------------------------------
(* A tick runs down.                                                       *)

\* What every step within a tick does, unless it is another actor's.
StepRunsDown ==
  {pc, pc'} \subseteq InTick /\ UNCHANGED <<webSide, world>> => RunsDown /\ pc' # "tick"

\* A step that hands one quote on, or ends the tick.
LEMMA EmitRunsDown ==
  ASSUME TypeInv, EmitSteps
  PROVE  StepRunsDown
<1>1. pc = "emit" /\ quotes # <<>> /\ quotes \in QuoteLists /\ UNCHANGED fetch
  BY EmitFacts
<1>2. CASE quotes' = Tail(quotes) /\ pc' = pc
  <2>1. Len(quotes') < Len(quotes)
    BY <1>1, <1>2, HeadTailProperties, EmptySeq DEF QuoteLists
  <2> QED
    BY <1>1, <1>2, <2>1 DEF StepRunsDown, RunsDown, fetch
<1>3. CASE pc' \in {"wait", "ended"}
  BY <1>3 DEF StepRunsDown, InTick
<1> QED
  BY <1>2, <1>3
  DEF EmitSteps, DropStaleQuote, SkipUnchanged, IngestQuote, IngestFails,
      IngestIsCancelled, Emitted, AfterTick

\* The clients, the clock and the signals are not the runner.
LEMMA OthersAreSeen ==
  ASSUME TypeInv,
         \/ Terminate \/ ClockTicks
         \/ \E c \in Clients : PutReads(c) \/ PutStores(c) \/ PutFails(c)
         \/ \E c \in Clients, list \in Lists : PutSets(c, list)
  PROVE  ~UNCHANGED <<webSide, world>>
<1>1. /\ now \in Nat /\ crashes \in Nat /\ puts \in Nat
      /\ put \in [Clients -> [at : {"idle", "set", "read"}, list : SymbolLists, alone : BOOLEAN]]
  BY DEF TypeInv, WorldOK, WebOK
<1>2. CASE Terminate \/ ClockTicks
  BY <1>1, <1>2 DEF Terminate, ClockTicks, world
<1>3. ASSUME NEW c \in Clients, PutReads(c) \/ PutStores(c) \/ PutFails(c)
      PROVE  put' # put
  <2>1. CASE PutReads(c)
    <3>1. put[c].at = "set" /\ put'[c].at = "read"
      BY <1>1, <2>1 DEF PutReads
    <3> QED
      BY <3>1
  <2>2. CASE PutStores(c) \/ PutFails(c)
    <3>1. put[c].at = "read" /\ put'[c].at = "idle"
      BY <1>1, <2>2 DEF PutStores, PutFails, Idle
    <3> QED
      BY <3>1
  <2> QED
    BY <1>3, <2>1, <2>2
<1>4. ASSUME NEW c \in Clients, NEW list \in Lists, PutSets(c, list)
      PROVE  puts' # puts
  BY <1>1, <1>4 DEF PutSets
<1> QED
  BY <1>2, <1>3, <1>4 DEF webSide

LEMMA NextRunsDown ==
  ASSUME TypeInv, [Next]_vars
  PROVE  StepRunsDown \/ UNCHANGED vars
<1>0. /\ provider \in Nat /\ attempt \in Nat
  BY FeedConstants DEF TypeInv, RunnerOK
<1>1. CASE (\E enabled \in BOOLEAN : Start(enabled)) \/ Crash \/ Exit
  BY <1>1 DEF Start, Crash, Exit, Vanish, StepRunsDown, InTick
<1>2. CASE \/ Terminate \/ ClockTicks
           \/ \E c \in Clients : PutReads(c) \/ PutStores(c) \/ PutFails(c)
           \/ \E c \in Clients, list \in Lists : PutSets(c, list)
  BY <1>2, OthersAreSeen DEF StepRunsDown
<1>3. CASE BeginTick
  BY <1>3 DEF BeginTick, Ask, StepRunsDown, RunsDown
<1>4. CASE FetchSucceeds \/ FetchIsRetried
  BY <1>4 DEF FetchSucceeds, FetchIsRetried, fetch, tick, StepRunsDown, RunsDown, Turn
<1>5. CASE Backoff
  BY <1>0, <1>5 DEF Backoff, StepRunsDown, RunsDown
<1>6. CASE ProviderFails
  <2>1. CASE Ask(provider + 1)
    BY <1>0, <2>1 DEF Ask, StepRunsDown, RunsDown
  <2>2. CASE \E seen \in {FALSE, cancelled} : AfterTick(seen)
    BY <2>2 DEF AfterTick, StepRunsDown, InTick
  <2> QED
    BY <1>6, <2>1, <2>2 DEF ProviderFails
<1>7. CASE EmitSteps
  BY <1>7, EmitRunsDown
<1>8. CASE TickSucceeds
  BY <1>8 DEF TickSucceeds, AfterTick, StepRunsDown, InTick
<1>9. CASE TickerFires \/ LoopEnds
  BY <1>9 DEF TickerFires, LoopEnds, StepRunsDown, InTick
<1> QED
  BY <1>1, <1>2, <1>3, <1>4, <1>5, <1>6, <1>7, <1>8, <1>9
  DEF Next, RunnerSteps, RequestSteps, EmitSteps

\* Retries and failover end: together with the bounds of TypeCorrect every tick
\* has a last step, for any number of providers, retries and symbols.
THEOREM TicksEnd == Spec => TicksRunDown
<1>1. TypeInv /\ [Next]_vars
        => [({pc, pc'} \subseteq InTick /\ UNCHANGED <<webSide, world>>)
              => RunsDown /\ pc' # "tick"]_vars
  BY NextRunsDown DEF StepRunsDown
<1> QED
  BY <1>1, InitTypeInv, NextTypeInv, PTL DEF Spec, TicksRunDown
=============================================================================
