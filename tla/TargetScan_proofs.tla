------------------------- MODULE TargetScan_proofs -------------------------
(***************************************************************************)
(* Theorems about the scan of a target and its score, for every client,    *)
(* sweep, pool of stacks and path, and every way a connection may be       *)
(* disturbed.  First the score, for every result a scan can derive.        *)
(***************************************************************************)
EXTENDS TargetScan, Probes_proofs, FiniteSetTheorems, WellFoundedInduction

Result ==
  [ reachable : BOOLEAN, hybrid_supported : BOOLEAN, hybrid_preferred : BOOLEAN,
    supported_groups : SUBSET InfoGroups, protocols : [TlsVersion -> Known],
    large_clienthello_suspected : BOOLEAN, certificate : Certificate ]

\* Each clause stays below its ceiling, and the points for the key exchange
\* tell which of the three postures was found.
LEMMA KeyExchangePoints ==
  ASSUME NEW r \in Result
  PROVE  /\ r.hybrid_preferred => KeyExchange(r).points = 60
         /\ ~r.hybrid_preferred /\ r.hybrid_supported => KeyExchange(r).points = 40
         /\ ~r.hybrid_preferred /\ ~r.hybrid_supported => KeyExchange(r).points \in {0, 10}
<1>1. r.hybrid_preferred \in BOOLEAN /\ r.hybrid_supported \in BOOLEAN
  BY DEF Result
<1>2. CASE r.hybrid_preferred
  BY <1>1, <1>2 DEF KeyExchange, Clause, MAX_KEX
<1>3. CASE ~r.hybrid_preferred /\ r.hybrid_supported
  BY <1>1, <1>3 DEF KeyExchange, Clause
<1>4. CASE ~r.hybrid_preferred /\ ~r.hybrid_supported
  BY <1>1, <1>4 DEF KeyExchange, Clause
<1> QED
  BY <1>1, <1>2, <1>3, <1>4

LEMMA HygienePoints ==
  ASSUME NEW r \in Result
  PROVE  /\ ProtocolHygiene(r).points \in 0 .. MAX_PROTOCOL
         /\ Interop(r).points \in 0 .. MAX_INTEROP
         /\ CertificateHygiene(r).points \in 0 .. MAX_CERT
<1>1. ProtocolHygiene(r).points \in 0 .. MAX_PROTOCOL
  BY DEF ProtocolHygiene, Clause, MAX_PROTOCOL
<1>2. Interop(r).points \in 0 .. MAX_INTEROP
  BY DEF Interop, Clause, MAX_INTEROP
<1>3. CertificateHygiene(r).points \in 0 .. MAX_CERT
  BY DEF CertificateHygiene, Clause, MAX_CERT
<1> QED
  BY <1>1, <1>2, <1>3

LEMMA ScoreIsSum ==
  ASSUME NEW r \in Result, r.reachable
  PROVE  /\ score_target(r).score = KeyExchange(r).points + ProtocolHygiene(r).points
                                    + Interop(r).points + CertificateHygiene(r).points
         /\ score_target(r).grade = _grade(score_target(r).score)
  BY DEF score_target

\* The four components sum to a score between 0 and 100.
THEOREM ScoreRange == \A r \in Result : score_target(r).score \in 0 .. 100
<1> SUFFICES ASSUME NEW r \in Result PROVE score_target(r).score \in 0 .. 100
  OBVIOUS
<1>1. CASE ~r.reachable
  BY <1>1 DEF score_target
<1>2. CASE r.reachable
  <2>1. r.hybrid_preferred \in BOOLEAN /\ r.hybrid_supported \in BOOLEAN
    BY DEF Result
  <2>2. KeyExchange(r).points \in 0 .. 60
    BY <2>1, KeyExchangePoints
  <2> QED
    BY <1>2, <2>2, HygienePoints, ScoreIsSum DEF MAX_PROTOCOL, MAX_INTEROP, MAX_CERT
<1> QED
  BY <1>1, <1>2

\* Key exchange dominates: full marks for everything else do not lift a
\* target without any hybrid group above C, nor one that supports a hybrid
\* group and does not prefer it above B.
THEOREM KeyExchangeDominates ==
  \A r \in Result :
    /\ score_target(r).grade = "A" => r.hybrid_preferred
    /\ score_target(r).grade = "B" => r.hybrid_preferred \/ r.hybrid_supported
<1> SUFFICES ASSUME NEW r \in Result
             PROVE  /\ score_target(r).grade = "A" => r.hybrid_preferred
                    /\ score_target(r).grade = "B" => r.hybrid_preferred \/ r.hybrid_supported
  OBVIOUS
<1> DEFINE score == score_target(r).score
<1>1. score \in Int
  BY ScoreRange
<1>2. /\ _grade(score) = "A" => score >= 85
      /\ _grade(score) = "B" => score >= 70
  BY <1>1 DEF _grade
<1>3. CASE ~r.reachable
  BY <1>3 DEF score_target
<1>4. CASE r.reachable
  <2>1. r.hybrid_preferred \in BOOLEAN /\ r.hybrid_supported \in BOOLEAN
    BY DEF Result
  <2>2. /\ ~r.hybrid_preferred => score <= 80
        /\ ~r.hybrid_preferred /\ ~r.hybrid_supported => score <= 50
    BY <1>4, <2>1, KeyExchangePoints, HygienePoints, ScoreIsSum
       DEF MAX_PROTOCOL, MAX_INTEROP, MAX_CERT
  <2>3. score_target(r).grade = _grade(score)
    BY <1>4, ScoreIsSum
  <2> QED
    BY <1>1, <1>2, <2>1, <2>2, <2>3
<1> QED
  BY <1>3, <1>4

\* The component view never understates a target: the points for the key
\* exchange and for interoperability are those of the score, and the score is
\* at most the sum of the four components.
THEOREM BreakdownBoundsScore ==
  \A r \in Result : r.reachable =>
    LET of == score_breakdown(r)
    IN  /\ of.key_exchange = KeyExchange(r).points /\ of.interop = Interop(r).points
        /\ score_target(r).score <= of.key_exchange + of.protocol + of.interop + of.certificate
<1> SUFFICES ASSUME NEW r \in Result, r.reachable
             PROVE  /\ score_breakdown(r).key_exchange = KeyExchange(r).points
                    /\ score_breakdown(r).interop = Interop(r).points
                    /\ score_target(r).score
                         <= score_breakdown(r).key_exchange + score_breakdown(r).protocol
                            + score_breakdown(r).interop + score_breakdown(r).certificate
  OBVIOUS
<1>1. /\ r.hybrid_preferred \in BOOLEAN /\ r.hybrid_supported \in BOOLEAN
      /\ r.large_clienthello_suspected \in BOOLEAN
  BY DEF Result
<1>2. score_breakdown(r).key_exchange = KeyExchange(r).points
  <2>1. CASE r.hybrid_preferred
    BY <2>1, <1>1 DEF score_breakdown, KeyExchange, Clause
  <2>2. CASE ~r.hybrid_preferred /\ r.hybrid_supported
    BY <2>2, <1>1 DEF score_breakdown, KeyExchange, Clause
  <2>3. CASE ~r.hybrid_preferred /\ ~r.hybrid_supported
    BY <2>3, <1>1 DEF score_breakdown, KeyExchange, Clause
  <2> QED
    BY <1>1, <2>1, <2>2, <2>3
<1>3. score_breakdown(r).interop = Interop(r).points
  BY <1>1 DEF score_breakdown, Interop, Clause
<1>4. /\ score_breakdown(r).protocol = MAX_PROTOCOL
      /\ score_breakdown(r).certificate = MAX_CERT
  BY DEF score_breakdown
<1>5. KeyExchange(r).points \in 0 .. 60
  BY <1>1, KeyExchangePoints
<1>6. /\ ProtocolHygiene(r).points \in 0 .. 20
      /\ Interop(r).points \in 0 .. 10
      /\ CertificateHygiene(r).points \in 0 .. 10
  BY HygienePoints DEF MAX_PROTOCOL, MAX_INTEROP, MAX_CERT
<1>7. score_target(r).score = KeyExchange(r).points + ProtocolHygiene(r).points
                              + Interop(r).points + CertificateHygiene(r).points
  BY ScoreIsSum
<1>8. score_target(r).score
        <= score_breakdown(r).key_exchange + score_breakdown(r).protocol
           + score_breakdown(r).interop + score_breakdown(r).certificate
  <2>1. /\ score_breakdown(r).protocol = 20 /\ score_breakdown(r).certificate = 10
        /\ score_breakdown(r).key_exchange \in Int /\ score_breakdown(r).interop \in Int
    BY <1>2, <1>3, <1>4, <1>5, <1>6 DEF MAX_PROTOCOL, MAX_CERT
  <2> QED
    BY <2>1, <1>2, <1>3, <1>5, <1>6, <1>7
<1> QED
  BY <1>2, <1>3, <1>8

-----------------------------------------------------------------------------
(* The catalog                                                             *)

Standard ==
  { GroupSpec("X25519MLKEM768",     "hybrid",       1216),
    GroupSpec("SecP256r1MLKEM768",  "hybrid",       1249),
    GroupSpec("SecP384r1MLKEM1024", "hybrid",       1665),
    GroupSpec("MLKEM512",           "pure_pq",       800),
    GroupSpec("MLKEM768",           "pure_pq",      1184),
    GroupSpec("MLKEM1024",          "pure_pq",      1568),
    GroupSpec("X25519",             "classical_ec",   32),
    GroupSpec("secp256r1",          "classical_ec",   65),
    GroupSpec("secp384r1",          "classical_ec",   97),
    GroupSpec("secp521r1",          "classical_ec",  133),
    GroupSpec("X448",               "classical_ec",   56),
    GroupSpec("ffdhe2048",          "classical_ff",  256),
    GroupSpec("ffdhe3072",          "classical_ff",  384) }

Drafts ==
  { GroupSpec("X25519Kyber768Draft00",    "hybrid", 1216),
    GroupSpec("SecP256r1Kyber768Draft00", "hybrid", 1249),
    GroupSpec("x25519_kyber768",          "hybrid", 1216) }

IsSequence(s) == \E S : s \in Seq(S)

LEMMA Joined ==
  ASSUME NEW a, NEW b, IsSequence(a), IsSequence(b)
  PROVE  /\ IsSequence(a \o b) /\ Len(a) \in Nat /\ Len(b) \in Nat
         /\ Len(a \o b) = Len(a) + Len(b) /\ DOMAIN (a \o b) = 1 .. Len(a) + Len(b)
         /\ DOMAIN a = 1 .. Len(a) /\ DOMAIN b = 1 .. Len(b)
         /\ \A i \in 1 .. Len(a) : (a \o b)[i] = a[i]
         /\ \A i \in 1 .. Len(b) : (a \o b)[Len(a) + i] = b[i]
<1>1. PICK S : a \in Seq(S)
  BY DEF IsSequence
<1>2. PICK T : b \in Seq(T)
  BY DEF IsSequence
<1> DEFINE U == S \cup T
<1>3. a \in Seq(U) /\ b \in Seq(U)
  BY <1>1, <1>2
<1> HIDE DEF U
<1>4. a \o b \in Seq(U)
  BY <1>3
<1>5. /\ Len(a) \in Nat /\ Len(b) \in Nat
      /\ Len(a \o b) = Len(a) + Len(b) /\ DOMAIN (a \o b) = 1 .. Len(a) + Len(b)
      /\ DOMAIN a = 1 .. Len(a) /\ DOMAIN b = 1 .. Len(b)
      /\ \A i \in 1 .. Len(a) : (a \o b)[i] = a[i]
      /\ \A i \in 1 .. Len(b) : (a \o b)[Len(a) + i] = b[i]
  BY <1>3
<1> QED
  BY <1>4, <1>5 DEF IsSequence

LEMMA JoinedSet ==
  ASSUME NEW a, NEW b, IsSequence(a), IsSequence(b)
  PROVE  ToSet(a \o b) = ToSet(a) \cup ToSet(b)
<1> DEFINE c == a \o b
<1>1. /\ Len(a) \in Nat /\ Len(b) \in Nat /\ DOMAIN c = 1 .. Len(a) + Len(b)
      /\ DOMAIN a = 1 .. Len(a) /\ DOMAIN b = 1 .. Len(b)
      /\ \A i \in 1 .. Len(a) : c[i] = a[i]
      /\ \A i \in 1 .. Len(b) : c[Len(a) + i] = b[i]
  BY Joined
<1> HIDE DEF c
<1>2. ASSUME NEW k \in DOMAIN c
      PROVE  c[k] \in ToSet(a) \cup ToSet(b)
  <2>1. CASE k \in 1 .. Len(a)
    BY <1>1, <2>1 DEF ToSet
  <2>2. CASE k \notin 1 .. Len(a)
    <3>1. k - Len(a) \in 1 .. Len(b) /\ Len(a) + (k - Len(a)) = k
      BY <1>1, <2>2
    <3> QED
      BY <1>1, <3>1 DEF ToSet
  <2> QED
    BY <2>1, <2>2
<1>3. \A i \in 1 .. Len(a) : i \in DOMAIN c
  BY <1>1
<1>4. \A i \in 1 .. Len(b) : Len(a) + i \in DOMAIN c
  BY <1>1
<1>5. ToSet(a) \cup ToSet(b) \subseteq ToSet(c)
  BY <1>1, <1>3, <1>4 DEF ToSet
<1>6. ToSet(c) \subseteq ToSet(a) \cup ToSet(b)
  BY <1>2 DEF ToSet
<1> QED
  BY <1>5, <1>6 DEF c

LEMMA CatalogIs ==
  ToSet(GROUP_CATALOG) = Standard /\ BY_NAME = Standard \cup Drafts
<1>1. ToSet(GROUP_CATALOG) = Standard
  BY DEF ToSet, GROUP_CATALOG, Standard
<1>2. ToSet(LEGACY_HYBRID_ALIASES) = Drafts
  BY DEF ToSet, LEGACY_HYBRID_ALIASES, Drafts
<1>3. GROUP_CATALOG \in Seq(Standard) /\ IsSequence(GROUP_CATALOG)
  <2>1. GROUP_CATALOG \in Seq(Standard)
    BY DEF GROUP_CATALOG, Standard
  <2> QED
    BY <2>1 DEF IsSequence
<1>4. LEGACY_HYBRID_ALIASES \in Seq(Drafts) /\ IsSequence(LEGACY_HYBRID_ALIASES)
  <2>1. LEGACY_HYBRID_ALIASES \in Seq(Drafts)
    BY DEF LEGACY_HYBRID_ALIASES, Drafts
  <2> QED
    BY <2>1 DEF IsSequence
<1>5. BY_NAME = ToSet(GROUP_CATALOG) \cup ToSet(LEGACY_HYBRID_ALIASES)
  BY <1>3, <1>4, JoinedSet DEF BY_NAME
<1> QED
  BY <1>1, <1>2, <1>5

\* The catalog is a table: a name has one entry.  Drafts have large key shares.
NotGroups == {"__default__", "__certificate__", "__realistic__", None} \cup TlsVersion

LEMMA Catalog ==
  /\ \A g, h \in BY_NAME : g.name = h.name => g = h
  /\ \A g \in BY_NAME :
       g.key_share_bytes \in Nat /\ g.key_share_bytes > 0 /\ g.key_share_bytes < 10000
  /\ \A g \in BY_NAME : g.name \notin NotGroups
  /\ \A g \in BY_NAME : g.key_share_bytes < 300 => g \in ToSet(GROUP_CATALOG)
<1>1. \A g, h \in Standard \cup Drafts : g.name = h.name => g = h
  BY DEF Standard, Drafts, GroupSpec
<1>2. \A g \in Standard \cup Drafts :
       g.key_share_bytes \in Nat /\ g.key_share_bytes > 0 /\ g.key_share_bytes < 10000
  BY DEF Standard, Drafts, GroupSpec
<1>3. \A g \in Standard \cup Drafts : g.name \notin NotGroups
  BY DEF Standard, Drafts, GroupSpec, NotGroups, TlsVersion, None
<1>4. \A g \in Drafts : ~(g.key_share_bytes < 300)
  BY DEF Drafts, GroupSpec
<1> QED
  BY <1>1, <1>2, <1>3, <1>4, CatalogIs

\* What is read off the catalog by name.
LEMMA CatalogLookup ==
  /\ \A g \in BY_NAME : Listed(g.name) /\ SpecOf(g.name) = g
  /\ \A n : Listed(n) => SpecOf(n) \in BY_NAME /\ SpecOf(n).name = n
  /\ kind_of(None) # "hybrid"
<1>1. \A n : Listed(n) => SpecOf(n) \in BY_NAME /\ SpecOf(n).name = n
  BY DEF Listed, SpecOf
<1>2. \A g \in BY_NAME : Listed(g.name)
  BY DEF Listed
<1>3. ~Listed(None)
  BY Catalog DEF Listed, NotGroups
<1>4. \A g \in BY_NAME : SpecOf(g.name) = g
  BY <1>1, <1>2, Catalog
<1>5. kind_of(None) = None
  BY <1>3 DEF kind_of
<1> QED
  BY <1>1, <1>2, <1>4, <1>5 DEF None

-----------------------------------------------------------------------------
(* The connections of a sweep                                              *)

Swept == ToSet(Groups)

LEMMA GroupsAreGroups ==
  /\ Swept \subseteq InfoGroups
  /\ \A g \in InfoGroups : g \notin NotGroups /\ SpecOf(g) \in BY_NAME /\ SpecOf(g).name = g
<1>1. Swept \subseteq InfoGroups
  BY TargetAssumption DEF Swept, ToSet
<1>2. \A g \in InfoGroups : SpecOf(g) \in BY_NAME /\ SpecOf(g).name = g
  BY TargetAssumption, CatalogLookup
<1> QED
  BY <1>1, <1>2, Catalog

Opening == <<"__default__", "__certificate__", "__realistic__">>

LEMMA SequencesSwept ==
  /\ IsSequence(Opening) /\ Len(Opening) = 3
  /\ Opening[1] = "__default__" /\ Opening[2] = "__certificate__"
  /\ Opening[3] = "__realistic__"
  /\ IsSequence(Groups)
  /\ IsSequence(Versions) /\ Len(Versions) \in {2, 4}
  /\ \A k \in 1 .. Len(Versions) : Versions[k] \in TlsVersion
<1>1. Opening \in Seq({"__default__", "__certificate__", "__realistic__"})
  BY DEF Opening
<1>2. /\ Len(Opening) = 3
      /\ Opening[1] = "__default__" /\ Opening[2] = "__certificate__"
      /\ Opening[3] = "__realistic__"
  BY DEF Opening
<1>3. <<"tls1_3", "tls1_2">> \in Seq(TlsVersion)
  BY DEF TlsVersion
<1>4. <<"tls1_3", "tls1_2", "tls1_1", "tls1_0">> \in Seq(TlsVersion)
  BY DEF TlsVersion
<1>5. Versions \in Seq(TlsVersion) /\ Len(Versions) \in {2, 4}
  BY <1>3, <1>4 DEF Versions
<1> QED
  BY <1>1, <1>2, <1>5, TargetAssumption DEF IsSequence

\* The shape of three sequences in a row.
LEMMA JoinedTwice ==
  ASSUME NEW a, NEW b, NEW c, IsSequence(a), IsSequence(b), IsSequence(c),
         NEW d, d = a \o b \o c
  PROVE  /\ Len(a) \in Nat /\ Len(b) \in Nat /\ Len(c) \in Nat
         /\ Len(d) = Len(a) + Len(b) + Len(c) /\ DOMAIN d = 1 .. Len(a) + Len(b) + Len(c)
         /\ \A k \in 1 .. Len(a) : d[k] = a[k]
         /\ \A k \in 1 .. Len(b) : d[Len(a) + k] = b[k]
         /\ \A k \in 1 .. Len(c) : d[Len(a) + Len(b) + k] = c[k]
<1> DEFINE e == a \o b
<1>1. /\ IsSequence(e) /\ Len(a) \in Nat /\ Len(b) \in Nat
      /\ Len(e) = Len(a) + Len(b)
      /\ \A i \in 1 .. Len(a) : e[i] = a[i]
      /\ \A i \in 1 .. Len(b) : e[Len(a) + i] = b[i]
  BY Joined
<1>2. d = e \o c
  OBVIOUS
<1> HIDE DEF e
<1>3. /\ Len(c) \in Nat /\ Len(d) = Len(e) + Len(c) /\ DOMAIN d = 1 .. Len(e) + Len(c)
      /\ \A i \in 1 .. Len(e) : d[i] = e[i]
      /\ \A i \in 1 .. Len(c) : d[Len(e) + i] = c[i]
  BY <1>1, <1>2, Joined
<1> QED
  BY <1>1, <1>3

LEMMA ConnectionsShape ==
  /\ Len(Connections) \in Nat /\ Len(Connections) > 3
  /\ DOMAIN Connections = 1 .. Len(Connections)
  /\ Connections[1] = "__default__" /\ Connections[2] = "__certificate__"
  /\ Connections[3] = "__realistic__"
  /\ \A k \in DOMAIN Connections : k > 3 => Connections[k] \in Swept \cup TlsVersion
  /\ \A g \in Swept : \E k \in DOMAIN Connections : Connections[k] = g
<1> DEFINE n == Len(Groups)
           m == Len(Versions)
<1>1. Connections = Opening \o Groups \o Versions
  BY DEF Connections, Opening
<1>2. /\ n \in Nat /\ m \in {2, 4} /\ Len(Opening) = 3
      /\ Len(Connections) = 3 + n + m /\ DOMAIN Connections = 1 .. 3 + n + m
      /\ \A k \in 1 .. 3 : Connections[k] = Opening[k]
      /\ \A k \in 1 .. n : Connections[3 + k] = Groups[k]
      /\ \A k \in 1 .. m : Connections[3 + n + k] = Versions[k]
  <2>1. IsSequence(Opening) /\ IsSequence(Groups) /\ IsSequence(Versions)
    BY SequencesSwept
  <2>2. /\ Len(Groups) \in Nat /\ Len(Opening) \in Nat
        /\ Len(Connections) = Len(Opening) + Len(Groups) + Len(Versions)
        /\ DOMAIN Connections = 1 .. Len(Opening) + Len(Groups) + Len(Versions)
    BY <1>1, <2>1, JoinedTwice
  <2>3. \A k \in 1 .. Len(Opening) : Connections[k] = Opening[k]
    BY <1>1, <2>1, JoinedTwice
  <2>4. \A k \in 1 .. Len(Groups) : Connections[Len(Opening) + k] = Groups[k]
    BY <1>1, <2>1, JoinedTwice
  <2>5. \A k \in 1 .. Len(Versions) : Connections[Len(Opening) + Len(Groups) + k] = Versions[k]
    BY <1>1, <2>1, JoinedTwice
  <2>6. Len(Opening) = 3 /\ Len(Versions) \in {2, 4}
    BY SequencesSwept
  <2> HIDE DEF n, m
  <2> QED
    BY <2>2, <2>3, <2>4, <2>5, <2>6 DEF n, m
<1>3. DOMAIN Groups = 1 .. n
  BY TargetAssumption
<1> HIDE DEF n, m
<1>4. Len(Connections) \in Nat /\ Len(Connections) > 3
  BY <1>2
<1>5. ASSUME NEW k \in DOMAIN Connections, k > 3
      PROVE  Connections[k] \in Swept \cup TlsVersion
  <2>1. k \in 1 .. 3 + n + m
    BY <1>2
  <2>2. CASE k <= 3 + n
    <3>1. k - 3 \in 1 .. n /\ 3 + (k - 3) = k
      BY <1>2, <1>5, <2>1, <2>2
    <3>2. Connections[k] = Groups[k - 3]
      BY <1>2, <3>1
    <3> QED
      BY <1>3, <3>1, <3>2 DEF Swept, ToSet
  <2>3. CASE k > 3 + n
    <3>1. k - 3 - n \in 1 .. m /\ 3 + n + (k - 3 - n) = k
      BY <1>2, <2>1, <2>3
    <3>2. Connections[k] = Versions[k - 3 - n]
      BY <1>2, <3>1
    <3> QED
      BY <3>1, <3>2, SequencesSwept DEF m
  <2> QED
    BY <1>2, <2>1, <2>2, <2>3
<1>6. ASSUME NEW g \in Swept
      PROVE  \E k \in DOMAIN Connections : Connections[k] = g
  <2>1. PICK i \in 1 .. n : Groups[i] = g
    BY <1>3 DEF Swept, ToSet
  <2>2. 3 + i \in DOMAIN Connections
    BY <1>2
  <2> QED
    BY <1>2, <2>1, <2>2
<1> QED
  BY <1>2, <1>4, <1>5, <1>6, SequencesSwept

-----------------------------------------------------------------------------
(* What a connection tells                                                 *)

Silent == {"transport_failed", "timeout"}

\* Every set of numbers that is not empty has a least element.
LEMMA LeastElement ==
  ASSUME NEW S \in SUBSET Nat, S # {}
  PROVE  \E x \in S : \A y \in S : x <= y
<1>1. IsWellFoundedOn({p \in Nat \X Nat : p[1] < p[2]}, Nat)
  BY NatLessThanWellFounded DEF OpToRel
<1>2. PICK x \in S : \A y \in S : <<y, x>> \notin {p \in Nat \X Nat : p[1] < p[2]}
  BY <1>1, WFMin
<1>3. \A y \in S : ~(y < x)
  <2>1. ASSUME NEW y \in S, y < x PROVE FALSE
    <3>1. <<y, x>> \in {p \in Nat \X Nat : p[1] < p[2]}
      BY <2>1
    <3> QED
      BY <1>2, <3>1
  <2> QED
    BY <2>1
<1> QED
  BY <1>3

\* A stack that completes a hello picks a group it has and the hello offers.
LEMMA Picked ==
  ASSUME NEW s \in TargetStack, NEW hello, Pick(s, hello) # None
  PROVE  /\ Pick(s, hello) \in ToSet(s.groups) \cap hello.offered
         /\ "tls1_3" \in hello.versions \cap s.versions
<1> DEFINE common == { i \in DOMAIN s.groups : s.groups[i] \in hello.offered }
<1>1. common # {} /\ "tls1_3" \in hello.versions \cap s.versions
  BY DEF Pick
<1>2. DOMAIN s.groups \subseteq Nat
  BY DEF TargetStack
<1>3. \E i \in common : \A j \in common : i <= j
  BY <1>1, <1>2, LeastElement
<1>4. PICK i \in common : Pick(s, hello) = s.groups[i]
  BY <1>1, <1>3 DEF Pick
<1> QED
  BY <1>1, <1>4 DEF ToSet

\* A stack takes a group by itself exactly if it has it, given that the
\* client has TLS 1.3 at all.
LEMMA TakesGroup ==
  ASSUME NEW s \in TargetStack, NEW g, g # None
  PROVE  Completes(s, GroupClient(g)) <=>
           "tls1_3" \in LocalVersions /\ Speak13(s) /\ g \in ToSet(s.groups)
<1> DEFINE hello == GroupClient(g)
<1>1. hello.versions = {"tls1_3"} \cap LocalVersions /\ hello.offered = {g}
  BY DEF GroupClient, Hello
<1>2. ASSUME Completes(s, hello)
      PROVE  "tls1_3" \in LocalVersions /\ Speak13(s) /\ g \in ToSet(s.groups)
  <2>1. "tls1_3" \in s.versions \cap LocalVersions /\ Pick(s, hello) # None
    BY <1>1, <1>2 DEF Completes
  <2>2. Pick(s, hello) \in ToSet(s.groups) \cap {g}
    BY <1>1, <2>1, Picked
  <2> QED
    BY <2>1, <2>2 DEF Speak13
<1>3. ASSUME "tls1_3" \in LocalVersions, Speak13(s), g \in ToSet(s.groups)
      PROVE  Completes(s, hello)
  <2> DEFINE common == { j \in DOMAIN s.groups : s.groups[j] \in {g} }
  <2>1. common # {} /\ common \in SUBSET Nat
    BY <1>3 DEF ToSet, TargetStack
  <2>2. \E j \in common : \A k \in common : j <= k
    BY <2>1, LeastElement
  <2>3. Pick(s, hello) = s.groups[CHOOSE j \in common : \A k \in common : j <= k]
    BY <1>1, <1>3, <2>1 DEF Pick, Speak13
  <2>4. Pick(s, hello) = g
    BY <2>2, <2>3
  <2> QED
    BY <1>1, <1>3, <2>4 DEF Completes, Speak13
<1> QED
  BY <1>2, <1>3

\* What is recorded of each kind of transcript.
LEMMA Recorded ==
  /\ OutcomeOf(Killed(None, FALSE)) = "timeout"
  /\ VersionAnswer(Killed(None, FALSE)) = "unknown"
  /\ Killed(None, FALSE).cert = None
  /\ \A g, c : LET t == Transcript(FALSE, 0, TRUE, {}, g, c)
              IN  /\ OutcomeOf(t) = "supported" /\ VersionAnswer(t) = "yes"
                  /\ t.negotiated = g /\ t.cert = c
  /\ \A rc, marks :
       /\ Failed(rc, marks).cert = None
       /\ VersionAnswer(Failed(rc, marks)) =
            IF OutcomeOf(Failed(rc, marks)) = "client_unsupported" \/ "no_protocols" \in marks
            THEN "unknown" ELSE "no"
BY DEF OutcomeOf, VersionAnswer, Killed, Failed, Transcript

LEMMA FailureAnswers ==
  /\ VersionAnswer(Failed(1, {"reset"})) = "no"
  /\ VersionAnswer(Failed(1, {"refused"})) = "no"
  /\ VersionAnswer(Failed(1, {"resolver"})) = "no"
  /\ VersionAnswer(Failed(1, {"option"})) = "unknown"
  /\ VersionAnswer(Failed(-1, {})) = "no"
  /\ VersionAnswer(Failed(0, {})) = "no"
  /\ VersionAnswer(Failed(1, {"alert"})) = "no"
  /\ VersionAnswer(Failed(1, {"alert_protocol_version"})) = "no"
  /\ VersionAnswer(NoProtocols) = "unknown"
BY Recorded, FailureOutcomes DEF NoProtocols

LEMMA ReplyShape ==
  ASSUME NEW s, NEW hello, NEW t \in Replies(s, hello)
  PROVE  \/ Swallowed(hello) /\ t \in {Killed(None, FALSE), Failed(1, {"reset"})}
         \/ /\ ~Swallowed(hello) /\ Completes(s, hello)
            /\ t = Transcript(FALSE, 0, TRUE, {}, Pick(s, hello), s.cert)
         \/ /\ ~Swallowed(hello) /\ ~Completes(s, hello)
            /\ hello.versions = {} /\ t = NoProtocols
         \/ /\ ~Swallowed(hello) /\ ~Completes(s, hello) /\ hello.versions # {}
            /\ t \in {Failed(1, {"alert_protocol_version"}), Failed(1, {"alert"})}
<1>0. hello.versions = {} => ~Swallowed(hello) /\ ~Completes(s, hello)
  BY DEF Swallowed, Large, Completes
<1>1. CASE Swallowed(hello)
  BY <1>0, <1>1 DEF Replies
<1>2. CASE ~Swallowed(hello) /\ Completes(s, hello)
  BY <1>0, <1>2 DEF Replies
<1>3. CASE hello.versions = {}
  BY <1>0, <1>3 DEF Replies
<1>4. CASE ~Swallowed(hello) /\ ~Completes(s, hello) /\ hello.versions # {}
  BY <1>4 DEF Replies
<1> QED
  BY <1>1, <1>2, <1>3, <1>4

LEMMA UpsetShape ==
  ASSUME NEW f \in Faults, NEW t \in Upset(f)
  PROVE  \/ f = "stall" /\ t = Killed(None, FALSE)
         \/ f = "reset" /\ t = Failed(1, {"reset"})
         \/ f = "refused" /\ t = Failed(1, {"refused"})
         \/ f = "dns" /\ t = Failed(1, {"resolver"})
         \/ f = "option" /\ t = Failed(1, {"option"})
         \/ f = "no_protocols" /\ t = NoProtocols
         \/ f = "spawn" /\ t = Failed(-1, {})
         \/ f = "close" /\ t = Failed(0, {})
<1>1. f \in FaultKinds
  BY TargetAssumption
<1>2. ~Accepts([speaks |-> "nothing"], <<>>)
  BY DEF Accepts
<1>3. CASE f = "stall"
  BY <1>2, <1>3 DEF Upset, Disturbed
<1>4. CASE f # "stall"
  BY <1>1, <1>4 DEF Upset, Disturbed, FaultKinds
<1> QED
  BY <1>3, <1>4

UpsetsOK ==
  IsFiniteSet(upsets) /\ Cardinality(upsets) \in Nat /\ Cardinality(upsets) <= MaxFaults

\* t is what a connection for probe left behind.
Heard(probe, hello, t) ==
  \E s \in pool :
    \/ t \in Replies(s, hello) /\ upsets' = upsets
    \/ /\ Cardinality(upsets) < MaxFaults
       /\ \E f \in Faults : t \in Upset(f) /\ upsets' = upsets \cup {<<probe, f>>}

\* What the outcome of a probe tells of the pool, the path and the faults.
Told(probe, hello, outcome) ==
  /\ outcome = "supported" => \E s \in pool : Completes(s, hello)
  /\ outcome \in Silent =>
       \/ Swallowed(hello)
       \/ \E u \in upsets : u[1] = probe /\ u[2] \in {"stall", "reset", "spawn"}
  /\ upsets = {} /\ Swallowed(hello) => outcome \in Silent
  /\ upsets = {} /\ ~Swallowed(hello) /\ (\A s \in pool : Completes(s, hello))
       => outcome = "supported"

\* The faults that are not taken for an answer about a version.
Untold == {"stall", "option", "no_protocols"}

\* What may be concluded from a transcript.
Explained(probe, hello, t) ==
  LET outcome == OutcomeOf(t)
      answer == VersionAnswer(t)
  IN  /\ outcome \in Outcome /\ answer \in Known
      /\ t.cert \in DOMAIN Certificates \cup {None}
      /\ outcome = "supported" =>
           \E s \in pool : Completes(s, hello) /\ t.negotiated = Pick(s, hello)
      /\ outcome \in Silent =>
           \/ Swallowed(hello)
           \/ \E u \in upsets' : u[1] = probe /\ u[2] \in {"stall", "reset", "spawn"}
      /\ upsets' = {} /\ Swallowed(hello) => outcome \in Silent
      /\ upsets' = {} /\ ~Swallowed(hello) /\ (\A s \in pool : Completes(s, hello))
           => outcome = "supported"
      /\ answer = "yes" => \E s \in pool : Completes(s, hello)
      /\ answer = "no" =>
           \/ hello.versions # {} /\ \E s \in pool : ~Completes(s, hello)
           \/ Swallowed(hello)
           \/ \E u \in upsets' : u[1] = probe /\ u[2] \notin Untold
      /\ upsets \subseteq upsets'
      /\ UpsetsOK'

LEMMA HeardIsExplained ==
  ASSUME UpsetsOK, NEW probe, NEW hello, NEW t, pool \subseteq TargetStack, Heard(probe, hello, t)
  PROVE  Explained(probe, hello, t)
<1>1. PICK s \in pool :
        \/ t \in Replies(s, hello) /\ upsets' = upsets
        \/ /\ Cardinality(upsets) < MaxFaults
           /\ \E f \in Faults : t \in Upset(f) /\ upsets' = upsets \cup {<<probe, f>>}
  BY DEF Heard
<1>2. CASE t \in Replies(s, hello) /\ upsets' = upsets
  <2>1. UpsetsOK'
    BY <1>2 DEF UpsetsOK
  <2>2. CASE Swallowed(hello) /\ t \in {Killed(None, FALSE), Failed(1, {"reset"})}
    <3>1. /\ OutcomeOf(t) \in {"timeout", "transport_failed"}
          /\ VersionAnswer(t) \in {"unknown", "no"} /\ t.cert = None
      <4>1. CASE t = Killed(None, FALSE)
        BY <4>1, Recorded
      <4>2. CASE t = Failed(1, {"reset"})
        <5>1. t.cert = None
          BY <4>2, Recorded
        <5> QED
          BY <4>2, <5>1, FailureOutcomes, FailureAnswers
      <4> QED
        BY <2>2, <4>1, <4>2
    <3>2. /\ OutcomeOf(t) \in Outcome \cap Silent /\ OutcomeOf(t) # "supported"
          /\ VersionAnswer(t) \in Known /\ VersionAnswer(t) # "yes"
      BY <3>1 DEF Silent, Known, Outcome
    <3> QED
      BY <1>2, <2>1, <2>2, <3>1, <3>2 DEF Explained
  <2>3. CASE /\ ~Swallowed(hello) /\ Completes(s, hello)
             /\ t = Transcript(FALSE, 0, TRUE, {}, Pick(s, hello), s.cert)
    <3>1. s.cert \in DOMAIN Certificates
      BY DEF TargetStack
    <3>2. /\ OutcomeOf(t) = "supported" /\ VersionAnswer(t) = "yes"
          /\ t.negotiated = Pick(s, hello) /\ t.cert = s.cert
      BY <2>3, Recorded
    <3>3. \E r \in pool : Completes(r, hello) /\ t.negotiated = Pick(r, hello)
      BY <2>3, <3>2
    <3>4. t.cert \in DOMAIN Certificates \cup {None}
      BY <3>1, <3>2
    <3>5. OutcomeOf(t) \in Outcome \ Silent /\ VersionAnswer(t) \in Known \ {"no"}
      BY <3>2 DEF Silent, Known, Outcome
    <3>6. \E r \in pool : Completes(r, hello)
      BY <3>3
    <3>7. ~Swallowed(hello) /\ upsets \subseteq upsets'
      BY <1>2, <2>3
    <3>8. OutcomeOf(t) = "supported" /\ VersionAnswer(t) # "no"
      BY <3>2
    <3> QED
      BY <2>1, <3>3, <3>4, <3>5, <3>6, <3>7, <3>8 DEF Explained
  <2>4. CASE /\ ~Swallowed(hello) /\ ~Completes(s, hello) /\ hello.versions # {}
             /\ t \in {Failed(1, {"alert_protocol_version"}), Failed(1, {"alert"})}
    BY <1>2, <2>1, <2>4, Recorded, FailureOutcomes
       DEF Explained, Silent, Known, Outcome
  <2>5. CASE /\ ~Swallowed(hello) /\ ~Completes(s, hello)
             /\ hello.versions = {} /\ t = NoProtocols
    <3>1. t.cert = None
      BY <2>5, Recorded DEF NoProtocols
    <3>2. OutcomeOf(t) = "protocol_unsupported" /\ VersionAnswer(t) = "unknown"
      BY <2>5, FailureOutcomes, FailureAnswers
    <3> QED
      BY <1>2, <2>1, <2>5, <3>1, <3>2 DEF Explained, Silent, Known, Outcome
  <2> QED
    BY <1>2, <2>2, <2>3, <2>4, <2>5, ReplyShape
<1>3. ASSUME NEW f \in Faults, Cardinality(upsets) < MaxFaults,
             t \in Upset(f), upsets' = upsets \cup {<<probe, f>>}
      PROVE  Explained(probe, hello, t)
  <2>1. UpsetsOK'
    <3>1. IsFiniteSet(upsets \cup {<<probe, f>>})
      BY FS_AddElement DEF UpsetsOK
    <3>2. Cardinality(upsets \cup {<<probe, f>>}) \in {Cardinality(upsets), Cardinality(upsets) + 1}
      BY FS_AddElement DEF UpsetsOK
    <3> QED
      BY <1>3, <3>1, <3>2, TargetAssumption DEF UpsetsOK
  <2>2. upsets \subseteq upsets' /\ upsets' # {}
    BY <1>3
  <2>3. \E u \in upsets' : u[1] = probe /\ u[2] = f
    <3> DEFINE u == <<probe, f>>
    <3>1. u \in upsets' /\ u[1] = probe /\ u[2] = f
      BY <1>3
    <3> QED
      BY <3>1
  <2>4. /\ OutcomeOf(t) \in Outcome \ {"supported"}
        /\ OutcomeOf(t) \in Silent => f \in {"stall", "reset", "spawn"}
        /\ VersionAnswer(t) \in {"no", "unknown"}
        /\ VersionAnswer(t) = "no" => f \notin Untold
        /\ t.cert = None
    <3>1. \/ f = "stall" /\ OutcomeOf(t) = "timeout" /\ VersionAnswer(t) = "unknown"
          \/ f = "reset" /\ OutcomeOf(t) = "transport_failed" /\ VersionAnswer(t) = "no"
          \/ f = "refused" /\ OutcomeOf(t) = "connect_refused" /\ VersionAnswer(t) = "no"
          \/ f = "dns" /\ OutcomeOf(t) = "dns_failed" /\ VersionAnswer(t) = "no"
          \/ f = "option" /\ OutcomeOf(t) = "client_unsupported" /\ VersionAnswer(t) = "unknown"
          \/ f = "no_protocols" /\ OutcomeOf(t) = "protocol_unsupported"
             /\ VersionAnswer(t) = "unknown"
          \/ f = "spawn" /\ OutcomeOf(t) = "transport_failed" /\ VersionAnswer(t) = "no"
          \/ f = "close" /\ OutcomeOf(t) = "error" /\ VersionAnswer(t) = "no"
      <4>1. \/ f = "stall" /\ t = Killed(None, FALSE)
            \/ f = "reset" /\ t = Failed(1, {"reset"})
            \/ f = "refused" /\ t = Failed(1, {"refused"})
            \/ f = "dns" /\ t = Failed(1, {"resolver"})
            \/ f = "option" /\ t = Failed(1, {"option"})
            \/ f = "no_protocols" /\ t = NoProtocols
            \/ f = "spawn" /\ t = Failed(-1, {})
            \/ f = "close" /\ t = Failed(0, {})
        BY <1>3, UpsetShape
      <4>2. CASE f = "stall" /\ t = Killed(None, FALSE)
        BY <4>2, Recorded
      <4>3. CASE f = "reset" /\ t = Failed(1, {"reset"})
        BY <4>3, FailureAnswers, FailureOutcomes
      <4>4. CASE f = "refused" /\ t = Failed(1, {"refused"})
        BY <4>4, FailureAnswers, FailureOutcomes
      <4>5. CASE f = "dns" /\ t = Failed(1, {"resolver"})
        BY <4>5, FailureAnswers, FailureOutcomes
      <4>6. CASE f = "option" /\ t = Failed(1, {"option"})
        BY <4>6, FailureAnswers, FailureOutcomes
      <4>7. CASE f = "spawn" /\ t = Failed(-1, {})
        BY <4>7, FailureAnswers, FailureOutcomes
      <4>8. CASE f = "close" /\ t = Failed(0, {})
        BY <4>8, FailureAnswers, FailureOutcomes
      <4>9. CASE f = "no_protocols" /\ t = NoProtocols
        BY <4>9, FailureAnswers, FailureOutcomes
      <4> QED
        BY <4>1, <4>2, <4>3, <4>4, <4>5, <4>6, <4>7, <4>8, <4>9
    <3>2. t.cert = None
      <4>1. t = Killed(None, FALSE) \/ \E rc, marks : t = Failed(rc, marks)
        BY <1>3, UpsetShape DEF NoProtocols
      <4>2. Killed(None, FALSE).cert = None /\ \A rc, marks : Failed(rc, marks).cert = None
        BY Recorded
      <4> QED
        BY <4>1, <4>2
    <3> QED
      BY <3>1, <3>2 DEF Silent, Outcome, Untold
  <2> QED
    BY <2>1, <2>2, <2>3, <2>4 DEF Explained, Known
<1> QED
  BY <1>1, <1>2, <1>3

LEMMA DefaultProbed ==
  ASSUME probe_default
  PROVE  \E t :
           /\ Heard("__default__", DefaultClient, t)
           /\ probes' = Append(probes, ProbeResult("__default__", t))
           /\ default_group' = ProbeResult("__default__", t).negotiated_group
           /\ at' = IF ProbeResult("__default__", t).outcome = "supported" THEN at + 1 ELSE at + 2
BY DEF probe_default, Connect, Heard, DefaultClient

LEMMA CertificateRead ==
  ASSUME _absorb_certificate
  PROVE  \E t :
           /\ Heard("__certificate__", DefaultClient, t)
           /\ certificate' = IF t.timed_out THEN certificate ELSE t.cert
BY DEF _absorb_certificate, Connect, Heard, DefaultClient

LEMMA RealisticProbed ==
  ASSUME probe_realistic
  PROVE  \E t :
           /\ Heard("__realistic__", RealisticClient, t)
           /\ probes' = Append(probes, ProbeResult("__realistic__", t))
           /\ realistic_group' = ProbeResult("__realistic__", t).negotiated_group
BY DEF probe_realistic, Connect, Heard, RealisticClient

LEMMA GroupProbed ==
  ASSUME probe_group
  PROVE  \E t :
           /\ Heard(Connections[at], GroupClient(Connections[at]), t)
           /\ probes' = Append(probes, ProbeResult(Connections[at], t))
BY DEF probe_group, Connect, Heard, GroupClient

LEMMA VersionProbed ==
  ASSUME probe_protocols
  PROVE  \E t :
           /\ Heard(Connections[at], VersionClient(Connections[at]), t)
           /\ protocols' = [protocols EXCEPT ![Connections[at]] = VersionAnswer(t)]
BY DEF probe_protocols, Connect, Heard, VersionClient

-----------------------------------------------------------------------------
(* The inductive invariant                                                 *)

ProbeRecord ==
  [ group : Swept \cup {"__default__", "__realistic__"}, outcome : Outcome,
    negotiated_group : DefaultOffer \cup InfoGroups \cup REALISTIC_GROUP_LIST \cup {None} ]

TypesInv ==
  /\ pool \in Pools /\ path \in Paths
  /\ phase \in {"resolve", "sweep", "done", "raised"}
  /\ at \in 1 .. Len(Connections) + 1
  /\ probes \in Seq(ProbeRecord)
  /\ certificate \in DOMAIN Certificates \cup {None}
  /\ protocols \in [TlsVersion -> Known]
  /\ UpsetsOK

\* Nothing is scored before the end, and the score is that of the result.
VerdictInv ==
  /\ phase = "done" <=> verdict # <<>>
  /\ verdict # <<>> => verdict = <<score_target(_derive)>>

\* A group that was negotiated is the pick of a member for that client.
PickedBy(offer, g) == \E s \in pool : Speak13(s) /\ Pick(s, Hello({"tls1_3"}, offer)) = g

PosturesInv ==
  /\ \/ default_group = None
     \/ default_group \in DefaultOffer /\ PickedBy(DefaultOffer, default_group)
  /\ \/ realistic_group = None
     \/ /\ realistic_group \in RealisticHello(InfoGroups).offered
        /\ PickedBy(RealisticHello(InfoGroups).offered, realistic_group)

\* What the outcome of the probe of a group says of the pool, the path and
\* what was disturbed.
GroupProbesInv ==
  \A i \in DOMAIN probes :
    probes[i].group \in Swept =>
      Told(probes[i].group, GroupClient(probes[i].group), probes[i].outcome)

\* The groups whose turn has passed were probed, and a target is scored only
\* when every turn has passed, unless its name did not resolve.
SweepInv ==
  /\ phase = "resolve" => probes = <<>>
  /\ probes = <<>> => at = 1
  /\ phase = "done" => probes = <<>> \/ at > Len(Connections)
  /\ \A k \in DOMAIN Connections :
       k < at /\ Connections[k] \in Swept => \E i \in DOMAIN probes : probes[i].group = Connections[k]

TargetInv ==
  /\ TypesInv /\ VerdictInv /\ PosturesInv /\ GroupProbesInv /\ SweepInv
  /\ VersionsHaveCause

-----------------------------------------------------------------------------
(* Every step preserves it                                                 *)

\* Where in the sweep a connection stands.
LEMMA Positions ==
  ASSUME at \in 1 .. Len(Connections) + 1, at <= Len(Connections)
  PROVE  /\ at \in DOMAIN Connections
         /\ Connections[at] = "__default__" => at = 1
         /\ Connections[at] = "__certificate__" => at = 2
         /\ Connections[at] = "__realistic__" => at = 3
         /\ Connections[at] \in TlsVersion => Connections[at] \notin Swept
         /\ \A k \in 1 .. 3 : Connections[k] \notin Swept
<1>1. \A k \in DOMAIN Connections : k > 3 => Connections[k] \in Swept \cup TlsVersion
  BY ConnectionsShape
<1>2. \A g \in Swept : g \notin NotGroups
  BY GroupsAreGroups
<1>3. /\ "__default__" \in NotGroups \ TlsVersion /\ "__certificate__" \in NotGroups \ TlsVersion
      /\ "__realistic__" \in NotGroups \ TlsVersion /\ TlsVersion \subseteq NotGroups
  BY DEF NotGroups, TlsVersion
<1>4. at \in DOMAIN Connections
  BY ConnectionsShape
<1>5. CASE at > 3
  BY <1>1, <1>2, <1>3, <1>4, <1>5, ConnectionsShape
<1>6. CASE at <= 3
  <2>1. at \in {1, 2, 3}
    BY <1>6
  <2> QED
    BY <1>2, <1>3, <1>4, <2>1, ConnectionsShape
<1> QED
  BY <1>5, <1>6

\* A group that was negotiated was picked by a member, whatever else the
\* client offered.
LEMMA Negotiated ==
  ASSUME pool \subseteq TargetStack, NEW probe, NEW hello, NEW t,
         Explained(probe, hello, t), NEW g, g = ProbeResult(probe, t).negotiated_group
  PROVE  g # None =>
           /\ g \in hello.offered
           /\ hello.versions \subseteq LocalVersions => PickedBy(hello.offered, g)
<1> SUFFICES ASSUME g # None
             PROVE  /\ g \in hello.offered
                    /\ hello.versions \subseteq LocalVersions => PickedBy(hello.offered, g)
  OBVIOUS
<1>1. OutcomeOf(t) = "supported" /\ g = t.negotiated
  BY DEF ProbeResult, _result_from_output
<1>2. PICK s \in pool : g = Pick(s, hello)
  BY <1>1 DEF Explained
<1>3. s \in TargetStack /\ Pick(s, hello) # None
  BY <1>2
<1>4. g \in hello.offered /\ "tls1_3" \in hello.versions \cap s.versions
  BY <1>2, <1>3, Picked
<1>5. hello.versions \subseteq LocalVersions =>
        Pick(s, Hello({"tls1_3"}, hello.offered)) = Pick(s, hello)
  BY <1>4 DEF Pick, Hello
<1> QED
  BY <1>2, <1>4, <1>5 DEF PickedBy, Speak13

LEMMA ClientsAreLocal ==
  /\ DefaultClient.versions \subseteq LocalVersions
  /\ RealisticClient.versions \subseteq LocalVersions
BY DEF DefaultClient, RealisticClient, Hello

LEMMA ExplainedIsTold ==
  ASSUME NEW probe, NEW hello, NEW t, Explained(probe, hello, t), UNCHANGED <<pool, path>>
  PROVE  Told(probe, hello, OutcomeOf(t))'
BY DEF Explained, Told, Swallowed

LEMMA ToldStays ==
  ASSUME NEW probe, NEW hello, NEW outcome, Told(probe, hello, outcome),
         UNCHANGED <<pool, path>>, upsets \subseteq upsets'
  PROVE  Told(probe, hello, outcome)'
BY DEF Told, Swallowed

LEMMA PosturesStay ==
  ASSUME PosturesInv, UNCHANGED <<pool, default_group, realistic_group>>
  PROVE  PosturesInv'
BY DEF PosturesInv, PickedBy

LEMMA VersionsStay ==
  ASSUME VersionsHaveCause, UNCHANGED <<pool, path, protocols>>, upsets \subseteq upsets'
  PROVE  VersionsHaveCause'
BY DEF VersionsHaveCause, Swallowed

LEMMA DeriveStays ==
  ASSUME UNCHANGED <<probes, default_group, realistic_group, certificate, protocols>>
  PROVE  _derive' = _derive
BY DEF _derive, Supported, supported_groups, _suspect_large_ch, Catalogued

LEMMA ProbesStay ==
  ASSUME GroupProbesInv, UNCHANGED <<pool, path, probes>>, upsets \subseteq upsets'
  PROVE  GroupProbesInv'
BY DEF GroupProbesInv, Told, Swallowed

\* One more probe.
LEMMA OneMoreProbe ==
  ASSUME TypesInv, GroupProbesInv, UNCHANGED <<pool, path>>, upsets \subseteq upsets',
         NEW r \in ProbeRecord, probes' = Append(probes, r),
         r.group \in Swept => Told(r.group, GroupClient(r.group), r.outcome)'
  PROVE  /\ probes' \in Seq(ProbeRecord) /\ probes' # <<>>
         /\ DOMAIN probes \subseteq DOMAIN probes'
         /\ \A i \in DOMAIN probes : probes'[i] = probes[i]
         /\ \E i \in DOMAIN probes' : probes'[i] = r
         /\ GroupProbesInv'
<1>1. probes \in Seq(ProbeRecord)
  BY DEF TypesInv
<1>2. /\ probes' \in Seq(ProbeRecord) /\ Len(probes') = Len(probes) + 1
      /\ DOMAIN probes = 1 .. Len(probes) /\ DOMAIN probes' = 1 .. Len(probes) + 1
      /\ \A i \in 1 .. Len(probes) : probes'[i] = probes[i]
      /\ probes'[Len(probes) + 1] = r /\ Len(probes) \in Nat
  BY <1>1
<1>3. ASSUME NEW i \in DOMAIN probes', probes'[i].group \in Swept
      PROVE  Told(probes[i].group, GroupClient(probes[i].group), probes[i].outcome)'
  <2>1. CASE i \in DOMAIN probes
    <3>1. Told(probes[i].group, GroupClient(probes[i].group), probes[i].outcome)
      BY <1>2, <1>3, <2>1 DEF GroupProbesInv
    <3>2. probes'[i] = probes[i]
      BY <1>2, <2>1
    <3> QED
      BY <3>1, <3>2 DEF Told, Swallowed
  <2>2. CASE i \notin DOMAIN probes
    <3>1. probes'[i] = r
      BY <1>2, <2>2
    <3>2. Told(r.group, GroupClient(r.group), r.outcome)'
      BY <1>3, <3>1
    <3> QED
      BY <3>1, <3>2 DEF Told, Swallowed
  <2> QED
    BY <2>1, <2>2
<1>4. GroupProbesInv'
  BY <1>3 DEF GroupProbesInv
<1>5. probes' # <<>>
  BY <1>2
<1> QED
  BY <1>2, <1>4, <1>5

LEMMA TargetInit == Init => TargetInv
<1> SUFFICES ASSUME Init PROVE TargetInv
  OBVIOUS
<1>1. UpsetsOK
  BY FS_EmptySet, TargetAssumption DEF Init, UpsetsOK
<1>2. 1 \in 1 .. Len(Connections) + 1
  BY ConnectionsShape
<1>3. protocols \in [TlsVersion -> Known] /\ \A v \in TlsVersion : protocols[v] = "unknown"
  BY DEF Init, Known
<1>4. TypesInv
  BY <1>1, <1>2, <1>3 DEF Init, TypesInv
<1>5. VerdictInv /\ PosturesInv
  BY DEF Init, VerdictInv, PosturesInv
<1>6. GroupProbesInv
  BY DEF Init, GroupProbesInv
<1>7. SweepInv
  BY ConnectionsShape DEF Init, SweepInv
<1>8. VersionsHaveCause
  BY <1>3 DEF VersionsHaveCause
<1> QED
  BY <1>4, <1>5, <1>6, <1>7, <1>8 DEF TargetInv

\* What every connection of the sweep leaves alone or keeps.
LEMMA SweepStep ==
  ASSUME TargetInv, phase = "sweep", UNCHANGED <<pool, path, phase, verdict>>,
         NEW probe, NEW hello, NEW t, Heard(probe, hello, t)
  PROVE  /\ Explained(probe, hello, t) /\ pool \subseteq TargetStack
         /\ upsets \subseteq upsets' /\ UpsetsOK' /\ VerdictInv'
<1>1. pool \subseteq TargetStack
  BY TargetAssumption DEF TargetInv, TypesInv
<1>2. UpsetsOK
  BY DEF TargetInv, TypesInv
<1>3. Explained(probe, hello, t)
  BY <1>1, <1>2, HeardIsExplained
<1>4. upsets \subseteq upsets' /\ UpsetsOK'
  BY <1>3 DEF Explained
<1>5. VerdictInv'
  BY DEF TargetInv, VerdictInv
<1> QED
  BY <1>1, <1>3, <1>4, <1>5

LEMMA AProbeRecord ==
  ASSUME NEW probe, NEW hello, NEW t, Explained(probe, hello, t), pool \subseteq TargetStack,
         probe \in Swept \cup {"__default__", "__realistic__"},
         hello.offered \subseteq DefaultOffer \cup InfoGroups \cup REALISTIC_GROUP_LIST
  PROVE  /\ ProbeResult(probe, t) \in ProbeRecord
         /\ ProbeResult(probe, t).group = probe
         /\ ProbeResult(probe, t).outcome = OutcomeOf(t)
<1> DEFINE g == ProbeResult(probe, t).negotiated_group
<1>1. g # None => g \in hello.offered
  BY Negotiated
<1>2. OutcomeOf(t) \in Outcome
  BY DEF Explained
<1>3. ProbeResult(probe, t) = [group |-> probe, outcome |-> OutcomeOf(t), negotiated_group |-> g]
  BY DEF ProbeResult, _result_from_output
<1> HIDE DEF g
<1> QED
  BY <1>1, <1>2, <1>3 DEF ProbeRecord

LEMMA RealisticOffer ==
  RealisticHello(InfoGroups).offered \subseteq REALISTIC_GROUP_LIST
BY DEF RealisticHello, REALISTIC_GROUP_LIST

LEMMA TargetDefault ==
  ASSUME TargetInv, probe_default
  PROVE  TargetInv'
<1>1. PICK t :
        /\ Heard("__default__", DefaultClient, t)
        /\ probes' = Append(probes, ProbeResult("__default__", t))
        /\ default_group' = ProbeResult("__default__", t).negotiated_group
        /\ at' = IF ProbeResult("__default__", t).outcome = "supported" THEN at + 1 ELSE at + 2
  BY DefaultProbed
<1>2. /\ phase = "sweep" /\ at <= Len(Connections) /\ Connections[at] = "__default__"
      /\ UNCHANGED <<pool, path, phase, realistic_group, certificate, protocols, verdict>>
  BY DEF probe_default, Sweeping
<1>3. /\ Explained("__default__", DefaultClient, t) /\ pool \subseteq TargetStack
      /\ upsets \subseteq upsets' /\ UpsetsOK' /\ VerdictInv'
  BY <1>1, <1>2, SweepStep
<1>4. DefaultClient.offered = DefaultOffer
  BY DEF DefaultClient, Hello
<1> DEFINE r == ProbeResult("__default__", t)
<1>5. r \in ProbeRecord /\ r.group = "__default__"
  BY <1>3, <1>4, AProbeRecord
<1>6. r.group \notin Swept
  BY <1>5, GroupsAreGroups DEF NotGroups
<1>7. /\ probes' \in Seq(ProbeRecord) /\ probes' # <<>> /\ GroupProbesInv'
      /\ DOMAIN probes \subseteq DOMAIN probes'
      /\ \A i \in DOMAIN probes : probes'[i] = probes[i]
  BY <1>1, <1>2, <1>3, <1>5, <1>6, OneMoreProbe DEF TargetInv
<1>8. at = 1 /\ at' \in {2, 3}
  BY <1>1, <1>2, Positions DEF TargetInv, TypesInv
<1>9. TypesInv'
  BY <1>2, <1>3, <1>7, <1>8, ConnectionsShape DEF TargetInv, TypesInv
<1>10. PosturesInv'
  <2>1. default_group' # None =>
          default_group' \in DefaultOffer /\ PickedBy(DefaultOffer, default_group')
    BY <1>1, <1>3, <1>4, Negotiated, ClientsAreLocal
  <2> QED
    BY <1>2, <2>1 DEF TargetInv, PosturesInv, PickedBy
<1>11. SweepInv'
  <2>1. \A k \in DOMAIN Connections : k < at' => Connections[k] \notin Swept
    <3>1. \A k \in 1 .. 3 : Connections[k] \notin Swept
      BY <1>2, Positions DEF TargetInv, TypesInv
    <3> QED
      BY <1>8, <3>1, ConnectionsShape
  <2> QED
    BY <1>2, <1>7, <2>1 DEF SweepInv
<1>12. VersionsHaveCause'
  BY <1>2, <1>3, VersionsStay DEF TargetInv
<1> QED
  BY <1>3, <1>7, <1>9, <1>10, <1>11, <1>12 DEF TargetInv

LEMMA TargetCertificate ==
  ASSUME TargetInv, _absorb_certificate
  PROVE  TargetInv'
<1>1. PICK t :
        /\ Heard("__certificate__", DefaultClient, t)
        /\ certificate' = IF t.timed_out THEN certificate ELSE t.cert
  BY CertificateRead
<1>2. /\ phase = "sweep" /\ at <= Len(Connections) /\ Connections[at] = "__certificate__"
      /\ at' = at + 1
      /\ UNCHANGED <<pool, path, phase, probes, default_group, realistic_group, protocols,
                     verdict>>
  BY DEF _absorb_certificate, Sweeping
<1>3. /\ Explained("__certificate__", DefaultClient, t)
      /\ upsets \subseteq upsets' /\ UpsetsOK' /\ VerdictInv'
  BY <1>1, <1>2, SweepStep
<1>4. at = 2 /\ at' = 3
  BY <1>2, Positions DEF TargetInv, TypesInv
<1>5. certificate' \in DOMAIN Certificates \cup {None}
  BY <1>1, <1>3 DEF Explained, TargetInv, TypesInv
<1>6. TypesInv'
  BY <1>2, <1>3, <1>4, <1>5, ConnectionsShape DEF TargetInv, TypesInv
<1>7. PosturesInv' /\ GroupProbesInv' /\ VersionsHaveCause'
  BY <1>2, <1>3, PosturesStay, ProbesStay, VersionsStay DEF TargetInv
<1>8. SweepInv'
  <2>1. \A k \in DOMAIN Connections : k < at' => Connections[k] \notin Swept
    <3>1. \A k \in 1 .. 3 : Connections[k] \notin Swept
      BY <1>2, Positions DEF TargetInv, TypesInv
    <3> QED
      BY <1>4, <3>1, ConnectionsShape
  <2>2. probes # <<>>
    BY <1>4 DEF TargetInv, SweepInv
  <2> QED
    BY <1>2, <2>1, <2>2 DEF SweepInv
<1> QED
  BY <1>3, <1>6, <1>7, <1>8 DEF TargetInv

LEMMA TargetRealistic ==
  ASSUME TargetInv, probe_realistic
  PROVE  TargetInv'
<1>1. PICK t :
        /\ Heard("__realistic__", RealisticClient, t)
        /\ probes' = Append(probes, ProbeResult("__realistic__", t))
        /\ realistic_group' = ProbeResult("__realistic__", t).negotiated_group
  BY RealisticProbed
<1>2. /\ phase = "sweep" /\ at <= Len(Connections) /\ Connections[at] = "__realistic__"
      /\ at' = at + 1
      /\ UNCHANGED <<pool, path, phase, default_group, certificate, protocols, verdict>>
  BY DEF probe_realistic, Sweeping
<1>3. /\ Explained("__realistic__", RealisticClient, t) /\ pool \subseteq TargetStack
      /\ upsets \subseteq upsets' /\ UpsetsOK' /\ VerdictInv'
  BY <1>1, <1>2, SweepStep
<1>4. RealisticClient.offered = RealisticHello(InfoGroups).offered
  BY DEF RealisticClient, Hello
<1> DEFINE r == ProbeResult("__realistic__", t)
<1>5. r \in ProbeRecord /\ r.group = "__realistic__"
  BY <1>3, <1>4, AProbeRecord, RealisticOffer
<1>6. r.group \notin Swept
  BY <1>5, GroupsAreGroups DEF NotGroups
<1>7. /\ probes' \in Seq(ProbeRecord) /\ probes' # <<>> /\ GroupProbesInv'
  BY <1>1, <1>2, <1>3, <1>5, <1>6, OneMoreProbe DEF TargetInv
<1>8. at = 3 /\ at' = 4
  BY <1>2, Positions DEF TargetInv, TypesInv
<1>9. TypesInv'
  BY <1>2, <1>3, <1>7, <1>8, ConnectionsShape DEF TargetInv, TypesInv
<1>10. PosturesInv'
  <2>1. realistic_group' # None =>
          /\ realistic_group' \in RealisticHello(InfoGroups).offered
          /\ PickedBy(RealisticHello(InfoGroups).offered, realistic_group')
    BY <1>1, <1>3, <1>4, Negotiated, ClientsAreLocal
  <2> QED
    BY <1>2, <2>1 DEF TargetInv, PosturesInv, PickedBy
<1>11. SweepInv'
  <2>1. \A k \in DOMAIN Connections : k < at' => Connections[k] \notin Swept
    <3>1. \A k \in 1 .. 3 : Connections[k] \notin Swept
      BY <1>2, Positions DEF TargetInv, TypesInv
    <3> QED
      BY <1>8, <3>1, ConnectionsShape
  <2> QED
    BY <1>2, <1>7, <2>1 DEF SweepInv
<1>12. VersionsHaveCause'
  BY <1>2, <1>3, VersionsStay DEF TargetInv
<1> QED
  BY <1>3, <1>7, <1>9, <1>10, <1>11, <1>12 DEF TargetInv

LEMMA TargetGroup ==
  ASSUME TargetInv, probe_group
  PROVE  TargetInv'
<1> DEFINE g == Connections[at]
           hello == GroupClient(g)
<1>1. PICK t : Heard(g, hello, t) /\ probes' = Append(probes, ProbeResult(g, t))
  BY GroupProbed
<1>2. /\ phase = "sweep" /\ at <= Len(Connections) /\ g \in Swept /\ at' = at + 1
      /\ UNCHANGED <<pool, path, phase, default_group, realistic_group, certificate,
                     protocols, verdict>>
  BY DEF probe_group, Sweeping, Swept
<1>3. /\ Explained(g, hello, t) /\ pool \subseteq TargetStack
      /\ upsets \subseteq upsets' /\ UpsetsOK' /\ VerdictInv'
  BY <1>1, <1>2, SweepStep
<1>4. PICK p : p = g
  OBVIOUS
<1>5. Explained(p, GroupClient(p), t)
  BY <1>3, <1>4
<1> DEFINE r == ProbeResult(p, t)
<1>6. r \in ProbeRecord /\ r.group = p /\ r.outcome = OutcomeOf(t)
  <2>1. GroupClient(p).offered \subseteq DefaultOffer \cup InfoGroups \cup REALISTIC_GROUP_LIST
    BY <1>2, <1>4, GroupsAreGroups DEF GroupClient, Hello
  <2> QED
    BY <1>2, <1>3, <1>4, <1>5, <2>1, AProbeRecord
<1>7. Told(r.group, GroupClient(r.group), r.outcome)'
  <2>1. Told(p, GroupClient(p), OutcomeOf(t))'
    BY <1>2, <1>5, ExplainedIsTold
  <2> QED
    BY <1>6, <2>1
<1>8. /\ probes' \in Seq(ProbeRecord) /\ probes' # <<>> /\ GroupProbesInv'
      /\ DOMAIN probes \subseteq DOMAIN probes'
      /\ \A i \in DOMAIN probes : probes'[i] = probes[i]
      /\ \E i \in DOMAIN probes' : probes'[i] = r
  <2>1. probes' = Append(probes, r)
    BY <1>1, <1>4
  <2> HIDE DEF r
  <2> QED
    BY <1>2, <1>3, <1>6, <1>7, <2>1, OneMoreProbe DEF TargetInv
<1>9. TypesInv'
  BY <1>2, <1>3, <1>8, ConnectionsShape DEF TargetInv, TypesInv
<1>10. PosturesInv' /\ VersionsHaveCause'
  BY <1>2, <1>3, PosturesStay, VersionsStay DEF TargetInv
<1>11. SweepInv'
  <2>1. ASSUME NEW k \in DOMAIN Connections, k < at', Connections[k] \in Swept
        PROVE  \E i \in DOMAIN probes' : probes'[i].group = Connections[k]
    <3>1. CASE k < at
      BY <1>8, <2>1, <3>1 DEF TargetInv, SweepInv
    <3>2. CASE k = at
      BY <1>4, <1>6, <1>8, <3>2
    <3> QED
      BY <1>2, <2>1, <3>1, <3>2, ConnectionsShape DEF TargetInv, TypesInv
  <2> QED
    BY <1>2, <1>8, <2>1 DEF SweepInv
<1> QED
  BY <1>3, <1>8, <1>9, <1>10, <1>11 DEF TargetInv

\* Each version is asked of the target, with what the client has of it.
LEMMA TargetVersion ==
  ASSUME TargetInv, probe_protocols
  PROVE  TargetInv'
<1> DEFINE v == Connections[at]
<1>1. /\ phase = "sweep" /\ at <= Len(Connections) /\ v \in TlsVersion /\ at' = at + 1
      /\ UNCHANGED <<pool, path, phase, probes, default_group, realistic_group,
                     certificate, verdict>>
  BY DEF probe_protocols, Sweeping
<1>2. PICK p : p = v
  OBVIOUS
<1> DEFINE hello == VersionClient(p)
<1>3. /\ upsets \subseteq upsets' /\ UpsetsOK' /\ VerdictInv'
      /\ \E answer \in Known :
           /\ protocols' = [protocols EXCEPT ![p] = answer]
           /\ answer = "yes" => \E s \in pool : Completes(s, hello)
           /\ answer = "no" =>
                \/ hello.versions # {} /\ \E s \in pool : ~Completes(s, hello)
                \/ Swallowed(hello)
                \/ \E u \in upsets' : u[1] = p /\ u[2] \notin Untold
  <2>1. PICK t : /\ Heard(p, hello, t)
                 /\ protocols' = [protocols EXCEPT ![p] = VersionAnswer(t)]
    BY <1>2, VersionProbed
  <2>2. /\ Explained(p, hello, t)
        /\ upsets \subseteq upsets' /\ UpsetsOK' /\ VerdictInv'
    BY <1>1, <2>1, SweepStep
  <2> HIDE DEF hello
  <2> QED
    BY <2>1, <2>2 DEF Explained
<1>4. protocols \in [TlsVersion -> Known] /\ protocols' \in [TlsVersion -> Known]
  BY <1>3 DEF TargetInv, TypesInv
<1>5. TypesInv'
  BY <1>1, <1>3, <1>4, ConnectionsShape DEF TargetInv, TypesInv
<1>6. PosturesInv' /\ GroupProbesInv'
  BY <1>1, <1>3, PosturesStay, ProbesStay DEF TargetInv
<1>7. SweepInv'
  <2>1. at > 3
    <3>1. "__default__" \notin TlsVersion /\ "__certificate__" \notin TlsVersion
          /\ "__realistic__" \notin TlsVersion
      BY DEF TlsVersion
    <3> QED
      BY <1>1, <3>1, ConnectionsShape DEF TargetInv, TypesInv
  <2>2. v \notin Swept
    BY <1>1, Positions DEF TargetInv, TypesInv
  <2>3. ASSUME NEW k \in DOMAIN Connections, k < at', Connections[k] \in Swept
        PROVE  \E i \in DOMAIN probes : probes[i].group = Connections[k]
    <3>1. k < at
      BY <1>1, <2>2, <2>3, ConnectionsShape DEF TargetInv, TypesInv
    <3> QED
      BY <2>3, <3>1 DEF TargetInv, SweepInv
  <2> QED
    BY <1>1, <2>1, <2>3 DEF TargetInv, SweepInv
<1>8. VersionsHaveCause'
  <2>1. ASSUME NEW w \in TlsVersion
        PROVE  /\ protocols'[w] = "yes" => \E s \in pool : w \in s.versions
               /\ protocols'[w] = "no" =>
                    \/ w \in LocalVersions /\ \E s \in pool : ~Completes(s, VersionClient(w))
                    \/ Swallowed(VersionClient(w))
                    \/ \E u \in upsets' : u[1] = w /\ u[2] \notin Untold
    <3>1. CASE w = p
      <4>1. /\ \A s : Completes(s, hello) => p \in s.versions
            /\ hello.versions # {} => p \in LocalVersions
        BY DEF Completes, Hello, VersionClient
      <4> HIDE DEF hello
      <4>2. PICK answer \in Known :
              /\ protocols'[w] = answer
              /\ answer = "yes" => \E s \in pool : Completes(s, hello)
              /\ answer = "no" =>
                   \/ hello.versions # {} /\ \E s \in pool : ~Completes(s, hello)
                   \/ Swallowed(hello)
                   \/ \E u \in upsets' : u[1] = p /\ u[2] \notin Untold
        BY <1>3, <1>4, <3>1
      <4> QED
        BY <3>1, <4>1, <4>2 DEF hello
    <3>2. CASE w # p
      <4>1. protocols'[w] = protocols[w]
        BY <1>3, <1>4, <3>2
      <4> QED
        BY <1>3, <4>1 DEF TargetInv, VersionsHaveCause, Untold
    <3> QED
      BY <3>1, <3>2
  <2> QED
    BY <1>1, <2>1 DEF VersionsHaveCause, Swallowed, Untold
<1> QED
  BY <1>3, <1>5, <1>6, <1>7, <1>8 DEF TargetInv

\* The steps that open no connection.
LEMMA TargetOther ==
  ASSUME TargetInv, ResolveOk \/ ResolveRaises \/ ResolveFails \/ Score \/ UNCHANGED vars
  PROVE  TargetInv'
<1>1. UNCHANGED <<pool, path, at, probes, default_group, realistic_group, certificate,
                  protocols, upsets>>
  BY DEF ResolveOk, ResolveRaises, ResolveFails, Score, vars
<1>2. PosturesInv' /\ GroupProbesInv' /\ VersionsHaveCause'
  BY <1>1, PosturesStay, ProbesStay, VersionsStay DEF TargetInv
<1>3. UpsetsOK'
  BY <1>1 DEF TargetInv, TypesInv, UpsetsOK
<1>4. _derive' = _derive
  BY <1>1, DeriveStays
<1>5. CASE ResolveOk \/ ResolveRaises
  <2>1. phase = "resolve" /\ phase' \in {"sweep", "raised"} /\ verdict' = verdict
    BY <1>5 DEF ResolveOk, ResolveRaises
  <2> QED
    BY <1>1, <1>2, <1>3, <2>1 DEF TargetInv, TypesInv, VerdictInv, SweepInv
<1>6. CASE ResolveFails \/ Score
  <2>1. /\ phase' = "done" /\ verdict' = <<score_target(_derive)>>
        /\ phase = "resolve" \/ at > Len(Connections)
    BY <1>6 DEF ResolveFails, Score
  <2>2. VerdictInv'
    BY <1>4, <2>1 DEF VerdictInv
  <2>3. TypesInv'
    BY <1>1, <1>3, <2>1 DEF TargetInv, TypesInv
  <2>4. SweepInv'
    BY <1>1, <2>1 DEF TargetInv, SweepInv
  <2> QED
    BY <1>2, <2>2, <2>3, <2>4 DEF TargetInv
<1>7. CASE UNCHANGED vars
  <2>1. phase' = phase /\ verdict' = verdict
    BY <1>7 DEF vars
  <2> QED
    BY <1>1, <1>2, <1>3, <1>4, <2>1 DEF TargetInv, TypesInv, VerdictInv, SweepInv
<1> QED
  BY <1>5, <1>6, <1>7

THEOREM TargetInvariant == Spec => []TargetInv
<1>1. ASSUME TargetInv, [Next]_vars PROVE TargetInv'
  BY <1>1, TargetDefault, TargetCertificate, TargetRealistic, TargetGroup, TargetVersion,
     TargetOther DEF Next
<1> QED
  BY <1>1, TargetInit, PTL DEF Spec

-----------------------------------------------------------------------------
(* The theorems                                                            *)

LEMMA DerivedResult ==
  ASSUME TargetInv PROVE _derive \in Result
<1>1. supported_groups \subseteq InfoGroups
  BY GroupsAreGroups DEF supported_groups, Swept
<1>2. protocols \in [TlsVersion -> Known]
  BY DEF TargetInv, TypesInv
<1>3. (IF certificate = None THEN NoCertificate ELSE Certificates[certificate]) \in Certificate
  <2>1. NoCertificate \in Certificate
    BY DEF NoCertificate, Certificate
  <2> QED
    BY <2>1, TargetAssumption DEF TargetInv, TypesInv
<1> DEFINE cert == IF certificate = None THEN NoCertificate ELSE Certificates[certificate]
<1> HIDE DEF cert
<1>4. _suspect_large_ch \in BOOLEAN
  BY DEF _suspect_large_ch
<1>5. cert \in Certificate
  BY <1>3 DEF cert
<1> QED
  BY <1>1, <1>2, <1>4, <1>5 DEF _derive, Result, cert

\* Every field of the record keeps its type, the turn stays within the
\* sweep, no more connections are disturbed than the bound allows, and the
\* score is between 0 and 100.
THEOREM TargetTypes == Spec => []TargetTypeOK
<1>1. TargetInv => TargetTypeOK
  <2> SUFFICES ASSUME TargetInv PROVE TargetTypeOK
    OBVIOUS
  <2>1. \A i \in DOMAIN probes :
          /\ probes[i].group \in Swept \cup {"__default__", "__realistic__"}
          /\ probes[i].outcome \in Outcome
    <3>1. \A i \in DOMAIN probes : probes[i] \in ProbeRecord
      BY DEF TargetInv, TypesInv
    <3> QED
      BY <3>1 DEF ProbeRecord
  <2>2. /\ default_group \in DefaultOffer \cup {None}
        /\ realistic_group \in RealisticHello(InfoGroups).offered \cup {None}
    BY DEF TargetInv, PosturesInv
  <2>3. verdict # <<>> => verdict[1].score \in 0 .. 100
    BY DerivedResult, ScoreRange DEF TargetInv, VerdictInv
  <2> QED
    BY <2>1, <2>2, <2>3 DEF TargetInv, TypesInv, VerdictInv, UpsetsOK, TargetTypeOK, Swept
<1> QED
  BY <1>1, TargetInvariant, PTL

\* A version is reported as accepted only if some member speaks it, and as
\* not accepted only for a reason other than a timeout or the local client.
THEOREM VersionsAreCaused == Spec => []VersionsHaveCause
<1>1. TargetInv => VersionsHaveCause
  BY DEF TargetInv
<1> QED
  BY <1>1, TargetInvariant, PTL

\* What a supported group and a group that was negotiated say of the pool.
LEMMA HybridsFound ==
  ASSUME TargetInv
  PROVE  /\ _derive.hybrid_preferred =>
              \E s \in pool : \E h \in { DefaultOffer, RealisticHello(InfoGroups).offered } :
                /\ Speak13(s) /\ kind_of(Pick(s, Hello({"tls1_3"}, h))) = "hybrid"
                /\ Hybrids(s) # {}
         /\ _derive.hybrid_supported => \E s \in pool : Speak13(s) /\ Hybrids(s) # {}
<1> DEFINE preferred == IF realistic_group # None THEN realistic_group ELSE default_group
           realistic == RealisticHello(InfoGroups).offered
<1>1. pool \subseteq TargetStack
  BY TargetAssumption DEF TargetInv, TypesInv
<1>2. ASSUME _derive.hybrid_preferred
      PROVE  \E s \in pool : \E h \in { DefaultOffer, realistic } :
               /\ Speak13(s) /\ kind_of(Pick(s, Hello({"tls1_3"}, h))) = "hybrid"
               /\ Hybrids(s) # {}
  <2>1. kind_of(preferred) = "hybrid"
    BY <1>2 DEF _derive
  <2>2. preferred # None
    BY <2>1, CatalogLookup
  <2>3. PICK h \in { DefaultOffer, realistic } : PickedBy(h, preferred)
    BY <2>2 DEF TargetInv, PosturesInv
  <2>4. PICK s \in pool : Speak13(s) /\ Pick(s, Hello({"tls1_3"}, h)) = preferred
    BY <2>3 DEF PickedBy
  <2>5. preferred \in ToSet(s.groups)
    BY <1>1, <2>2, <2>4, Picked
  <2>6. Hybrids(s) # {}
    BY <2>1, <2>5 DEF Hybrids
  <2> QED
    BY <2>1, <2>4, <2>6
<1>3. ASSUME _derive.hybrid_supported
      PROVE  \E s \in pool : Speak13(s) /\ Hybrids(s) # {}
  <2>1. PICK i \in DOMAIN probes :
          /\ probes[i].outcome = "supported" /\ probes[i].group \in Swept
          /\ kind_of(probes[i].group) = "hybrid"
    BY <1>3 DEF _derive, supported_groups, Supported, Swept
  <2> DEFINE g == probes[i].group
             hello == GroupClient(g)
  <2>2. PICK s \in pool : Completes(s, hello)
    BY <2>1 DEF TargetInv, GroupProbesInv, Told
  <2>3. "tls1_3" \in s.versions /\ Pick(s, hello) # None
    BY <2>2 DEF Completes, GroupClient, Hello
  <2>4. g \in ToSet(s.groups)
    <3>1. hello.offered = {g}
      BY DEF GroupClient, Hello
    <3>2. Pick(s, hello) \in ToSet(s.groups) \cap hello.offered
      BY <1>1, <2>3, Picked
    <3> QED
      BY <3>1, <3>2
  <2> QED
    BY <2>1, <2>3, <2>4 DEF Speak13, Hybrids
<1> QED
  BY <1>2, <1>3

\* The grade tells the truth about the key exchange: A and B are given only
\* if a member negotiates a hybrid group, A only if one prefers it.
THEOREM GradesTellTruth == Spec => []GradesAreEarned
<1>1. TargetInv => GradesAreEarned
  <2> SUFFICES ASSUME TargetInv, Scored PROVE
           /\ verdict[1].grade \in {"A", "B"} =>
                \E s \in pool : Speak13(s) /\ Hybrids(s) # {}
           /\ verdict[1].grade = "A" =>
                \E s \in pool : \E h \in { DefaultOffer, RealisticHello(InfoGroups).offered } :
                  Speak13(s) /\ kind_of(Pick(s, Hello({"tls1_3"}, h))) = "hybrid"
    BY DEF GradesAreEarned
  <2>1. verdict[1] = score_target(_derive)
    BY DEF TargetInv, VerdictInv, Scored
  <2>2. /\ verdict[1].grade = "A" => _derive.hybrid_preferred
        /\ verdict[1].grade = "B" => _derive.hybrid_preferred \/ _derive.hybrid_supported
    BY <2>1, DerivedResult, KeyExchangeDominates
  <2> QED
    BY <2>2, HybridsFound
<1> QED
  BY <1>1, TargetInvariant, PTL

\* The finding on large ClientHellos is raised exactly for a suspicious result.
LEMMA SuspicionIsFound ==
  ASSUME TargetInv, Scored
  PROVE  Found("LARGE_CLIENTHELLO_INTOLERANCE") <=> _suspect_large_ch
<1> DEFINE code == "LARGE_CLIENTHELLO_INTOLERANCE"
           r == _derive
<1>1. verdict[1] = score_target(r)
  BY DEF TargetInv, VerdictInv, Scored
<1>2. (r.large_clienthello_suspected <=> _suspect_large_ch) /\ (r.reachable <=> Supported # {})
  BY DEF _derive
<1>3. _suspect_large_ch => r.reachable
  BY <1>2 DEF _suspect_large_ch
<1> HIDE DEF r
<1>4. code \in score_target(r).findings <=> r.reachable /\ r.large_clienthello_suspected
  <2>1. CASE ~r.reachable
    BY <2>1 DEF score_target
  <2>2. CASE r.reachable
    <3>1. score_target(r).findings =
            KeyExchange(r).findings \cup ProtocolHygiene(r).findings
            \cup Interop(r).findings \cup CertificateHygiene(r).findings
      BY <2>2 DEF score_target
    <3>2. code \notin KeyExchange(r).findings
      BY DEF KeyExchange, Clause, If
    <3>3. code \notin ProtocolHygiene(r).findings
      BY DEF ProtocolHygiene, Clause, If
    <3>4. code \notin CertificateHygiene(r).findings
      BY DEF CertificateHygiene, Clause, If
    <3>5. code \in Interop(r).findings <=> r.large_clienthello_suspected
      BY DEF Interop, Clause
    <3> QED
      BY <2>2, <3>1, <3>2, <3>3, <3>4, <3>5
  <2> QED
    BY <2>1, <2>2
<1> QED
  BY <1>1, <1>2, <1>3, <1>4 DEF Found

\* LARGE_CLIENTHELLO_INTOLERANCE is never raised without a cause.
THEOREM SuspicionIsCaused == Spec => []SuspicionHasCause
<1>1. TargetInv => SuspicionHasCause
  <2> SUFFICES ASSUME TargetInv, Scored, Found("LARGE_CLIENTHELLO_INTOLERANCE")
               PROVE  \/ path = "swallows_large"
                      \/ \E u \in upsets :
                           /\ u[1] \in Swept /\ LargeShare(u[1])
                           /\ u[2] \in {"stall", "reset", "spawn"}
    BY DEF SuspicionHasCause, Swept
  <2>1. PICK i \in DOMAIN probes :
          /\ probes[i].group \in InfoGroups /\ Catalogued(i, 1000, 10000)
          /\ probes[i].outcome \in Silent
    BY SuspicionIsFound DEF _suspect_large_ch, Silent
  <2> DEFINE g == probes[i].group
             hello == GroupClient(g)
  <2>2. g \in Swept
    <3>1. probes[i] \in ProbeRecord
      BY <2>1 DEF TargetInv, TypesInv
    <3> QED
      BY <2>1, <3>1, GroupsAreGroups DEF ProbeRecord, NotGroups
  <2>3. Swallowed(hello) \/ \E u \in upsets : u[1] = g /\ u[2] \in {"stall", "reset", "spawn"}
    BY <2>1, <2>2 DEF TargetInv, GroupProbesInv, Told
  <2>4. LargeShare(g)
    <3>1. PICK c \in ToSet(GROUP_CATALOG) : c.name = g /\ c.key_share_bytes > 1000
      BY <2>1 DEF Catalogued
    <3>2. c \in BY_NAME
      BY <3>1, CatalogIs
    <3>3. SpecOf(g) = c
      BY <3>1, <3>2, CatalogLookup
    <3> QED
      BY <3>1, <3>3 DEF LargeShare
  <2> QED
    BY <2>2, <2>3, <2>4 DEF Swallowed
<1> QED
  BY <1>1, TargetInvariant, PTL

\* A path that swallows large ClientHellos is always found, for every sweep
\* with a large group of the catalog and every pool that accepts a small one.
THEOREM MiddleboxesAreFound == Spec => []MiddleboxIsFound
<1>1. TargetInv => MiddleboxIsFound
  <2> SUFFICES ASSUME TargetInv, Scored, path = "swallows_large", upsets = {}, probes # <<>>,
                      NEW large \in ToSet(GROUP_CATALOG), large.name \in Swept,
                      Large(GroupClient(large.name)),
                      NEW small \in SmallGroups,
                      \A s \in pool : Speak13(s) /\ SmallGroups \subseteq ToSet(s.groups)
               PROVE  _suspect_large_ch
    BY SuspicionIsFound DEF MiddleboxIsFound, Swept
  <2>1. ASSUME NEW g \in Swept
        PROVE  \E i \in DOMAIN probes :
                 /\ probes[i].group = g
                 /\ Told(g, GroupClient(g), probes[i].outcome)
    <3>1. PICK k \in DOMAIN Connections : Connections[k] = g
      BY ConnectionsShape
    <3>2. k < at
      BY <3>1, ConnectionsShape DEF TargetInv, TypesInv, SweepInv, VerdictInv, Scored
    <3>3. PICK i \in DOMAIN probes : probes[i].group = g
      BY <2>1, <3>1, <3>2 DEF TargetInv, SweepInv
    <3> QED
      BY <2>1, <3>3 DEF TargetInv, GroupProbesInv
  <2>0. "tls1_3" \in LocalVersions /\ LargeShare(large.name)
    BY DEF Large, GroupClient, Hello
  <2>2. \E i \in Supported : Catalogued(i, 0, 300)
    <3> DEFINE hello == GroupClient(small)
    <3>1. small \in Swept /\ SpecOf(small).key_share_bytes < 300
      BY DEF SmallGroups, Swept
    <3>2. SpecOf(small) \in BY_NAME /\ SpecOf(small).name = small /\ small # None
      BY <3>1, GroupsAreGroups DEF NotGroups
    <3>3. /\ SpecOf(small) \in ToSet(GROUP_CATALOG)
          /\ SpecOf(small).key_share_bytes \in Nat /\ SpecOf(small).key_share_bytes > 0
      BY <3>1, <3>2, Catalog
    <3>4. PICK i \in DOMAIN probes :
            probes[i].group = small /\ Told(small, hello, probes[i].outcome)
      BY <2>1, <3>1
    <3>5. ~Swallowed(hello)
      BY <3>1, <3>3 DEF Swallowed, Large, LargeShare, GroupClient, Hello
    <3>6. ASSUME NEW s \in pool PROVE Completes(s, hello)
      <4>1. Speak13(s) /\ small \in ToSet(s.groups) /\ s \in TargetStack
        BY <3>1, TargetAssumption DEF TargetInv, TypesInv
      <4> QED
        BY <2>0, <3>2, <4>1, TakesGroup
    <3>7. probes[i].outcome = "supported"
      BY <3>4, <3>5, <3>6 DEF Told
    <3> QED
      BY <3>1, <3>2, <3>3, <3>4, <3>7 DEF Supported, Catalogued
  <2>3. \E i \in DOMAIN probes :
          /\ probes[i].group \in InfoGroups
          /\ Catalogued(i, 1000, 10000)
          /\ probes[i].outcome \in {"transport_failed", "timeout"}
    <3> DEFINE hello == GroupClient(large.name)
    <3>1. large \in BY_NAME /\ SpecOf(large.name) = large
      BY CatalogIs, CatalogLookup
    <3>2. /\ large.key_share_bytes \in Nat /\ large.key_share_bytes > 1000
          /\ large.key_share_bytes < 10000
      BY <2>0, <3>1, Catalog DEF LargeShare
    <3>3. PICK i \in DOMAIN probes :
            probes[i].group = large.name /\ Told(large.name, hello, probes[i].outcome)
      BY <2>1
    <3>4. probes[i].outcome \in Silent
      BY <3>3 DEF Told, Swallowed
    <3> QED
      BY <3>2, <3>3, <3>4, GroupsAreGroups DEF Catalogued, Silent
  <2> QED
    BY <2>2, <2>3 DEF _suspect_large_ch
<1> QED
  BY <1>1, TargetInvariant, PTL

-----------------------------------------------------------------------------
(* A uniform target on a clean path                                        *)

Lost(probe) == \E u \in upsets : u[1] = probe

\* What was read of the one stack, probe by probe, unless it was disturbed.
PosturesFit(s) ==
  /\ at <= 2 => certificate = None
  /\ at = 2 => Completes(s, DefaultClient)
  /\ at > 1 => Lost("__default__") \/ default_group = Pick(s, DefaultClient)
  /\ at > 2 => \/ Lost("__default__") \/ Lost("__certificate__")
               \/ certificate = IF Completes(s, DefaultClient) THEN s.cert ELSE None
  /\ at > 3 => Lost("__realistic__") \/ realistic_group = Pick(s, RealisticClient)

ReachFits(s) ==
  /\ SupportedBy("__default__") => Completes(s, DefaultClient)
  /\ SupportedBy("__realistic__") => Completes(s, RealisticClient)
  /\ at > 1 /\ Completes(s, DefaultClient) => Lost("__default__") \/ SupportedBy("__default__")
  /\ at > 3 /\ Completes(s, RealisticClient) =>
       Lost("__realistic__") \/ SupportedBy("__realistic__")

Turned(v) == \E k \in DOMAIN Connections : k < at /\ Connections[k] = v

VersionFits(s, v) ==
  /\ protocols[v] = "yes" => Accepted(s, v)
  /\ protocols[v] = "no" =>
       Declined(s, v) \/ \E u \in upsets : u[1] = v /\ u[2] # "stall"
  /\ v \in Asked /\ Turned(v) => Lost(v) \/ protocols[v] # "unknown"

Fits(s) == PosturesFit(s) /\ ReachFits(s) /\ \A v \in TlsVersion : VersionFits(s, v)

UniformInv == path = "clean" => \A s \in pool : pool = {s} => Fits(s)

\* One connection to the only stack: what the stack says, or a disturbance.
LEMMA UniformAnswer ==
  ASSUME NEW s \in TargetStack, pool = {s}, path = "clean",
         NEW probe, NEW hello, NEW t, Heard(probe, hello, t)
  PROVE  /\ upsets \subseteq upsets'
         /\ \/ /\ Completes(s, hello)
               /\ OutcomeOf(t) = "supported" /\ VersionAnswer(t) = "yes"
               /\ t.negotiated = Pick(s, hello) /\ t.cert = s.cert /\ ~t.timed_out
            \/ /\ ~Completes(s, hello) /\ OutcomeOf(t) # "supported" /\ t.cert = None
               /\ VersionAnswer(t) = IF hello.versions = {} THEN "unknown" ELSE "no"
            \/ /\ \E u \in upsets' : u[1] = probe /\ (VersionAnswer(t) = "no" => u[2] # "stall")
               /\ OutcomeOf(t) # "supported" /\ VersionAnswer(t) \in {"no", "unknown"}
<1>1. CASE t \in Replies(s, hello) /\ upsets' = upsets
  <2>1. ~Swallowed(hello)
    BY DEF Swallowed
  <2>2. CASE Completes(s, hello) /\ t = Transcript(FALSE, 0, TRUE, {}, Pick(s, hello), s.cert)
    <3>1. /\ OutcomeOf(t) = "supported" /\ VersionAnswer(t) = "yes"
          /\ t.negotiated = Pick(s, hello) /\ t.cert = s.cert
      BY <2>2, Recorded
    <3>2. ~t.timed_out
      BY <2>2 DEF Transcript
    <3> QED
      BY <1>1, <2>2, <3>1, <3>2
  <2>3. CASE /\ ~Completes(s, hello) /\ hello.versions # {}
             /\ t \in {Failed(1, {"alert_protocol_version"}), Failed(1, {"alert"})}
    <3>1. t.cert = None
      BY <2>3, Recorded
    <3>2. OutcomeOf(t) # "supported" /\ VersionAnswer(t) = "no"
      BY <2>3, FailureOutcomes, FailureAnswers
    <3> QED
      BY <1>1, <2>3, <3>1, <3>2
  <2>4. CASE ~Completes(s, hello) /\ hello.versions = {} /\ t = NoProtocols
    <3>1. t.cert = None
      BY <2>4, Recorded DEF NoProtocols
    <3>2. OutcomeOf(t) # "supported" /\ VersionAnswer(t) = "unknown"
      BY <2>4, FailureOutcomes, FailureAnswers
    <3> QED
      BY <1>1, <2>4, <3>1, <3>2
  <2> QED
    BY <1>1, <2>1, <2>2, <2>3, <2>4, ReplyShape
<1>2. ASSUME NEW f \in Faults, t \in Upset(f), upsets' = upsets \cup {<<probe, f>>}
      PROVE  /\ upsets \subseteq upsets'
             /\ \E u \in upsets' : u[1] = probe /\ (VersionAnswer(t) = "no" => u[2] # "stall")
             /\ OutcomeOf(t) # "supported" /\ VersionAnswer(t) \in {"no", "unknown"}
  <2>1. /\ OutcomeOf(t) # "supported" /\ VersionAnswer(t) \in {"no", "unknown"}
        /\ VersionAnswer(t) = "no" => f # "stall"
    <3>1. CASE f = "stall" /\ t = Killed(None, FALSE)
      BY <3>1, Recorded
    <3>2. CASE /\ f # "stall"
               /\ t \in { Failed(1, {"reset"}), Failed(1, {"refused"}), Failed(1, {"resolver"}),
                          Failed(1, {"option"}), NoProtocols, Failed(-1, {}), Failed(0, {}) }
      BY <3>2, FailureAnswers, FailureOutcomes
    <3> QED
      BY <1>2, <3>1, <3>2, UpsetShape
  <2> DEFINE u == <<probe, f>>
  <2>2. u \in upsets' /\ u[1] = probe /\ u[2] = f
    BY <1>2
  <2> QED
    BY <1>2, <2>1, <2>2
<1> QED
  BY <1>1, <1>2 DEF Heard

LEMMA PickCompletes ==
  ASSUME NEW s \in TargetStack, NEW hello, Pick(s, hello) # None
  PROVE  Completes(s, hello)
BY Picked DEF Completes

\* What is recorded of that connection.
LEMMA UniformProbe ==
  ASSUME NEW s \in TargetStack, pool = {s}, path = "clean",
         NEW probe, NEW hello, NEW t, Heard(probe, hello, t),
         NEW r, r = ProbeResult(probe, t)
  PROVE  /\ r.group = probe
         /\ r.outcome = "supported" => Completes(s, hello)
         /\ Completes(s, hello) => Lost(probe)' \/ r.outcome = "supported"
         /\ Lost(probe)' \/ r.negotiated_group = Pick(s, hello)
<1>1. r = [group |-> probe, outcome |-> OutcomeOf(t),
           negotiated_group |-> IF OutcomeOf(t) = "supported" THEN t.negotiated ELSE None]
  BY DEF ProbeResult, _result_from_output
<1>2. \/ /\ Completes(s, hello)
         /\ OutcomeOf(t) = "supported" /\ t.negotiated = Pick(s, hello)
      \/ ~Completes(s, hello) /\ OutcomeOf(t) # "supported"
      \/ Lost(probe)' /\ OutcomeOf(t) # "supported"
  BY UniformAnswer DEF Lost
<1>3. ~Completes(s, hello) => Pick(s, hello) = None
  BY PickCompletes
<1> QED
  BY <1>1, <1>2, <1>3

LEMMA SupportedAfter ==
  ASSUME probes \in Seq(ProbeRecord), NEW r \in ProbeRecord, probes' = Append(probes, r), NEW p
  PROVE  SupportedBy(p)' <=> SupportedBy(p) \/ (r.group = p /\ r.outcome = "supported")
<1>1. /\ DOMAIN probes = 1 .. Len(probes) /\ DOMAIN probes' = 1 .. Len(probes) + 1
      /\ \A i \in 1 .. Len(probes) : probes'[i] = probes[i]
      /\ probes'[Len(probes) + 1] = r /\ Len(probes) \in Nat
  OBVIOUS
<1>2. SupportedBy(p) <=> \E i \in DOMAIN probes : probes[i].outcome = "supported" /\ probes[i].group = p
  BY DEF SupportedBy, Supported
<1>3. SupportedBy(p)' <=>
        \E i \in DOMAIN probes' : probes'[i].outcome = "supported" /\ probes'[i].group = p
  BY DEF SupportedBy, Supported
<1>4. ASSUME SupportedBy(p)' PROVE SupportedBy(p) \/ (r.group = p /\ r.outcome = "supported")
  <2>1. PICK i \in DOMAIN probes' : probes'[i].outcome = "supported" /\ probes'[i].group = p
    BY <1>3, <1>4
  <2>2. CASE i \in 1 .. Len(probes)
    BY <1>1, <1>2, <2>1, <2>2
  <2>3. CASE i = Len(probes) + 1
    BY <1>1, <2>1, <2>3
  <2> QED
    BY <1>1, <2>1, <2>2, <2>3
<1>5. ASSUME SupportedBy(p) PROVE SupportedBy(p)'
  <2>1. PICK i \in DOMAIN probes : probes[i].outcome = "supported" /\ probes[i].group = p
    BY <1>2, <1>5
  <2>2. i \in DOMAIN probes' /\ probes'[i] = probes[i]
    BY <1>1
  <2> QED
    BY <1>3, <2>1, <2>2
<1>6. ASSUME r.group = p, r.outcome = "supported" PROVE SupportedBy(p)'
  <2>1. Len(probes) + 1 \in DOMAIN probes'
    BY <1>1
  <2> QED
    BY <1>1, <1>3, <1>6, <2>1
<1> QED
  BY <1>4, <1>5, <1>6

\* The versions of the sweep are those that are asked for, and no others.
LEMMA VersionsSwept ==
  /\ \A k \in DOMAIN Connections :
       Connections[k] \in TlsVersion => k > 3 /\ Connections[k] \in ToSet(Versions)
  /\ \A v \in ToSet(Versions) : \E k \in DOMAIN Connections : Connections[k] = v
<1>1. ToSet(Connections) = ToSet(Opening) \cup Swept \cup ToSet(Versions)
  <2>1. IsSequence(Opening) /\ IsSequence(Groups) /\ IsSequence(Versions)
    BY SequencesSwept
  <2>2. IsSequence(Opening \o Groups) /\ ToSet(Opening \o Groups) = ToSet(Opening) \cup Swept
    BY <2>1, Joined, JoinedSet DEF Swept
  <2>3. Connections = (Opening \o Groups) \o Versions
    BY DEF Connections, Opening
  <2> QED
    BY <2>1, <2>2, <2>3, JoinedSet
<1>2. ToSet(Opening) = {"__default__", "__certificate__", "__realistic__"}
  BY DEF ToSet, Opening
<1>3. \A v \in TlsVersion : v \notin ToSet(Opening) \cup Swept
  <2>1. \A v \in TlsVersion : v \notin ToSet(Opening)
    BY <1>2 DEF TlsVersion
  <2> QED
    BY <2>1, GroupsAreGroups DEF NotGroups
<1>4. ASSUME NEW k \in DOMAIN Connections, Connections[k] \in TlsVersion
      PROVE  k > 3 /\ Connections[k] \in ToSet(Versions)
  <2>1. Connections[k] \in ToSet(Connections)
    BY DEF ToSet
  <2>2. Connections[k] \in ToSet(Versions) /\ Connections[k] \notin ToSet(Opening)
    BY <1>1, <1>3, <1>4, <2>1
  <2>3. k \in Nat /\ k >= 1 /\ k # 1 /\ k # 2 /\ k # 3
    BY <1>2, <2>2, ConnectionsShape
  <2> QED
    BY <2>2, <2>3
<1>5. \A v \in ToSet(Versions) : v \in ToSet(Connections)
  BY <1>1
<1> QED
  BY <1>4, <1>5 DEF ToSet

LEMMA VersionFitStays ==
  ASSUME NEW s, NEW v, VersionFits(s, v), protocols'[v] = protocols[v], upsets \subseteq upsets',
         Turned(v)' => Turned(v)
  PROVE  VersionFits(s, v)'
BY DEF VersionFits, Lost

\* A turn that is not v's own.
LEMMA TurnedStays ==
  ASSUME at \in 1 .. Len(Connections) + 1, at <= Len(Connections), NEW v \in TlsVersion,
         \/ at' = at + 1 /\ Connections[at] # v
         \/ at' \in Int /\ at' <= 4
  PROVE  Turned(v)' => Turned(v)
<1>1. ASSUME NEW k \in DOMAIN Connections, k < at', Connections[k] = v
      PROVE  k < at /\ Connections[k] = v
  <2>1. k > 3 /\ k \in Int
    BY <1>1, VersionsSwept, ConnectionsShape
  <2>2. at' = at + 1 /\ k # at
    BY <1>1, <2>1
  <2> QED
    BY <1>1, <2>1, <2>2
<1> QED
  BY <1>1 DEF Turned

LEMMA FitDefault ==
  ASSUME TargetInv, NEW s \in TargetStack, pool = {s}, path = "clean", Fits(s), probe_default
  PROVE  Fits(s)'
<1>1. PICK t :
        /\ Heard("__default__", DefaultClient, t)
        /\ probes' = Append(probes, ProbeResult("__default__", t))
        /\ default_group' = ProbeResult("__default__", t).negotiated_group
        /\ at' = IF ProbeResult("__default__", t).outcome = "supported" THEN at + 1 ELSE at + 2
  BY DefaultProbed
<1>2. /\ phase = "sweep" /\ at <= Len(Connections) /\ Connections[at] = "__default__"
      /\ UNCHANGED <<pool, path, phase, realistic_group, certificate, protocols, verdict>>
  BY DEF probe_default, Sweeping
<1>3. Explained("__default__", DefaultClient, t) /\ upsets \subseteq upsets' /\ pool \subseteq TargetStack
  BY <1>1, <1>2, SweepStep
<1>4. at = 1
  BY <1>2, Positions DEF TargetInv, TypesInv
<1>5. PICK r : r = ProbeResult("__default__", t)
  OBVIOUS
<1>6. r \in ProbeRecord
  BY <1>3, <1>5, AProbeRecord DEF DefaultClient, Hello
<1>7. /\ r.group = "__default__"
      /\ r.outcome = "supported" => Completes(s, DefaultClient)
      /\ Completes(s, DefaultClient) => Lost("__default__")' \/ r.outcome = "supported"
      /\ Lost("__default__")' \/ r.negotiated_group = Pick(s, DefaultClient)
  BY <1>1, <1>5, UniformProbe
<1>8. PosturesFit(s)'
  BY <1>1, <1>2, <1>4, <1>5, <1>7 DEF Fits, PosturesFit
<1>9. ReachFits(s)'
  <2>1. \A p : SupportedBy(p)' <=> SupportedBy(p) \/ (r.group = p /\ r.outcome = "supported")
    BY <1>1, <1>5, <1>6, SupportedAfter DEF TargetInv, TypesInv
  <2> QED
    BY <1>1, <1>4, <1>5, <1>7, <2>1 DEF Fits, ReachFits
<1>10. ASSUME NEW v \in TlsVersion PROVE VersionFits(s, v)'
  BY <1>1, <1>2, <1>3, <1>4, VersionFitStays, TurnedStays DEF Fits, TargetInv, TypesInv
<1> QED
  BY <1>8, <1>9, <1>10 DEF Fits

LEMMA FitCertificate ==
  ASSUME TargetInv, NEW s \in TargetStack, pool = {s}, path = "clean", Fits(s),
         _absorb_certificate
  PROVE  Fits(s)'
<1>1. PICK t :
        /\ Heard("__certificate__", DefaultClient, t)
        /\ certificate' = IF t.timed_out THEN certificate ELSE t.cert
  BY CertificateRead
<1>2. /\ phase = "sweep" /\ at <= Len(Connections) /\ Connections[at] = "__certificate__"
      /\ at' = at + 1
      /\ UNCHANGED <<pool, path, phase, probes, default_group, realistic_group, protocols,
                     verdict>>
  BY DEF _absorb_certificate, Sweeping
<1>3. at = 2
  BY <1>2, Positions DEF TargetInv, TypesInv
<1>4. upsets \subseteq upsets'
  BY <1>1, UniformAnswer
<1>5. Lost("__certificate__")' \/ certificate' = s.cert
  BY <1>1, <1>3, UniformAnswer DEF Lost, Fits, PosturesFit
<1>6. \A p : Lost(p) => Lost(p)'
  BY <1>4 DEF Lost
<1>7. PosturesFit(s)'
  BY <1>2, <1>3, <1>5, <1>6 DEF Fits, PosturesFit
<1>8. ReachFits(s)'
  <2>1. \A p : SupportedBy(p)' <=> SupportedBy(p)
    BY <1>2 DEF SupportedBy, Supported
  <2> QED
    BY <1>2, <1>3, <1>6, <2>1 DEF Fits, ReachFits
<1>9. ASSUME NEW v \in TlsVersion PROVE VersionFits(s, v)'
  BY <1>2, <1>3, <1>4, VersionFitStays, TurnedStays DEF Fits, TargetInv, TypesInv
<1> QED
  BY <1>7, <1>8, <1>9 DEF Fits

LEMMA FitRealistic ==
  ASSUME TargetInv, NEW s \in TargetStack, pool = {s}, path = "clean", Fits(s), probe_realistic
  PROVE  Fits(s)'
<1>1. PICK t :
        /\ Heard("__realistic__", RealisticClient, t)
        /\ probes' = Append(probes, ProbeResult("__realistic__", t))
        /\ realistic_group' = ProbeResult("__realistic__", t).negotiated_group
  BY RealisticProbed
<1>2. /\ phase = "sweep" /\ at <= Len(Connections) /\ Connections[at] = "__realistic__"
      /\ at' = at + 1
      /\ UNCHANGED <<pool, path, phase, default_group, certificate, protocols, verdict>>
  BY DEF probe_realistic, Sweeping
<1>3. /\ Explained("__realistic__", RealisticClient, t) /\ upsets \subseteq upsets'
      /\ pool \subseteq TargetStack
  BY <1>1, <1>2, SweepStep
<1>4. at = 3
  BY <1>2, Positions DEF TargetInv, TypesInv
<1>5. PICK r : r = ProbeResult("__realistic__", t)
  OBVIOUS
<1>6. r \in ProbeRecord
  BY <1>3, <1>5, AProbeRecord, RealisticOffer DEF RealisticClient, Hello
<1>7. /\ r.group = "__realistic__"
      /\ r.outcome = "supported" => Completes(s, RealisticClient)
      /\ Completes(s, RealisticClient) => Lost("__realistic__")' \/ r.outcome = "supported"
      /\ Lost("__realistic__")' \/ r.negotiated_group = Pick(s, RealisticClient)
  BY <1>1, <1>5, UniformProbe
<1>8. \A p : Lost(p) => Lost(p)'
  BY <1>3 DEF Lost
<1>9. PosturesFit(s)'
  BY <1>1, <1>2, <1>4, <1>5, <1>7, <1>8 DEF Fits, PosturesFit
<1>10. ReachFits(s)'
  <2>1. \A p : SupportedBy(p)' <=> SupportedBy(p) \/ (r.group = p /\ r.outcome = "supported")
    BY <1>1, <1>5, <1>6, SupportedAfter DEF TargetInv, TypesInv
  <2> QED
    BY <1>2, <1>4, <1>7, <1>8, <2>1 DEF Fits, ReachFits
<1>11. ASSUME NEW v \in TlsVersion PROVE VersionFits(s, v)'
  BY <1>2, <1>3, <1>4, VersionFitStays, TurnedStays DEF Fits, TargetInv, TypesInv
<1> QED
  BY <1>9, <1>10, <1>11 DEF Fits

\* The first three turns are over.
LEMMA PosturesFitStay ==
  ASSUME NEW s, PosturesFit(s), at > 3, at' > 3, upsets \subseteq upsets',
         UNCHANGED <<certificate, default_group, realistic_group>>, at \in Int, at' \in Int
  PROVE  PosturesFit(s)'
<1>1. \A p : Lost(p) => Lost(p)'
  BY DEF Lost
<1> QED
  BY <1>1 DEF PosturesFit

LEMMA ReachFitsStay ==
  ASSUME NEW s, ReachFits(s), at > 3, upsets \subseteq upsets', at \in Int,
         \A p \in {"__default__", "__realistic__"} : SupportedBy(p)' <=> SupportedBy(p)
  PROVE  ReachFits(s)'
<1>1. \A p : Lost(p) => Lost(p)'
  BY DEF Lost
<1> QED
  BY <1>1 DEF ReachFits

LEMMA FitGroup ==
  ASSUME TargetInv, NEW s \in TargetStack, pool = {s}, path = "clean", Fits(s), probe_group
  PROVE  Fits(s)'
<1>1. PICK g : g = Connections[at]
  OBVIOUS
<1>2. PICK t : Heard(g, GroupClient(g), t) /\ probes' = Append(probes, ProbeResult(g, t))
  BY <1>1, GroupProbed
<1>3. /\ phase = "sweep" /\ at <= Len(Connections) /\ g \in Swept /\ at' = at + 1
      /\ UNCHANGED <<pool, path, phase, default_group, realistic_group, certificate,
                     protocols, verdict>>
  BY <1>1 DEF probe_group, Sweeping, Swept
<1>4. /\ Explained(g, GroupClient(g), t) /\ upsets \subseteq upsets'
      /\ pool \subseteq TargetStack
  BY <1>2, <1>3, SweepStep
<1>5. at \in 1 .. Len(Connections) + 1
  BY DEF TargetInv, TypesInv
<1>6. at > 3 /\ at \in Int
  <2>1. \A k \in 1 .. 3 : Connections[k] \notin Swept
    BY <1>3, <1>5, Positions
  <2> QED
    BY <1>1, <1>3, <1>5, <2>1, ConnectionsShape
<1>7. PosturesFit(s)'
  BY <1>3, <1>4, <1>6, PosturesFitStay DEF Fits
<1>8. ReachFits(s)'
  <2>1. PICK r : r = ProbeResult(g, t)
    OBVIOUS
  <2>2. r \in ProbeRecord /\ r.group = g
    <3>1. GroupClient(g).offered \subseteq DefaultOffer \cup InfoGroups \cup REALISTIC_GROUP_LIST
      BY <1>3, GroupsAreGroups DEF GroupClient, Hello
    <3> QED
      BY <1>3, <1>4, <2>1, <3>1, AProbeRecord
  <2>3. \A p : SupportedBy(p)' <=> SupportedBy(p) \/ (r.group = p /\ r.outcome = "supported")
    BY <1>2, <2>1, <2>2, SupportedAfter DEF TargetInv, TypesInv
  <2>4. g \notin {"__default__", "__realistic__"}
    BY <1>3, GroupsAreGroups DEF NotGroups
  <2>5. \A p \in {"__default__", "__realistic__"} : SupportedBy(p)' <=> SupportedBy(p)
    BY <2>2, <2>3, <2>4
  <2> QED
    BY <1>4, <1>6, <2>5, ReachFitsStay DEF Fits
<1>9. ASSUME NEW v \in TlsVersion PROVE VersionFits(s, v)'
  <2>1. g # v
    BY <1>3, GroupsAreGroups DEF NotGroups
  <2>2. Turned(v)' => Turned(v)
    BY <1>1, <1>3, <1>5, <2>1, TurnedStays
  <2> QED
    BY <1>3, <1>4, <2>2, VersionFitStays DEF Fits
<1> QED
  BY <1>7, <1>8, <1>9 DEF Fits

LEMMA FitVersion ==
  ASSUME TargetInv, NEW s \in TargetStack, pool = {s}, path = "clean", Fits(s), probe_protocols
  PROVE  Fits(s)'
<1>1. PICK p : p = Connections[at]
  OBVIOUS
<1>2. /\ phase = "sweep" /\ at <= Len(Connections) /\ p \in TlsVersion /\ at' = at + 1
      /\ UNCHANGED <<pool, path, phase, probes, default_group, realistic_group,
                     certificate, verdict>>
  BY <1>1 DEF probe_protocols, Sweeping
<1>3. /\ at \in 1 .. Len(Connections) + 1 /\ at \in DOMAIN Connections
      /\ protocols \in [TlsVersion -> Known]
  BY <1>2, ConnectionsShape DEF TargetInv, TypesInv
<1>4. at > 3 /\ p \in ToSet(Versions)
  BY <1>1, <1>2, <1>3, VersionsSwept
<1>5. /\ upsets \subseteq upsets'
      /\ \E answer :
           /\ protocols' = [protocols EXCEPT ![p] = answer]
           /\ answer = "yes" => Accepted(s, p)
           /\ answer = "no" =>
                Declined(s, p) \/ \E u \in upsets' : u[1] = p /\ u[2] # "stall"
           /\ p \in Asked => Lost(p)' \/ answer # "unknown"
  <2>1. PICK t : /\ Heard(p, VersionClient(p), t)
                 /\ protocols' = [protocols EXCEPT ![p] = VersionAnswer(t)]
    BY <1>1, VersionProbed
  <2>2. p \in Asked <=> VersionClient(p).versions # {}
    BY <1>4 DEF Asked, VersionClient, Hello
  <2>3. /\ upsets \subseteq upsets'
        /\ \/ Completes(s, VersionClient(p)) /\ VersionAnswer(t) = "yes"
           \/ /\ ~Completes(s, VersionClient(p))
              /\ VersionAnswer(t) = IF p \in Asked THEN "no" ELSE "unknown"
           \/ /\ \E u \in upsets' : u[1] = p /\ (VersionAnswer(t) = "no" => u[2] # "stall")
              /\ VersionAnswer(t) \in {"no", "unknown"}
    BY <2>1, <2>2, UniformAnswer
  <2>4. Completes(s, VersionClient(p)) => p \in Asked
    BY <2>2 DEF Completes
  <2> QED
    BY <2>1, <2>3, <2>4 DEF Accepted, Declined, Lost
<1>6. PosturesFit(s)'
  BY <1>2, <1>3, <1>4, <1>5, PosturesFitStay DEF Fits
<1>7. ReachFits(s)'
  <2>1. \A q : SupportedBy(q)' <=> SupportedBy(q)
    BY <1>2 DEF SupportedBy, Supported
  <2> QED
    BY <1>3, <1>4, <1>5, <2>1, ReachFitsStay DEF Fits
<1>8. ASSUME NEW v \in TlsVersion PROVE VersionFits(s, v)'
  <2>1. CASE v = p
    BY <1>2, <1>3, <1>5, <2>1 DEF VersionFits
  <2>2. CASE v # p
    <3>1. protocols'[v] = protocols[v]
      BY <1>3, <1>5, <2>2
    <3>2. Turned(v)' => Turned(v)
      BY <1>1, <1>2, <1>3, <2>2, TurnedStays
    <3> QED
      BY <1>5, <3>1, <3>2, VersionFitStays DEF Fits
  <2> QED
    BY <2>1, <2>2
<1> QED
  BY <1>6, <1>7, <1>8 DEF Fits

LEMMA FitOther ==
  ASSUME NEW s, Fits(s), ResolveOk \/ ResolveRaises \/ ResolveFails \/ Score \/ UNCHANGED vars
  PROVE  Fits(s)'
<1>1. UNCHANGED <<at, probes, default_group, realistic_group, certificate, protocols, upsets>>
  BY DEF ResolveOk, ResolveRaises, ResolveFails, Score, vars
<1> QED
  BY <1>1 DEF Fits, PosturesFit, ReachFits, VersionFits, Lost, SupportedBy, Supported, Turned

LEMMA FitInit == ASSUME Init, NEW s PROVE Fits(s)
<1>1. /\ at = 1 /\ probes = <<>> /\ certificate = None
      /\ \A v \in TlsVersion : protocols[v] = "unknown"
  BY DEF Init
<1>2. \A v : ~Turned(v)
  BY <1>1, ConnectionsShape DEF Turned
<1>3. \A p : ~SupportedBy(p)
  BY <1>1 DEF SupportedBy, Supported
<1> QED
  BY <1>1, <1>2, <1>3 DEF Fits, PosturesFit, ReachFits, VersionFits

\* A scan of a uniform target on a clean path reads what is there.
THEOREM UniformInvariant == Spec => []UniformInv
<1>1. Init => UniformInv
  BY FitInit DEF UniformInv
<1>2. TargetInv /\ UniformInv /\ [Next]_vars => UniformInv'
  <2> SUFFICES ASSUME TargetInv, UniformInv, [Next]_vars, path' = "clean",
                      NEW s \in pool', pool' = {s}
               PROVE  Fits(s)'
    BY DEF UniformInv
  <2>1. UNCHANGED <<pool, path>>
    BY DEF Next, vars, ResolveOk, ResolveFails, ResolveRaises, probe_default,
           _absorb_certificate, probe_realistic, probe_group, probe_protocols, Score
  <2>2. pool = {s} /\ path = "clean" /\ s \in TargetStack
    BY <2>1, TargetAssumption DEF TargetInv, TypesInv
  <2>3. Fits(s)
    BY <2>2 DEF UniformInv
  <2> QED
    BY <2>2, <2>3, FitDefault, FitCertificate, FitRealistic, FitGroup, FitVersion, FitOther
       DEF Next
<1> QED
  BY <1>1, <1>2, TargetInvariant, PTL DEF Spec

-----------------------------------------------------------------------------
(* The score of a uniform target                                           *)

\* The points of a result, clause by clause.
LEMMA PointsOf ==
  ASSUME NEW r \in Result, r.reachable
  PROVE  score_target(r).score =
           (IF r.hybrid_preferred THEN 60 ELSE IF r.hybrid_supported THEN 40
            ELSE IF r.protocols["tls1_3"] = "yes" THEN 10 ELSE 0)
           + (IF r.protocols["tls1_3"] = "yes" THEN 10 ELSE 0)
           + (IF r.protocols["tls1_2"] = "no" THEN 5 ELSE 0)
           + (IF r.protocols["tls1_1"] = "no" /\ r.protocols["tls1_0"] = "no" THEN 5 ELSE 0)
           + (IF r.large_clienthello_suspected THEN 0 ELSE 10)
           + (IF r.certificate.expiry = "later" THEN 5 ELSE 0)
           + (IF r.certificate.weak THEN 0 ELSE 5)
<1>1. /\ r.hybrid_preferred \in BOOLEAN /\ r.hybrid_supported \in BOOLEAN
      /\ r.large_clienthello_suspected \in BOOLEAN
  BY DEF Result
<1>2. KeyExchange(r).points =
        IF r.hybrid_preferred THEN 60 ELSE IF r.hybrid_supported THEN 40
        ELSE IF r.protocols["tls1_3"] = "yes" THEN 10 ELSE 0
  <2>1. CASE r.hybrid_preferred
    BY <2>1, <1>1 DEF KeyExchange, Clause, MAX_KEX
  <2>2. CASE ~r.hybrid_preferred /\ r.hybrid_supported
    BY <2>2, <1>1 DEF KeyExchange, Clause
  <2>3. CASE ~r.hybrid_preferred /\ ~r.hybrid_supported
    BY <2>3, <1>1 DEF KeyExchange, Clause
  <2> QED
    BY <1>1, <2>1, <2>2, <2>3
<1>3. ProtocolHygiene(r).points =
        (IF r.protocols["tls1_3"] = "yes" THEN 10 ELSE 0)
        + (IF r.protocols["tls1_2"] = "no" THEN 5 ELSE 0)
        + (IF r.protocols["tls1_1"] = "no" /\ r.protocols["tls1_0"] = "no" THEN 5 ELSE 0)
  BY DEF ProtocolHygiene, Clause
<1>4. Interop(r).points = IF r.large_clienthello_suspected THEN 0 ELSE 10
  BY <1>1 DEF Interop, Clause, MAX_INTEROP
<1>5. CertificateHygiene(r).points =
        (IF r.certificate.expiry = "later" THEN 5 ELSE 0) + (IF r.certificate.weak THEN 0 ELSE 5)
  BY DEF CertificateHygiene, Clause
<1> QED
  BY <1>2, <1>3, <1>4, <1>5, ScoreIsSum

TakesHybrid(s) == \E g \in Swept : kind_of(g) = "hybrid" /\ Completes(s, GroupClient(g))

\* What the result of a uniform target on a clean path owes to its stack.
LEMMA UniformResult ==
  ASSUME TargetInv, NEW s \in TargetStack, pool = {s}, path = "clean", Fits(s)
  PROVE  /\ _derive.reachable => Reached(s)
         /\ _derive.hybrid_supported => TakesHybrid(s)
         /\ realistic_group # None => realistic_group = Pick(s, RealisticClient)
<1>1. ASSUME NEW i \in Supported
      PROVE  /\ Reached(s)
             /\ probes[i].group \in Swept => Completes(s, GroupClient(probes[i].group))
  <2>1. i \in DOMAIN probes /\ probes[i].outcome = "supported"
    BY DEF Supported
  <2>2. PICK g : g = probes[i].group
    OBVIOUS
  <2>3. g \in Swept \cup {"__default__", "__realistic__"}
    <3>1. probes[i] \in ProbeRecord
      BY <2>1 DEF TargetInv, TypesInv
    <3> QED
      BY <2>2, <3>1 DEF ProbeRecord
  <2>4. CASE g \in Swept
    <3>1. Completes(s, GroupClient(g))
      BY <2>1, <2>2, <2>4 DEF TargetInv, GroupProbesInv, Told, GroupClient
    <3> QED
      BY <2>2, <2>4, <3>1 DEF Reached, Swept
  <2>5. CASE g \in {"__default__", "__realistic__"}
    <3>1. SupportedBy(g)
      BY <2>2 DEF SupportedBy
    <3>2. Completes(s, DefaultClient) \/ Completes(s, RealisticClient)
      BY <2>5, <3>1 DEF Fits, ReachFits
    <3>3. g \notin Swept
      BY <2>5, GroupsAreGroups DEF NotGroups
    <3> QED
      BY <2>2, <3>2, <3>3 DEF Reached
  <2> QED
    BY <2>3, <2>4, <2>5
<1>2. _derive.reachable => Reached(s)
  BY <1>1 DEF _derive
<1>3. ASSUME _derive.hybrid_supported
      PROVE  TakesHybrid(s)
  <2>1. PICK i \in Supported : probes[i].group \in Swept /\ kind_of(probes[i].group) = "hybrid"
    BY <1>3 DEF _derive, supported_groups, Swept
  <2> QED
    BY <1>1, <2>1 DEF TakesHybrid
<1>4. realistic_group # None => realistic_group = Pick(s, RealisticClient)
  BY DEF TargetInv, PosturesInv, PickedBy, RealisticClient
<1> QED
  BY <1>2, <1>3, <1>4

\* Every turn has passed when a target that was probed is scored.
LEMMA AllTurned ==
  ASSUME TargetInv, Scored, probes # <<>>
  PROVE  /\ at > 3 /\ at \in Int /\ \A v \in Asked : v \in TlsVersion /\ Turned(v)
         /\ \A g \in Swept : \E i \in DOMAIN probes : probes[i].group = g
<1>1. at > Len(Connections) /\ at \in Int
  BY DEF TargetInv, TypesInv, VerdictInv, SweepInv, Scored
<1>2. \A k \in DOMAIN Connections : k < at
  BY <1>1, ConnectionsShape
<1>3. ASSUME NEW v \in Asked PROVE v \in TlsVersion /\ Turned(v)
  <2>1. v \in ToSet(Versions) /\ v \in TlsVersion
    BY TargetAssumption DEF Asked
  <2> QED
    BY <1>2, <2>1, VersionsSwept DEF Turned
<1>4. ASSUME NEW g \in Swept PROVE \E i \in DOMAIN probes : probes[i].group = g
  <2>1. PICK k \in DOMAIN Connections : Connections[k] = g
    BY ConnectionsShape
  <2> QED
    BY <1>2, <1>4, <2>1 DEF TargetInv, SweepInv
<1> QED
  BY <1>1, <1>3, <1>4, ConnectionsShape

\* Nothing was disturbed: the result is what the stack is.
LEMMA UndisturbedResult ==
  ASSUME TargetInv, Scored, probes # <<>>, SuspicionHasCause,
         NEW s \in TargetStack, pool = {s}, path = "clean", Fits(s), upsets = {}
  PROVE  /\ _derive.reachable <=> Reached(s)
         /\ _derive.hybrid_preferred <=> PrefersHybrid(s)
         /\ _derive.hybrid_supported <=> TakesHybrid(s)
         /\ ~_derive.large_clienthello_suspected
         /\ \A v \in TlsVersion : /\ protocols[v] = "yes" <=> Accepted(s, v)
                                  /\ protocols[v] = "no" <=> Declined(s, v)
<1>1. at > 3 /\ at \in Int
  BY AllTurned
<1>2. \A p : ~Lost(p)
  BY DEF Lost
<1>3. default_group = Pick(s, DefaultClient) /\ realistic_group = Pick(s, RealisticClient)
  BY <1>1, <1>2 DEF Fits, PosturesFit
<1>4. _derive.hybrid_preferred <=> PrefersHybrid(s)
  BY <1>3 DEF _derive, PrefersHybrid
<1>5. ASSUME NEW g \in Swept, Completes(s, GroupClient(g))
      PROVE  \E i \in Supported : probes[i].group = g
  <2>1. PICK i \in DOMAIN probes : probes[i].group = g
    BY AllTurned
  <2>2. Told(g, GroupClient(g), probes[i].outcome)
    BY <2>1 DEF TargetInv, GroupProbesInv, GroupClient
  <2>3. probes[i].outcome = "supported"
    BY <1>5, <2>2 DEF Told, Swallowed
  <2> QED
    BY <2>1, <2>3 DEF Supported
<1>6. ASSUME Reached(s) PROVE Supported # {}
  <2>1. CASE Completes(s, DefaultClient)
    BY <1>1, <1>2, <2>1 DEF Fits, ReachFits, SupportedBy
  <2>2. CASE Completes(s, RealisticClient)
    BY <1>1, <1>2, <2>2 DEF Fits, ReachFits, SupportedBy
  <2>3. CASE \E g \in Swept : Completes(s, GroupClient(g))
    BY <1>5, <2>3
  <2> QED
    BY <1>6, <2>1, <2>2, <2>3 DEF Reached, Swept
<1>7. _derive.reachable <=> Reached(s)
  BY <1>6, UniformResult DEF _derive
<1>8. ASSUME TakesHybrid(s) PROVE _derive.hybrid_supported
  <2>1. PICK g \in Swept : kind_of(g) = "hybrid" /\ Completes(s, GroupClient(g))
    BY <1>8 DEF TakesHybrid
  <2>2. \E i \in Supported : probes[i].group = g
    BY <1>5, <2>1
  <2> QED
    BY <2>1, <2>2 DEF _derive, supported_groups, Swept
<1>9. ~_derive.large_clienthello_suspected
  BY SuspicionIsFound DEF SuspicionHasCause, _derive
<1>10. ASSUME NEW v \in TlsVersion
       PROVE  /\ protocols[v] = "yes" <=> Accepted(s, v)
              /\ protocols[v] = "no" <=> Declined(s, v)
  <2>1. protocols[v] \in Known /\ VersionFits(s, v)
    BY DEF TargetInv, TypesInv, Fits
  <2>2. v \in Asked => protocols[v] # "unknown"
    BY <1>2, <2>1, AllTurned DEF VersionFits
  <2>3. /\ protocols[v] = "yes" => Accepted(s, v)
        /\ protocols[v] = "no" => Declined(s, v)
    BY <2>1 DEF VersionFits
  <2> QED
    BY <2>1, <2>2, <2>3 DEF Accepted, Declined, Known
<1> QED
  BY <1>4, <1>7, <1>8, <1>9, <1>10, UniformResult

\* The certificate of the result is the one the default client gets to see.
LEMMA UniformCertificate ==
  ASSUME TargetInv, Scored, probes # <<>>, NEW s \in TargetStack, Fits(s),
         ~Lost("__default__"), ~Lost("__certificate__")
  PROVE  _derive.certificate =
           IF Completes(s, DefaultClient) THEN Certificates[s.cert] ELSE NoCertificate
<1>1. at > 3 /\ at \in Int
  BY AllTurned
<1>2. certificate = IF Completes(s, DefaultClient) THEN s.cert ELSE None
  BY <1>1 DEF Fits, PosturesFit
<1>3. s.cert # None
  BY TargetAssumption DEF TargetStack
<1> QED
  BY <1>2, <1>3 DEF _derive

\* The score of a uniform target on a clean path is the one its configuration
\* deserves, and a stalled connection never raises it.
THEOREM ScoresAreIdeal == Spec => []ScoreIsIdeal
<1>1. TargetInv /\ UniformInv /\ SuspicionHasCause => ScoreIsIdeal
  <2> SUFFICES ASSUME TargetInv, UniformInv, SuspicionHasCause, Scored, path = "clean",
                      probes # <<>>, NEW s \in pool, pool = {s}
               PROVE  /\ upsets = {} => verdict[1].score = Ideal(s)
                      /\ /\ \A u \in upsets : u[2] = "stall"
                         /\ { u[1] : u \in upsets } \cap {"__default__", "__certificate__"} = {}
                         /\ "__realistic__" \in { u[1] : u \in upsets } =>
                              (kind_of(Pick(s, DefaultClient)) = "hybrid" => PrefersHybrid(s))
                         => verdict[1].score <= Ideal(s)
    BY DEF ScoreIsIdeal
  <2>1. s \in TargetStack /\ Fits(s)
    BY TargetAssumption DEF TargetInv, TypesInv, UniformInv
  <2>2. PICK r \in Result : r = _derive
    BY DerivedResult
  <2>3. verdict[1].score = score_target(r).score
    BY <2>2 DEF TargetInv, VerdictInv, Scored
  <2>4. r.protocols = protocols
    BY <2>2 DEF _derive
  <2>5. ~r.reachable => score_target(r).score = 0
    BY DEF score_target
  <2> DEFINE seen == IF Completes(s, DefaultClient) THEN Certificates[s.cert] ELSE NoCertificate
  <2>6. ASSUME upsets = {} PROVE verdict[1].score = Ideal(s)
    <3>1. ~Lost("__default__") /\ ~Lost("__certificate__")
      BY <2>6 DEF Lost
    <3>2. r.certificate = seen
      BY <2>1, <2>2, <3>1, UniformCertificate
    <3>3. /\ r.reachable <=> Reached(s)
          /\ r.hybrid_preferred <=> PrefersHybrid(s)
          /\ r.hybrid_supported <=> TakesHybrid(s)
          /\ ~r.large_clienthello_suspected
          /\ \A v \in TlsVersion : /\ r.protocols[v] = "yes" <=> Accepted(s, v)
                                   /\ r.protocols[v] = "no" <=> Declined(s, v)
      BY <2>1, <2>2, <2>4, <2>6, UndisturbedResult
    <3> QED
      BY <2>3, <2>5, <3>2, <3>3, PointsOf
         DEF Ideal, IdealKex, IdealHygiene, TlsVersion, TakesHybrid, Swept
  <2>7. ASSUME \A u \in upsets : u[2] = "stall",
               { u[1] : u \in upsets } \cap {"__default__", "__certificate__"} = {},
               "__realistic__" \in { u[1] : u \in upsets } =>
                 (kind_of(Pick(s, DefaultClient)) = "hybrid" => PrefersHybrid(s))
        PROVE  verdict[1].score <= Ideal(s)
    <3>1. /\ ~Lost("__default__") /\ ~Lost("__certificate__")
          /\ Lost("__realistic__") =>
               (kind_of(Pick(s, DefaultClient)) = "hybrid" => PrefersHybrid(s))
      BY <2>7 DEF Lost
    <3>2. r.certificate = seen
      BY <2>1, <2>2, <3>1, UniformCertificate
    <3>3. at > 3 /\ at \in Int
      BY AllTurned
    <3>4. r.hybrid_preferred => PrefersHybrid(s)
      <4>1. default_group = Pick(s, DefaultClient)
        BY <2>1, <3>1, <3>3 DEF Fits, PosturesFit
      <4>2. r.hybrid_preferred =>
              kind_of(IF realistic_group # None THEN realistic_group ELSE default_group) = "hybrid"
        BY <2>2 DEF _derive
      <4>3. CASE realistic_group # None
        <5>1. realistic_group = Pick(s, RealisticClient)
          BY <2>1, <4>3, UniformResult
        <5> QED
          BY <4>2, <4>3, <5>1 DEF PrefersHybrid
      <4>4. CASE realistic_group = None
        <5>1. Lost("__realistic__") \/ Pick(s, RealisticClient) = None
          BY <2>1, <3>3, <4>4 DEF Fits, PosturesFit
        <5> QED
          BY <3>1, <4>1, <4>2, <4>4, <5>1 DEF PrefersHybrid
      <4> QED
        BY <4>3, <4>4
    <3>5. /\ r.reachable => Reached(s)
          /\ r.hybrid_supported => TakesHybrid(s)
      BY <2>1, <2>2, UniformResult
    <3>6. \A v \in TlsVersion : /\ r.protocols[v] = "yes" => Accepted(s, v)
                                /\ r.protocols[v] = "no" => Declined(s, v)
      BY <2>1, <2>4, <2>7 DEF Fits, VersionFits
    <3>7. r.hybrid_preferred \in BOOLEAN /\ r.hybrid_supported \in BOOLEAN
      BY DEF Result
    <3>8. Ideal(s) >= 0
      BY DEF Ideal, IdealKex, IdealHygiene
    <3> QED
      BY <2>3, <2>5, <3>2, <3>4, <3>5, <3>6, <3>7, <3>8, PointsOf
         DEF Ideal, IdealKex, IdealHygiene, TlsVersion, TakesHybrid, Swept
  <2> QED
    BY <2>6, <2>7
<1> QED
  BY <1>1, TargetInvariant, UniformInvariant, SuspicionIsCaused, PTL
=============================================================================
