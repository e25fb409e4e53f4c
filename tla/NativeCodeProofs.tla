-------------------------- MODULE NativeCodeProofs --------------------------
(***************************************************************************)
(* Native code runs only over the bytes it was compiled from: proofs about *)
(* OverlayValidity, for any RAM, any candidates and any bounds, and about  *)
(* TextGuard, for any text, page size, window and translation.             *)
(***************************************************************************)
EXTENDS OverlayValidity, TextGuard, FiniteSetTheorems, TLAPS

-----------------------------------------------------------------------------
(* Overlay functions in the configuration the runtime ships with: no sljit *)
(* tier and no differential mode (g_sljit_tier_enabled = 0,                *)
(* s_diff_mode = 0).                                                       *)

\* GenerationTrust, of the shipped configuration.
Trusted == \A c \in Live : cand_gensum(c) = val_gen[c] =>
                              (cstate[c] = "VALID" <=> Resident(c))

\* Every code page of a registered candidate is watched.
CodeWatched == \A c \in Registered : CodePages(c) \subseteq watched

\* A recorded generation sum is never ahead of the current one.
GenBehind == \A c \in Registered : val_gen[c] <= cand_gensum(c)

IInv == /\ TypeOK
        /\ shadow = OffShadow
        /\ CodeWatched
        /\ GenBehind
        /\ Trusted

Gens == [Pages -> 0..MaxGen]

\* The units counted by cand_gensum form a finite set.
LEMMA GenUnitsFinite ==
  ASSUME NEW c \in Cands, NEW g
  PROVE  /\ IsFiniteSet(GenUnits(c, g))
         /\ Cardinality(GenUnits(c, g)) \in Nat
<1>1. IsFiniteSet(DOMAIN Ranges[c])
  <2>1. Ranges[c] \in Seq(SUBSET Words)  BY MapAssumption, Zenon
  <2>2. DOMAIN Ranges[c] = 1..Len(Ranges[c]) /\ Len(Ranges[c]) \in Nat
    BY <2>1
  <2>3. IsFiniteSet(1..Len(Ranges[c]))  BY <2>2, FS_Interval
  <2> QED  BY <2>2, <2>3, Zenon
<1>2. IsFiniteSet(Pages \X (1..MaxGen))
  <2>1. MaxGen \in Int  BY BoundAssumption
  <2>2. IsFiniteSet(1..MaxGen)  BY <2>1, FS_Interval
  <2>3. IsFiniteSet(Pages)  BY MapAssumption, Zenon
  <2> QED  BY <2>2, <2>3, FS_Product, Zenon
<1>3. IsFiniteSet((DOMAIN Ranges[c]) \X (Pages \X (1..MaxGen)))
  BY <1>1, <1>2, FS_Product, Zenon
<1>4. GenUnits(c, g) \subseteq (DOMAIN Ranges[c]) \X (Pages \X (1..MaxGen))
  BY Zenon DEF GenUnits
<1> QED  BY <1>3, <1>4, FS_Subset, FS_CardinalityType, Zenon

\* Generations that only grow only add units.
LEMMA GenUnitsGrow ==
  ASSUME NEW c \in Cands, NEW g \in Gens, NEW h \in Gens,
         \A p \in Pages : g[p] <= h[p]
  PROVE  GenUnits(c, g) \subseteq GenUnits(c, h)
<1>1. SUFFICES ASSUME NEW u \in GenUnits(c, g)  PROVE u \in GenUnits(c, h)
  BY Zenon
<1>2. /\ u \in (DOMAIN Ranges[c]) \X (Pages \X (1..MaxGen))
      /\ u[2][1] \in RangePages(c, u[1])
      /\ u[2][2] <= g[u[2][1]]
  BY Zenon DEF GenUnits
<1>3. u[2][1] \in Pages /\ u[2][2] \in 1..MaxGen  BY <1>2, Zenon
<1>4. g[u[2][1]] <= h[u[2][1]]  BY <1>3, Zenon
<1>5. g[u[2][1]] \in Int /\ h[u[2][1]] \in Int
  BY <1>3, BoundAssumption DEF Gens
<1>6. u[2][2] <= h[u[2][1]]
  BY <1>2, <1>3, <1>4, <1>5, BoundAssumption
<1> QED  BY <1>2, <1>6, Zenon DEF GenUnits

\* Generations that only grow give a sum that only grows.
LEMMA GenSumMonotone ==
  ASSUME NEW c \in Cands, NEW g \in Gens, NEW h \in Gens,
         \A p \in Pages : g[p] <= h[p]
  PROVE  Cardinality(GenUnits(c, g)) <= Cardinality(GenUnits(c, h))
BY GenUnitsGrow, GenUnitsFinite, FS_Subset, Zenon

\* A bump of a page that holds code of c is visible in the sum.
LEMMA GenSumStrict ==
  ASSUME NEW c \in Cands, NEW g \in Gens, NEW h \in Gens,
         \A p \in Pages : g[p] <= h[p],
         NEW q \in CodePages(c), g[q] < h[q]
  PROVE  Cardinality(GenUnits(c, g)) < Cardinality(GenUnits(c, h))
<1>1. PICK i \in DOMAIN Ranges[c] : q \in RangePages(c, i)
  BY Zenon DEF CodePages, Code, RangePages
<1>2. q \in Pages
  <2>1. Ranges[c] \in Seq(SUBSET Words)  BY MapAssumption, Zenon
  <2>2. Ranges[c][i] \subseteq Words  BY <2>1, <1>1
  <2> QED  BY <1>1, <2>2, MapAssumption DEF RangePages
<1>3. h[q] \in 1..MaxGen /\ g[q] \in 0..MaxGen
  BY <1>2, BoundAssumption DEF Gens
<1> DEFINE u == <<i, <<q, h[q]>>>>
<1>4. u \in GenUnits(c, h)
  BY <1>1, <1>2, <1>3 DEF GenUnits
<1>5. u \notin GenUnits(c, g)
  BY <1>3, BoundAssumption DEF GenUnits
<1>6. GenUnits(c, g) # GenUnits(c, h)  BY <1>4, <1>5, Zenon
<1>7. Cardinality(GenUnits(c, g)) <= Cardinality(GenUnits(c, h))
  BY GenSumMonotone, Zenon
<1>8. GenUnits(c, g) \subseteq GenUnits(c, h)  BY GenUnitsGrow, Zenon
<1>9. Cardinality(GenUnits(c, g)) # Cardinality(GenUnits(c, h))
  BY <1>6, <1>8, GenUnitsFinite, FS_Subset, Zenon
<1> QED  BY <1>7, <1>9, GenUnitsFinite

-----------------------------------------------------------------------------
\* A set of candidates has a size.
LEMMA CandSets ==
  ASSUME NEW S, S \subseteq Cands
  PROVE  IsFiniteSet(S) /\ Cardinality(S) \in Nat
BY MapAssumption, FS_Subset, FS_CardinalityType, Zenon

\* The guarded decrement of s_valid_count.
LEMMA DecType ==
  ASSUME NEW n \in Nat, NEW k \in Nat
  PROVE  Dec(n, k) \in Nat /\ Dec(n, k) <= n
BY DEF Dec

\* Code lies in RAM, so its pages are pages.
LEMMA CodeInRam ==
  ASSUME NEW c \in Cands
  PROVE  Code(c) \subseteq Words /\ CodePages(c) \subseteq Pages
<1>1. Ranges[c] \in Seq(SUBSET Words)  BY MapAssumption, Zenon
<1>2. \A i \in DOMAIN Ranges[c] : Ranges[c][i] \subseteq Words  BY <1>1
<1>3. Code(c) \subseteq Words  BY <1>2, Zenon DEF Code
<1> QED  BY <1>3, MapAssumption DEF CodePages

\* A write to RAM keeps the trust in the recorded verdict of c if it either
\* spares c's code or bumps one of c's code pages.
LEMMA WriteKeepsTrust ==
  ASSUME IInv, NEW c \in Live,
         gen' \in Gens, \A p \in Pages : gen[p] <= gen'[p],
         val_gen'[c] = val_gen[c], cstate'[c] = cstate[c],
         \/ \A w \in Code(c) : ram'[w] = ram[w]
         \/ \E q \in CodePages(c) : gen[q] < gen'[q]
  PROVE  /\ val_gen'[c] <= cand_gensum(c)'
         /\ cand_gensum(c)' = val_gen'[c] =>
              (cstate'[c] = "VALID" <=> Resident(c)')
<1> DEFINE old == Cardinality(GenUnits(c, gen))
           new == Cardinality(GenUnits(c, gen'))
<1>1. c \in Cands /\ c \in Registered  BY Zenon DEF Live, Registered
<1>2. gen \in Gens /\ val_gen[c] \in Nat
  BY <1>1, Zenon DEF IInv, TypeOK, Gens
<1>3. old \in Nat /\ new \in Nat  BY <1>1, GenUnitsFinite, Zenon
<1>4. old <= new  BY <1>1, <1>2, GenSumMonotone, Zenon
<1>5. val_gen[c] <= old  BY <1>1, Zenon DEF IInv, GenBehind, cand_gensum
<1>6. old = val_gen[c] => (cstate[c] = "VALID" <=> Resident(c))
  BY Zenon DEF IInv, Trusted, cand_gensum
<1>7. cand_gensum(c)' = new  BY Zenon DEF cand_gensum
<1> HIDE DEF old, new
<1>8. val_gen'[c] <= new  BY <1>2, <1>3, <1>4, <1>5
<1>9. CASE \A w \in Code(c) : ram'[w] = ram[w]
  <2>1. Resident(c)' <=> Resident(c)  BY <1>9, Zenon DEF Resident
  <2>2. new = val_gen'[c] => old = val_gen[c]
    BY <1>2, <1>3, <1>4, <1>5
  <2> QED  BY <1>6, <1>7, <1>8, <2>1, <2>2, Zenon
<1>10. CASE \E q \in CodePages(c) : gen[q] < gen'[q]
  <2>1. old < new
    BY <1>1, <1>2, <1>10, GenSumStrict, Zenon DEF old, new
  <2>2. new # val_gen'[c]  BY <1>2, <1>3, <1>5, <2>1
  <2> QED  BY <1>7, <1>8, <2>2, Zenon
<1> QED  BY <1>9, <1>10, Zenon

\* Under IInv the verdict of cand_match is the truth about RAM.
LEMMA MatchIsResident ==
  ASSUME IInv, NEW c \in Live
  PROVE  cand_match(c) <=> Resident(c)
BY Zenon DEF IInv, Trusted, cand_match

\* Recording verdicts keeps the invariant.
LEMMA RecordKeepsTrust ==
  ASSUME IInv, NEW seen, seen \subseteq Live, Record(seen),
         UNCHANGED <<ramVars, slot>>
  PROVE  CodeWatched' /\ GenBehind' /\ Trusted'
<1>1. Registered' = Registered  BY Zenon DEF Registered
<1>2. CodeWatched'  BY <1>1, Zenon DEF IInv, CodeWatched, ramVars
<1>3. \A c \in Cands : /\ cand_gensum(c)' = cand_gensum(c)
                       /\ Resident(c)' <=> Resident(c)
                       /\ cand_gensum(c) \in Nat
  BY GenUnitsFinite, Zenon DEF cand_gensum, Resident, ramVars
<1>4. ASSUME NEW c \in Registered, c \in seen
      PROVE  /\ val_gen'[c] = cand_gensum(c)
             /\ cstate'[c] = "VALID" <=> Resident(c)
  <2>1. c \in Cands /\ c \in Live  BY <1>4, Zenon DEF Live, Registered
  <2>2. cand_match(c) <=> Resident(c)  BY <2>1, MatchIsResident, Zenon
  <2>3. val_gen'[c] = cand_gensum(c)  BY <1>4, <2>1, Zenon DEF Record
  <2>4. cstate'[c] = IF cand_match(c) THEN "VALID" ELSE "INVALID"
    BY <1>4, <2>1, Zenon DEF Record
  <2> QED  BY <2>2, <2>3, <2>4, Zenon
<1>5. ASSUME NEW c \in Registered, c \notin seen
      PROVE  val_gen'[c] = val_gen[c] /\ cstate'[c] = cstate[c]
  BY <1>5, Zenon DEF Record, Registered
<1>6. GenBehind'
  BY <1>1, <1>3, <1>4, <1>5 DEF IInv, GenBehind, Registered
<1>7. Trusted'
  <2>1. SUFFICES ASSUME NEW c \in Registered, cstate'[c] # "BLACKLIST",
                        cand_gensum(c)' = val_gen'[c]
                 PROVE  cstate'[c] = "VALID" <=> Resident(c)'
    BY <1>1, Zenon DEF Trusted, Live
  <2>2. c \in Cands  BY Zenon DEF Registered
  <2>3. CASE c \in seen  BY <1>3, <1>4, <2>2, <2>3, Zenon
  <2>4. CASE c \notin seen
    BY <1>3, <1>5, <2>1, <2>2, <2>4, Zenon DEF IInv, Trusted, Live
  <2> QED  BY <2>3, <2>4, Zenon
<1> QED  BY <1>2, <1>6, <1>7, Zenon

-----------------------------------------------------------------------------
\* Stores: the page generation moves before the byte does.
LEMMA StorePreserves ==
  ASSUME IInv, NEW w \in Words, NEW b \in Bytes, Store(w, b)
  PROVE  IInv'
<1> DEFINE p == PageOf[w]
<1>1. p \in Pages  BY MapAssumption, Zenon
<1>2. /\ ram' = [ram EXCEPT ![w] = b]
      /\ UNCHANGED <<watched, slot, val_gen, diffVars, hint, runVars>>
  BY Zenon DEF Store
<1>3. /\ gen' \in Gens
      /\ \A q \in Pages : gen[q] <= gen'[q]
      /\ p \in watched => gen[p] < gen'[p]
  <2>1. gen \in Gens  BY Zenon DEF IInv, TypeOK, Gens
  <2>2. CASE p \in watched
    <3>1. gen[p] < MaxGen /\ gen' = [gen EXCEPT ![p] = @ + 1]
      BY <2>2, Zenon DEF Store, overlay_watch_note_write
    <3> QED  BY <1>1, <2>1, <3>1, BoundAssumption DEF Gens
  <2>3. CASE p \notin watched
    <3>1. gen' = gen  BY <2>3, Zenon DEF Store, overlay_watch_note_write
    <3> QED  BY <2>1, <2>3, <3>1, BoundAssumption DEF Gens
  <2> QED  BY <2>2, <2>3, Zenon
<1>4. /\ cstate' \in [Cands -> States] /\ valid_count' \in Nat
      /\ \A c \in Cands : cstate'[c] # "BLACKLIST" => cstate'[c] = cstate[c]
  <2>1. cstate \in [Cands -> States] /\ valid_count \in Nat
        /\ active \in Seq(Cands)
    BY Zenon DEF IInv, TypeOK
  <2>2. CASE p \in watched
    <3> DEFINE hit == {c \in Range(active) : w \in Code(c) /\ cstate[c] # "BLACKLIST"}
    <3>1. /\ cstate' = [c \in Cands |-> IF c \in hit THEN "BLACKLIST"
                                        ELSE cstate[c]]
          /\ valid_count' = Dec(valid_count, Cardinality(hit))
      BY <2>2, Zenon DEF Store, overlay_watch_note_write, active_write_check
    <3>2. hit \subseteq Cands  BY <2>1 DEF Range
    <3> HIDE DEF hit
    <3>3. valid_count' \in Nat  BY <2>1, <3>1, <3>2, CandSets, DecType, Zenon
    <3> QED  BY <2>1, <3>1, <3>3, Zenon DEF States
  <2>3. CASE p \notin watched
    BY <2>1, <2>3, Zenon DEF Store, overlay_watch_note_write
  <2> QED  BY <2>2, <2>3, Zenon
<1>5. TypeOK'
  <2>1. ram' \in Images  BY <1>2, Zenon DEF IInv, TypeOK, Images
  <2> QED  BY <1>2, <1>3, <1>4, <2>1, Zenon
           DEF IInv, TypeOK, Gens, diffVars, runVars, InShadow
<1>6. shadow' = OffShadow  BY <1>2, Zenon DEF IInv, diffVars
<1>7. Registered' = Registered /\ Live' \subseteq Live
  BY <1>2, <1>4, Zenon DEF Registered, Live
<1>8. CodeWatched'  BY <1>2, <1>7, Zenon DEF IInv, CodeWatched
<1>9. ASSUME NEW c \in Registered
      PROVE  \/ \A v \in Code(c) : ram'[v] = ram[v]
             \/ \E q \in CodePages(c) : gen[q] < gen'[q]
  <2>1. c \in Cands /\ CodePages(c) \subseteq watched
    BY Zenon DEF IInv, CodeWatched, Registered
  <2>2. CASE w \in Code(c)
    <3>1. p \in CodePages(c)  BY <2>2, Zenon DEF CodePages
    <3> QED  BY <1>3, <2>1, <3>1, Zenon
  <2>3. CASE w \notin Code(c)
    <3>1. \A v \in Code(c) : v \in Words /\ v # w  BY <2>1, <2>3, CodeInRam, Zenon
    <3> QED  BY <1>2, <3>1, Zenon DEF IInv, TypeOK, Images
  <2> QED  BY <2>2, <2>3, Zenon
<1>10. GenBehind'
  <2>1. SUFFICES ASSUME NEW c \in Registered
                 PROVE  val_gen'[c] <= cand_gensum(c)'
    BY <1>7, Zenon DEF GenBehind
  <2>2. c \in Cands /\ gen \in Gens /\ val_gen[c] \in Nat
    BY Zenon DEF Registered, IInv, TypeOK, Gens
  <2>3. val_gen[c] <= Cardinality(GenUnits(c, gen))
    BY Zenon DEF IInv, GenBehind, cand_gensum
  <2>4. Cardinality(GenUnits(c, gen)) <= Cardinality(GenUnits(c, gen'))
    BY <1>3, <2>2, GenSumMonotone, Zenon
  <2> QED  BY <1>2, <2>2, <2>3, <2>4, GenUnitsFinite DEF cand_gensum
<1>11. Trusted'
  <2>1. SUFFICES ASSUME NEW c \in Live'
                 PROVE  cand_gensum(c)' = val_gen'[c] =>
                          (cstate'[c] = "VALID" <=> Resident(c)')
    BY Zenon DEF Trusted
  <2>2. c \in Live /\ c \in Registered /\ c \in Cands
    BY <1>7, Zenon DEF Live, Registered
  <2>3. cstate'[c] = cstate[c]  BY <1>4, <2>2, Zenon DEF Live
  <2>4. val_gen'[c] = val_gen[c]  BY <1>2, Zenon
  <2> QED  BY <1>3, <1>9, <2>2, <2>3, <2>4, WriteKeepsTrust, Zenon
<1> QED  BY <1>5, <1>6, <1>8, <1>10, <1>11, Zenon DEF IInv

\* Save-state restore: every generation moves.
LEMMA RestorePreserves ==
  ASSUME IInv, NEW image \in Images, Restore(image)
  PROVE  IInv'
<1>1. /\ ram' = image /\ gen' = [p \in Pages |-> gen[p] + 1]
      /\ frames' = << >>
      /\ UNCHANGED <<watched, candVars, diffVars, hint, active>>
      /\ \A p \in Pages : gen[p] < MaxGen
  BY Zenon DEF Restore
<1>2. gen' \in Gens /\ \A p \in Pages : gen[p] < gen'[p]
  <2>1. gen \in Gens  BY Zenon DEF IInv, TypeOK, Gens
  <2> QED  BY <1>1, <2>1, BoundAssumption DEF Gens
<1>3. \A p \in Pages : gen[p] <= gen'[p]
  <2>1. gen \in Gens  BY Zenon DEF IInv, TypeOK, Gens
  <2> QED  BY <1>2, <2>1, BoundAssumption DEF Gens
<1>4. TypeOK'
  BY <1>1, <1>2 DEF IInv, TypeOK, Gens, candVars, diffVars, InShadow
<1>5. Registered' = Registered /\ Live' = Live
  BY <1>1, Zenon DEF Registered, Live, candVars
<1>6. CodeWatched' /\ shadow' = OffShadow
  BY <1>1, <1>5, Zenon DEF IInv, CodeWatched, diffVars
<1>7. GenBehind'
  <2>1. SUFFICES ASSUME NEW c \in Registered
                 PROVE  val_gen'[c] <= cand_gensum(c)'
    BY <1>5, Zenon DEF GenBehind
  <2>2. c \in Cands /\ gen \in Gens /\ val_gen[c] \in Nat
    BY Zenon DEF Registered, IInv, TypeOK, Gens
  <2>3. val_gen[c] <= Cardinality(GenUnits(c, gen))
    BY Zenon DEF IInv, GenBehind, cand_gensum
  <2>4. Cardinality(GenUnits(c, gen)) <= Cardinality(GenUnits(c, gen'))
    BY <1>2, <1>3, <2>2, GenSumMonotone, Zenon
  <2> QED  BY <1>1, <2>2, <2>3, <2>4, GenUnitsFinite DEF cand_gensum, candVars
<1>8. Trusted'
  <2>1. SUFFICES ASSUME NEW c \in Live
                 PROVE  cand_gensum(c)' = val_gen'[c] =>
                          (cstate'[c] = "VALID" <=> Resident(c)')
    BY <1>5, Zenon DEF Trusted
  <2>2. c \in Cands  BY Zenon DEF Live, Registered
  <2>3. \/ \A w \in Code(c) : ram'[w] = ram[w]
        \/ \E q \in CodePages(c) : gen[q] < gen'[q]
    BY <1>2, <2>2, CodeInRam, Zenon DEF CodePages
  <2> QED  BY <1>1, <1>2, <1>3, <2>3, WriteKeepsTrust, Zenon DEF candVars
<1> QED  BY <1>4, <1>6, <1>7, <1>8, Zenon DEF IInv

\* Registration takes its verdict from RAM and starts watching the code.
LEMMA RegisterPreserves ==
  ASSUME IInv, NEW c \in Cands, cand_register(c)
  PROVE  IInv'
<1> DEFINE verdict == IF Resident(c) THEN "VALID" ELSE "INVALID"
           retired == IF Resident(c) THEN Superseded(c) ELSE {}
<1>1. slot[c] = 0 /\ AddCandidate(c, verdict, retired)
  BY Zenon DEF cand_register, CanRegister
<1>2. retired \subseteq Live  BY Zenon DEF Superseded
<1>3. Live \subseteq Registered /\ Registered \subseteq Cands /\ c \notin Registered
  BY <1>1, Zenon DEF Live, Registered
<1>4. verdict \in States /\ (verdict = "VALID" <=> Resident(c))  BY Zenon DEF States
<1> HIDE DEF verdict, retired
<1>5. /\ slot' = [slot EXCEPT ![c] = Cardinality(Registered) + 1]
      /\ watched' = watched \cup CodePages(c)
      /\ val_gen' = [val_gen EXCEPT ![c] = cand_gensum(c)]
      /\ cstate' = [d \in Cands |-> IF d = c THEN verdict
                                    ELSE IF d \in retired THEN "BLACKLIST"
                                    ELSE cstate[d]]
      /\ UNCHANGED <<ram, gen, diffVars, hint, runVars>>
  BY <1>1, Zenon DEF AddCandidate
<1>6. Cardinality(Registered) \in Nat  BY <1>3, CandSets, Zenon
<1>16. \E n \in Nat : n # 0 /\ slot' = [slot EXCEPT ![c] = n]
  <2>1. Cardinality(Registered) + 1 \in Nat /\ Cardinality(Registered) + 1 # 0
    BY <1>6
  <2> QED  BY <1>5, <2>1, Zenon
<1>7. \A d \in Cands : /\ cand_gensum(d)' = cand_gensum(d)
                       /\ Resident(d)' <=> Resident(d)
                       /\ cand_gensum(d) \in Nat
  BY <1>5, GenUnitsFinite, Zenon DEF cand_gensum, Resident
<1>8. TypeOK'
  <2>1. slot' \in [Cands -> Nat] /\ val_gen' \in [Cands -> Nat]
    <3>1. cand_gensum(c) \in Nat  BY <1>7, Zenon
    <3>2. val_gen' \in [Cands -> Nat]
      BY <1>5, <3>1, Zenon DEF IInv, TypeOK
    <3> QED  BY <1>16, <3>2, Zenon DEF IInv, TypeOK
  <2>2. cstate' \in [Cands -> States]
    BY <1>4, <1>5, Zenon DEF IInv, TypeOK, States
  <2>3. valid_count' \in Nat
    <3> DEFINE gone == {d \in retired : cstate[d] = "VALID"}
               up == IF verdict = "VALID" THEN 1 ELSE 0
    <3>1. gone \subseteq Cands  BY <1>2, <1>3, Zenon
    <3>2. Cardinality(gone) \in Nat  BY <3>1, CandSets, Zenon
    <3>3. valid_count' = Dec(valid_count + up, Cardinality(gone))
      BY <1>1, Zenon DEF AddCandidate
    <3>4. valid_count + up \in Nat  BY DEF IInv, TypeOK
    <3> QED  BY <3>2, <3>3, <3>4, DecType, Zenon
  <2>4. watched' \subseteq Pages
    BY <1>5, CodeInRam, Zenon DEF IInv, TypeOK
  <2> QED  BY <1>5, <2>1, <2>2, <2>3, <2>4, Zenon
           DEF IInv, TypeOK, diffVars, runVars, InShadow
<1>9. Registered' = Registered \cup {c}
  <2>1. \A d \in Cands : slot'[d] # 0 <=> slot[d] # 0 \/ d = c
    BY <1>16, Zenon DEF IInv, TypeOK
  <2> QED  BY <2>1, Zenon DEF Registered
<1>10. shadow' = OffShadow  BY <1>5, Zenon DEF IInv, diffVars
<1>11. CodeWatched'  BY <1>5, <1>9, Zenon DEF IInv, CodeWatched
<1>12. ASSUME NEW d \in Registered
       PROVE  val_gen'[d] = val_gen[d] /\ (cstate'[d] = cstate[d]
                                            \/ cstate'[d] = "BLACKLIST")
  BY <1>3, <1>5, Zenon DEF IInv, TypeOK
<1>13. val_gen'[c] = cand_gensum(c) /\ cstate'[c] = verdict
  BY <1>5, Zenon DEF IInv, TypeOK
<1>14. GenBehind'
  <2>1. SUFFICES ASSUME NEW d \in Registered \cup {c}
                 PROVE  val_gen'[d] <= cand_gensum(d)'
    BY <1>9, Zenon DEF GenBehind
  <2>2. CASE d = c  BY <1>7, <1>13, <2>2
  <2>3. CASE d \in Registered
    BY <1>3, <1>7, <1>12, <2>3, Zenon DEF IInv, GenBehind
  <2> QED  BY <2>2, <2>3, Zenon
<1>15. Trusted'
  <2>1. SUFFICES ASSUME NEW d \in Registered \cup {c},
                        cstate'[d] # "BLACKLIST",
                        cand_gensum(d)' = val_gen'[d]
                 PROVE  cstate'[d] = "VALID" <=> Resident(d)'
    BY <1>9, Zenon DEF Trusted, Live
  <2>2. CASE d = c  BY <1>4, <1>7, <1>13, <2>2, Zenon
  <2>3. CASE d \in Registered
    BY <1>3, <1>7, <1>12, <2>1, <2>3, Zenon DEF IInv, Trusted, Live
  <2> QED  BY <2>2, <2>3, Zenon
<1> QED  BY <1>8, <1>10, <1>11, <1>14, <1>15, Zenon DEF IInv

\* What one dispatch does besides recording verdicts: it enters the chosen
\* candidate or leaves the call to the interpreter.
DispatchStep ==
  /\ UNCHANGED <<ramVars, slot, diffVars>>
  /\ hint' \in [Buckets -> Cands \cup {NoCand}]
  /\ \E seen : seen \subseteq Live /\ Record(seen)
  /\ \/ UNCHANGED runVars
     \/ \E c \in Live : Resident(c) /\ RunNative(c)

\* A dispatch of an entry is a DispatchStep.
LEMMA EntryDispatches ==
  ASSUME DefaultTier, IInv, NEW e \in Words, DispatchEntry(e)
  PROVE  DispatchStep
<1> DEFINE chain == {c \in Live : Addr[c] = e}
           hits  == {c \in chain : cand_match(c)}
<1>1. UNCHANGED <<ramVars, slot, hint>>  BY Zenon DEF DispatchEntry
<1>2. hint' \in [Buckets -> Cands \cup {NoCand}]
  BY <1>1, Zenon DEF IInv, TypeOK
<1>3. \/ hits = {} /\ Record(chain) /\ Interpret
      \/ \E best \in hits :
           /\ Record({c \in chain : slot[c] >= slot[best]})
           /\ IF device_touch[best] THEN Interpret
              ELSE IF WantDiff(best) THEN StartShadow(best)
              ELSE IF MayRunNative(best, e) THEN RunNative(best)
              ELSE Interpret
  BY Zenon DEF DispatchEntry, Matching
<1>4. CASE hits = {} /\ Record(chain) /\ Interpret
  BY <1>1, <1>2, <1>4, Zenon DEF DispatchStep, Interpret
<1>5. ASSUME NEW best \in hits,
             Record({c \in chain : slot[c] >= slot[best]}),
             IF device_touch[best] THEN Interpret
             ELSE IF WantDiff(best) THEN StartShadow(best)
             ELSE IF MayRunNative(best, e) THEN RunNative(best)
             ELSE Interpret
      PROVE  DispatchStep
  <2>1. best \in Live /\ Resident(best)  BY MatchIsResident, Zenon
  <2>2. ~WantDiff(best)  BY Zenon DEF WantDiff, DefaultTier
  <2>3. Interpret \/ RunNative(best)  BY <1>5, <2>2, Zenon
  <2>4. \E seen : seen \subseteq Live /\ Record(seen)  BY <1>5, Zenon
  <2>5. CASE Interpret
    BY <1>1, <1>2, <2>4, <2>5, Zenon DEF DispatchStep, Interpret
  <2>6. CASE RunNative(best)
    <3>1. UNCHANGED diffVars  BY <2>6, Zenon DEF RunNative
    <3> QED  BY <1>1, <1>2, <2>1, <2>4, <2>6, <3>1, Zenon DEF DispatchStep
  <2> QED  BY <2>3, <2>5, <2>6, Zenon
<1> QED  BY <1>3, <1>4, <1>5, Zenon

\* So is a dispatch of a continuation.
LEMMA ContinuationDispatches ==
  ASSUME IInv, NEW e \in Words, DispatchContinuation(e)
  PROVE  DispatchStep
<1> DEFINE cover == Covering(e)
           hits  == {c \in cover : cand_match(c)}
           last  == hint[BktOf[e]]
<1>1. UNCHANGED <<ramVars, slot>>  BY Zenon DEF DispatchContinuation
<1>2. cover \subseteq Live  BY Zenon DEF Covering
<1>3. \/ hits = {} /\ Record(cover) /\ Interpret /\ UNCHANGED hint
      \/ \E best \in hits :
           /\ \/ Record({best})
              \/ Record({c \in cover : slot[c] <= slot[best] \/ c = last})
           /\ hint' = [hint EXCEPT ![BktOf[e]] = best]
           /\ IF ~device_touch[best] /\ MayRunNative(best, e)
              THEN RunNative(best) ELSE Interpret
  BY Zenon DEF DispatchContinuation, Matching
<1>4. CASE hits = {} /\ Record(cover) /\ Interpret /\ UNCHANGED hint
  <2>1. hint' \in [Buckets -> Cands \cup {NoCand}]
    BY <1>4, Zenon DEF IInv, TypeOK
  <2> QED  BY <1>1, <1>2, <1>4, <2>1, Zenon DEF DispatchStep, Interpret
<1>5. ASSUME NEW best \in hits,
             \/ Record({best})
             \/ Record({c \in cover : slot[c] <= slot[best] \/ c = last}),
             hint' = [hint EXCEPT ![BktOf[e]] = best],
             IF ~device_touch[best] /\ MayRunNative(best, e)
             THEN RunNative(best) ELSE Interpret
      PROVE  DispatchStep
  <2>1. best \in Live /\ Resident(best)  BY <1>2, MatchIsResident, Zenon
  <2>2. best \in Cands  BY <2>1, Zenon DEF Live, Registered
  <2>3. hint' \in [Buckets -> Cands \cup {NoCand}]
    BY <1>5, <2>2, Zenon DEF IInv, TypeOK
  <2>4. \E seen : seen \subseteq Live /\ Record(seen)
    <3>1. {best} \subseteq Live  BY <2>1, Zenon
    <3>2. {c \in cover : slot[c] <= slot[best] \/ c = last} \subseteq Live
      BY <1>2, Zenon
    <3> QED  BY <1>5, <3>1, <3>2, Zenon
  <2>5. CASE Interpret
    BY <1>1, <2>3, <2>4, <2>5, Zenon DEF DispatchStep, Interpret
  <2>6. CASE RunNative(best)
    <3>1. UNCHANGED diffVars  BY <2>6, Zenon DEF RunNative
    <3> QED  BY <1>1, <2>1, <2>3, <2>4, <2>6, <3>1, Zenon DEF DispatchStep
  <2> QED  BY <1>5, <2>5, <2>6, Zenon
<1> QED  BY <1>3, <1>4, <1>5, Zenon

\* Recording verdicts and entering native code keeps the invariant.
LEMMA DispatchPreserves ==
  ASSUME IInv, DispatchStep
  PROVE  IInv'
<1>1. PICK seen : seen \subseteq Live /\ Record(seen)  BY Zenon DEF DispatchStep
<1>2. CodeWatched' /\ GenBehind' /\ Trusted'
  BY <1>1, RecordKeepsTrust, Zenon DEF DispatchStep
<1>3. shadow' = OffShadow  BY Zenon DEF DispatchStep, IInv, diffVars
<1>4. frames' \in Seq(Cands) /\ active' \in Seq(Cands)
  <2>1. frames \in Seq(Cands) /\ active \in Seq(Cands)  BY Zenon DEF IInv, TypeOK
  <2>2. CASE UNCHANGED runVars  BY <2>1, <2>2, Zenon DEF runVars
  <2>3. ASSUME NEW c \in Live, RunNative(c)
        PROVE  frames' \in Seq(Cands) /\ active' \in Seq(Cands)
    <3>1. c \in Cands  BY Zenon DEF Live, Registered
    <3> QED  BY <2>1, <2>3, <3>1 DEF RunNative
  <2> QED  BY <2>2, <2>3, Zenon DEF DispatchStep
<1>5. cstate' \in [Cands -> States] /\ val_gen' \in [Cands -> Nat]
  <2>1. cstate' = [c \in Cands |-> IF c \notin seen THEN cstate[c]
                                   ELSE IF cand_match(c) THEN "VALID"
                                   ELSE "INVALID"]
    BY <1>1, Zenon DEF Record
  <2>2. cstate' \in [Cands -> States]  BY <2>1, Zenon DEF IInv, TypeOK, States
  <2>3. \A c \in Cands : cand_gensum(c) \in Nat
    BY GenUnitsFinite, Zenon DEF cand_gensum
  <2>4. val_gen' \in [Cands -> Nat]
    BY <1>1, <2>3, Zenon DEF Record, IInv, TypeOK
  <2> QED  BY <2>2, <2>4, Zenon
<1>6. valid_count' \in Nat
  <2> DEFINE lost   == {c \in seen : cstate[c] = "VALID" /\ ~cand_match(c)}
             gained == {c \in seen : cstate[c] # "VALID" /\ cand_match(c)}
  <2>1. lost \subseteq Cands /\ gained \subseteq Cands
    BY <1>1, Zenon DEF Live, Registered
  <2>2. Cardinality(lost) \in Nat /\ Cardinality(gained) \in Nat
    BY <2>1, CandSets, Zenon
  <2>3. valid_count' = Dec(valid_count, Cardinality(lost))
                          + Cardinality(gained)
    BY <1>1, Zenon DEF Record
  <2>4. Dec(valid_count, Cardinality(lost)) \in Nat
    BY <2>2, DecType, Zenon DEF IInv, TypeOK
  <2> QED  BY <2>2, <2>3, <2>4
<1>7. TypeOK'
  BY <1>3, <1>4, <1>5, <1>6, Zenon
     DEF DispatchStep, IInv, TypeOK, ramVars, diffVars, InShadow
<1> QED  BY <1>2, <1>3, <1>7, Zenon DEF IInv

\* Steps that only pop the host stack leave the verdicts alone.
LEMMA PopPreserves ==
  ASSUME IInv, UNCHANGED <<ramVars, candVars, diffVars, hint>>,
         frames' \in Seq(Cands), active' \in Seq(Cands)
  PROVE  IInv'
<1>1. TypeOK' /\ shadow' = OffShadow
  BY Zenon DEF IInv, TypeOK, ramVars, candVars, diffVars, InShadow
<1>2. Registered' = Registered /\ Live' = Live
  BY Zenon DEF Registered, Live, candVars
<1>3. \A c \in Cands : cand_gensum(c)' = cand_gensum(c)
                       /\ (Resident(c)' <=> Resident(c))
  BY Zenon DEF cand_gensum, Resident, ramVars
<1>4. CodeWatched'  BY <1>2, Zenon DEF IInv, CodeWatched, ramVars
<1>5. GenBehind'
  BY <1>2, <1>3, Zenon DEF IInv, GenBehind, candVars, Registered
<1>6. Trusted'
  BY <1>2, <1>3, Zenon DEF IInv, Trusted, candVars, Live, Registered
<1> QED  BY <1>1, <1>4, <1>5, <1>6, Zenon DEF IInv

\* A prefix of a sequence.
LEMMA FrontInSeq ==
  ASSUME NEW S, NEW s \in Seq(S), NEW n \in 0..Len(s)
  PROVE  SubSeq(s, 1, n) \in Seq(S) /\ Len(SubSeq(s, 1, n)) = n
OBVIOUS

\* Every step of Next in the default tier, sorted by what it does.
LEMMA NextCases ==
  ASSUME DefaultTier, IInv, Next
  PROVE  \/ \E w \in Words, b \in Bytes : Store(w, b)
         \/ \E image \in Images : Restore(image)
         \/ \E n \in 0..MaxDepth : Unwind(n)
         \/ \E c \in Cands : cand_register(c)
         \/ DispatchStep
         \/ Return
<1>1. \A c \in Cands : ~try_sljit_region(c) /\ ~scan_sljit_shard(c)
  BY Zenon DEF DefaultTier, try_sljit_region, scan_sljit_shard
<1>2. shadow.pass = "off"  BY Zenon DEF IInv, OffShadow
<1>3. /\ ~ShadowDevice /\ ~ShadowSwap
      /\ \A r \in BOOLEAN : ~ShadowCompare(r)
  BY <1>2, Zenon DEF ShadowDevice, ShadowSwap, ShadowCompare
<1>4. \A e \in Words : DispatchEntry(e) \/ DispatchContinuation(e) => DispatchStep
  BY EntryDispatches, ContinuationDispatches, Zenon
<1> QED  BY <1>1, <1>3, <1>4, Zenon DEF Next, Step

\* The invariant is inductive.
LEMMA NextPreserves ==
  ASSUME DefaultTier, IInv, [Next]_vars
  PROVE  IInv'
<1>1. CASE UNCHANGED vars
  <2>1. frames' \in Seq(Cands) /\ active' \in Seq(Cands)
    BY <1>1, Zenon DEF IInv, TypeOK, vars, runVars
  <2> QED  BY <1>1, <2>1, PopPreserves, Zenon DEF vars
<1>2. CASE Next
  <2>1. ASSUME NEW n \in 0..MaxDepth, Unwind(n)  PROVE IInv'
    <3>1. frames \in Seq(Cands) /\ n \in 0..Len(frames)
      BY <2>1, BoundAssumption DEF IInv, TypeOK, Unwind
    <3>2. frames' \in Seq(Cands) /\ active' \in Seq(Cands)
      BY <2>1, <3>1, FrontInSeq, Zenon DEF IInv, TypeOK, Unwind
    <3> QED  BY <2>1, <3>2, PopPreserves, Zenon DEF Unwind
  <2>2. CASE Return
    <3>1. frames \in Seq(Cands) /\ active \in Seq(Cands) /\ frames # << >>
      BY <2>2, Zenon DEF IInv, TypeOK, Return
    <3>2. Len(frames) - 1 \in 0..Len(frames)  BY <3>1
    <3>3. active # << >> => Len(active) - 1 \in 0..Len(active)  BY <3>1
    <3>4. frames' \in Seq(Cands) /\ active' \in Seq(Cands)
      BY <2>2, <3>1, <3>2, <3>3, FrontInSeq, Zenon DEF Return
    <3> QED  BY <2>2, <3>4, PopPreserves, Zenon DEF Return
  <2> QED  BY <1>2, <2>1, <2>2, NextCases, StorePreserves, RestorePreserves,
              RegisterPreserves, DispatchPreserves, Zenon
<1> QED  BY <1>1, <1>2, Zenon

\* It holds before anything is registered.
LEMMA InitEstablishes == Init => IInv
<1> SUFFICES ASSUME Init PROVE IInv  BY Zenon
<1>1. OffShadow.pass = "off"  BY Zenon DEF OffShadow
<1>2. /\ << >> \in Seq(Cands)
      /\ 0 \in 0..MaxGen /\ 0 \in 0..OVERLAY_DIFF_BUDGET
  BY BoundAssumption
<1>3. Registered = {} /\ Live = {}  BY Zenon DEF Init, Registered, Live
<1>4. TypeOK
  <2>1. /\ gen \in [Pages -> 0..MaxGen]
        /\ diff_passes \in [Cands -> 0..OVERLAY_DIFF_BUDGET]
    BY <1>2, Zenon DEF Init
  <2>2. device_touch \in [Cands -> BOOLEAN]  BY Zenon DEF Init
  <2>3. hint \in [Buckets -> Cands \cup {NoCand}]  BY Zenon DEF Init
  <2> QED  BY <1>1, <1>2, <2>1, <2>2, <2>3, Zenon DEF Init, TypeOK, States, InShadow
<1> QED  BY <1>3, <1>4, Zenon DEF Init, IInv, CodeWatched, GenBehind, Trusted

\* The settings never change, so the invariant of the shipped configuration
\* is kept by every step from a state with these settings.
LEMMA SettingsPreserve ==
  ASSUME DefaultTier => IInv, [Next]_vars
  PROVE  (DefaultTier => IInv)'
<1>1. UNCHANGED settings  BY Zenon DEF Next, vars
<1>2. DefaultTier' <=> DefaultTier  BY <1>1, Zenon DEF settings, DefaultTier
<1> QED  BY <1>2, NextPreserves, Zenon

\* In the shipped configuration an unchanged generation sum always proves the recorded verdict of cand_match, whatever
\* stores, save-state restores, registrations, dispatches and unwinds happen.
THEOREM TrustHolds == Spec => []GenerationTrust
<1> DEFINE SInv == DefaultTier => IInv
<1>1. Init => SInv  BY InitEstablishes, Zenon
<1>2. SInv /\ [Next]_vars => SInv'  BY SettingsPreserve, Zenon
<1>3. SInv => GenerationTrust  BY Zenon DEF IInv, Trusted, GenerationTrust
<1> HIDE DEF SInv
<1> QED  BY <1>1, <1>2, <1>3, PTL DEF Spec

\* In the shipped configuration native overlay code is entered only while RAM
\* holds exactly the bytes it was compiled from.
THEOREM NativeAlwaysLive == Spec => NativeRunsLiveBytes
<1> DEFINE SInv == DefaultTier => IInv
<1>1. ASSUME SInv, [Next]_vars
      PROVE  [DefaultTier /\ CallsNative => Resident(Callee)]_vars
  <2>1. SUFFICES ASSUME Next, DefaultTier, Len(frames') > Len(frames)
                 PROVE  Resident(frames'[Len(frames')])
    BY <1>1, Zenon DEF CallsNative, Callee
  <2>2. IInv /\ frames \in Seq(Cands)  BY <1>1, <2>1, Zenon DEF IInv, TypeOK
  <2>3. CASE DispatchStep
    <3>1. CASE UNCHANGED runVars  BY <2>1, <2>2, <3>1 DEF runVars
    <3>2. ASSUME NEW c \in Live, Resident(c), RunNative(c)
          PROVE  Resident(frames'[Len(frames')])
      <4>1. c \in Cands /\ frames' = Append(frames, c)
        BY <3>2, Zenon DEF Live, Registered, RunNative
      <4>2. frames'[Len(frames')] = c  BY <2>2, <4>1
      <4> QED  BY <3>2, <4>2, Zenon
    <3> QED  BY <2>3, <3>1, <3>2, Zenon DEF DispatchStep
  <2>4. ASSUME NEW n \in 0..MaxDepth, Unwind(n)  PROVE FALSE
    <3>1. n \in 0..Len(frames) /\ frames' = SubSeq(frames, 1, n)
      BY <2>2, <2>4, BoundAssumption DEF Unwind
    <3>2. Len(frames') = n  BY <2>2, <3>1, FrontInSeq, Zenon
    <3> QED  BY <2>1, <2>2, <3>1, <3>2
  <2>5. CASE Return
    <3>1. Len(frames) - 1 \in 0..Len(frames)
          /\ frames' = SubSeq(frames, 1, Len(frames) - 1)
      BY <2>2, <2>5 DEF Return
    <3>2. Len(frames') = Len(frames) - 1  BY <2>2, <3>1, FrontInSeq, Zenon
    <3> QED  BY <2>1, <2>2, <3>1, <3>2
  <2>6. ASSUME NEW w \in Words, NEW b \in Bytes, Store(w, b)  PROVE FALSE
    BY <2>1, <2>2, <2>6 DEF Store, runVars
  <2>7. ASSUME NEW image \in Images, Restore(image)  PROVE FALSE
    <3>1. Len(frames') = 0  BY <2>7, Zenon DEF Restore
    <3> QED  BY <2>1, <2>2, <3>1
  <2>8. ASSUME NEW c \in Cands, cand_register(c)  PROVE FALSE
    BY <2>1, <2>2, <2>8 DEF cand_register, AddCandidate, runVars
  <2> QED  BY <2>1, <2>2, <2>3, <2>4, <2>5, <2>6, <2>7, <2>8, NextCases, Zenon
<1>2. Init => SInv  BY InitEstablishes, Zenon
<1>3. SInv /\ [Next]_vars => SInv'  BY SettingsPreserve, Zenon
<1> HIDE DEF SInv
<1> QED  BY <1>1, <1>2, <1>3, PTL DEF Spec, NativeRunsLiveBytes

-----------------------------------------------------------------------------
(* Functions on the host stack, in every configuration. *)

\* The RAM a differential run keeps aside is a RAM.
ShadowStates == [pass : {"interp", "native"}, cand : Cands, saved : Images]
ShadowOK == InShadow => shadow \in ShadowStates

RunInv ==
  /\ ShadowOK
  /\ frames \in Seq(Cands) /\ active \in Seq(Cands) /\ Len(frames) <= MaxDepth
  /\ slot \in [Cands -> Nat] /\ cstate \in [Cands -> States] /\ ram \in Images
  /\ diff_passes \in [Cands -> 0..OVERLAY_DIFF_BUDGET]
  /\ CodeWatched
  /\ \A i \in 1..Len(frames) : frames[i] \in Registered

\* What is on s_active_stack is on the host stack, in the same order: f says where.  (With a
\* full s_active_stack a call is not pushed, but its return still pops an entry.)
Places(f, a, s) ==
  /\ f \in [1..Len(a) -> 1..Len(s)]
  /\ \A i \in 1..Len(a) : a[i] = s[f[i]]
  /\ \A i, j \in 1..Len(a) : i < j => f[i] < f[j]

Tracked == \E f : Places(f, active, frames)

\* A demotion is for good, and only sets "BLACKLIST".
Demotes(set) ==
  \A c \in Cands : cstate'[c] = "BLACKLIST" <=> cstate[c] = "BLACKLIST" \/ c \in set

\* Recording the verdicts of a look-up demotes nothing and revives nothing demoted.
LEMMA RecordDemotes ==
  ASSUME RunInv, NEW seen, seen \subseteq Live, Record(seen)
  PROVE  cstate' \in [Cands -> States] /\ Demotes({})
<1>1. cstate' = [c \in Cands |-> IF c \notin seen THEN cstate[c]
                                 ELSE IF cand_match(c) THEN "VALID" ELSE "INVALID"]
  BY Zenon DEF Record
<1> QED BY <1>1, Zenon DEF RunInv, Demotes, States, Live

\* What a dispatch does besides recording verdicts.
LEMMA DispatchRuns ==
  ASSUME RunInv, NEW e \in Words, DispatchEntry(e) \/ DispatchContinuation(e)
  PROVE  /\ UNCHANGED <<ram, watched, slot>> /\ cstate' \in [Cands -> States] /\ Demotes({})
         /\ \/ UNCHANGED <<diffVars, runVars>>
            \/ \E c \in Registered :
                 /\ RunNative(c)
                 /\ ~InShadow /\ (~g_psx_cps_mode => ~device_touch[c] /\ ~WantDiff(c))
            \/ ~InShadow /\ \E c \in Registered : StartShadow(c)
<1>1. CASE DispatchEntry(e)
  <2> DEFINE chain == {c \in Live : Addr[c] = e}
             hits == Matching(chain)
  <2>1. hits \subseteq chain /\ chain \subseteq Live /\ Live \subseteq Registered
    BY Zenon DEF Matching, Live
  <2>2. UNCHANGED <<ram, watched, slot>>
    BY <1>1, Zenon DEF DispatchEntry, ramVars
  <2>3. \/ hits = {} /\ Record(chain) /\ Interpret
        \/ \E best \in hits :
             /\ Record({c \in chain : slot[c] >= slot[best]})
             /\ IF device_touch[best] THEN Interpret
                ELSE IF WantDiff(best) THEN StartShadow(best)
                ELSE IF MayRunNative(best, e) THEN RunNative(best)
                ELSE Interpret
    BY <1>1, Zenon DEF DispatchEntry
  <2>4. CASE hits = {} /\ Record(chain) /\ Interpret
    BY <2>1, <2>2, <2>4, RecordDemotes, Zenon DEF Interpret
  <2>5. ASSUME NEW best \in hits, Record({c \in chain : slot[c] >= slot[best]}),
               IF device_touch[best] THEN Interpret
               ELSE IF WantDiff(best) THEN StartShadow(best)
               ELSE IF MayRunNative(best, e) THEN RunNative(best)
               ELSE Interpret
        PROVE  /\ cstate' \in [Cands -> States] /\ Demotes({})
               /\ \/ UNCHANGED <<diffVars, runVars>>
                  \/ \E c \in Registered :
                       /\ RunNative(c)
                       /\ ~InShadow /\ (~g_psx_cps_mode => ~device_touch[c] /\ ~WantDiff(c))
                  \/ ~InShadow /\ \E c \in Registered : StartShadow(c)
    <3>1. best \in Registered /\ {c \in chain : slot[c] >= slot[best]} \subseteq Live
      BY <2>1, Zenon
    <3>2. cstate' \in [Cands -> States] /\ Demotes({})
      BY <2>5, <3>1, RecordDemotes, Zenon
    <3>3. \/ Interpret
          \/ WantDiff(best) /\ StartShadow(best)
          \/ ~device_touch[best] /\ ~WantDiff(best) /\ MayRunNative(best, e) /\ RunNative(best)
      BY <2>5, Zenon
    <3> QED BY <3>1, <3>2, <3>3, Zenon DEF Interpret, WantDiff, MayRunNative
  <2> HIDE DEF chain, hits
  <2> QED BY <2>2, <2>3, <2>4, <2>5, Zenon
<1>2. CASE DispatchContinuation(e)
  <2> DEFINE cover == Covering(e)
             hits == Matching(cover)
             last == hint[BktOf[e]]
  <2>1. hits \subseteq cover /\ cover \subseteq Live /\ Live \subseteq Registered
    BY Zenon DEF Matching, Covering, Live
  <2>2. UNCHANGED <<ram, watched, slot>> /\ g_psx_cps_mode
    BY <1>2, Zenon DEF DispatchContinuation, ramVars
  <2>3. \/ hits = {} /\ Record(cover) /\ Interpret
        \/ \E best \in hits :
             /\ \/ Record({best})
                \/ Record({c \in cover : slot[c] <= slot[best] \/ c = last})
             /\ IF ~device_touch[best] /\ MayRunNative(best, e)
                THEN RunNative(best) ELSE Interpret
    BY <1>2, Zenon DEF DispatchContinuation
  <2>4. CASE hits = {} /\ Record(cover) /\ Interpret
    BY <2>1, <2>2, <2>4, RecordDemotes, Zenon DEF Interpret
  <2>5. ASSUME NEW best \in hits,
               \/ Record({best})
               \/ Record({c \in cover : slot[c] <= slot[best] \/ c = last}),
               IF ~device_touch[best] /\ MayRunNative(best, e) THEN RunNative(best) ELSE Interpret
        PROVE  /\ cstate' \in [Cands -> States] /\ Demotes({})
               /\ UNCHANGED <<diffVars, runVars>> \/ \E c \in Registered : RunNative(c) /\ ~InShadow
    <3>1. /\ best \in Registered /\ {best} \subseteq Live
          /\ {c \in cover : slot[c] <= slot[best] \/ c = last} \subseteq Live
      BY <2>1, Zenon
    <3>2. cstate' \in [Cands -> States] /\ Demotes({})
      BY <2>5, <3>1, RecordDemotes, Zenon
    <3> QED BY <2>5, <3>1, <3>2, Zenon DEF Interpret, MayRunNative
  <2> HIDE DEF cover, hits, last
  <2> QED BY <2>2, <2>3, <2>4, <2>5, Zenon
<1> QED BY <1>1, <1>2, Zenon

\* A registration: c was not registered, and only shards may lose their rank.
LEMMA AddRuns ==
  ASSUME RunInv, NEW c \in Cands, CanRegister(c), NEW st \in {"VALID", "INVALID"},
         NEW retired, retired \subseteq Live \cap Shards, AddCandidate(c, st, retired)
  PROVE  /\ UNCHANGED <<ram, diffVars, runVars>> /\ cstate' \in [Cands -> States]
         /\ slot' \in [Cands -> Nat] /\ Registered' = Registered \cup {c} /\ c \notin Registered
         /\ CodeWatched'
         /\ \A d \in Registered : cstate[d] = "BLACKLIST" => cstate'[d] = "BLACKLIST"
         /\ \A d \in Cands \ Shards : cstate'[d] = "BLACKLIST" => cstate[d] = "BLACKLIST"
<1>1. Cardinality(Registered) \in Nat
  <2>1. Registered \subseteq Cands
    BY Zenon DEF Registered
  <2> QED BY <2>1, CandSets, Zenon
<1>2. slot' = [slot EXCEPT ![c] = Cardinality(Registered) + 1] /\ slot[c] = 0
  BY Zenon DEF AddCandidate, CanRegister
<1>3. slot' \in [Cands -> Nat] /\ Registered' = Registered \cup {c} /\ c \notin Registered
  <2>1. PICK k \in Nat : k # 0 /\ k = Cardinality(Registered) + 1
    BY <1>1
  <2>2. slot' = [slot EXCEPT ![c] = k] /\ slot \in [Cands -> Nat]
    BY <1>2, <2>1, Zenon DEF RunInv
  <2>3. slot' \in [Cands -> Nat] /\ slot'[c] # 0 /\ \A d \in Cands : d # c => slot'[d] = slot[d]
    BY <2>1, <2>2, Zenon
  <2> QED BY <1>2, <2>3, Zenon DEF Registered
<1>4. watched' = watched \cup CodePages(c)
  BY Zenon DEF AddCandidate
<1>5. CodeWatched'
  BY <1>3, <1>4, Zenon DEF RunInv, CodeWatched
<1>6. cstate' = [d \in Cands |-> IF d = c THEN st ELSE IF d \in retired THEN "BLACKLIST" ELSE cstate[d]]
  BY Zenon DEF AddCandidate
<1>7. Registered \subseteq Cands
  BY Zenon DEF Registered
<1>8. cstate' \in [Cands -> States]
  BY <1>6, Zenon DEF RunInv, States
<1>9. \A d \in Registered : cstate[d] = "BLACKLIST" => cstate'[d] = "BLACKLIST"
  BY <1>3, <1>6, <1>7, Zenon
<1>10. \A d \in Cands \ Shards : cstate'[d] = "BLACKLIST" => cstate[d] = "BLACKLIST"
  BY <1>6, Zenon
<1> QED BY <1>3, <1>5, <1>8, <1>9, <1>10, Zenon DEF AddCandidate

\* Each way to register a candidate adds it, and may retire shards it replaces.
LEMMA RegisterRuns ==
  ASSUME NEW c \in Cands, cand_register(c) \/ try_sljit_region(c) \/ scan_sljit_shard(c)
  PROVE  /\ CanRegister(c)
         /\ \E st \in {"VALID", "INVALID"}, retired \in SUBSET (Live \cap Shards) : AddCandidate(c, st, retired)
<1>1. CASE cand_register(c)
  BY <1>1, Zenon DEF cand_register, Superseded
<1>2. CASE try_sljit_region(c) \/ scan_sljit_shard(c)
  BY <1>2, Zenon DEF try_sljit_region, scan_sljit_shard
<1> QED BY <1>1, <1>2, Zenon

\* A store demotes the tracked functions whose code it hits, on a watched page.
LEMMA StoreRuns ==
  ASSUME RunInv, NEW w \in Words, NEW b \in Bytes, Store(w, b)
  PROVE  /\ UNCHANGED <<watched, slot, diffVars, runVars>> /\ cstate' \in [Cands -> States]
         /\ ram' \in Images /\ \A v \in Words : v # w => ram'[v] = ram[v]
         /\ Demotes({c \in Range(active) : w \in Code(c) /\ PageOf[w] \in watched})
<1>1. UNCHANGED <<watched, slot, diffVars, runVars>> /\ ram' = [ram EXCEPT ![w] = b]
  BY Zenon DEF Store
<1>2. ram' \in Images /\ \A v \in Words : v # w => ram'[v] = ram[v]
  BY <1>1, Zenon DEF RunInv, Images
<1>3. CASE PageOf[w] \in watched
  <2>1. cstate' = [c \in Cands |-> IF c \in {d \in Range(active) : w \in Code(d) /\ cstate[d] # "BLACKLIST"}
                                   THEN "BLACKLIST" ELSE cstate[c]]
    BY <1>3, Zenon DEF Store, overlay_watch_note_write, active_write_check
  <2>2. cstate' \in [Cands -> States]
    BY <2>1, Zenon DEF RunInv, States
  <2>3. Demotes({c \in Range(active) : w \in Code(c) /\ PageOf[w] \in watched})
    BY <1>3, <2>1, Zenon DEF Demotes
  <2> QED BY <1>1, <1>2, <2>2, <2>3, Zenon
<1>4. CASE PageOf[w] \notin watched
  <2>1. UNCHANGED cstate
    BY <1>4, Zenon DEF Store, overlay_watch_note_write
  <2> QED BY <1>1, <1>2, <1>4, <2>1, Zenon DEF RunInv, Demotes
<1> QED BY <1>3, <1>4, Zenon

\* A call and a return, on the host stack and on s_active_stack.
LEMMA CallParts ==
  ASSUME frames \in Seq(Cands), active \in Seq(Cands), NEW c \in Cands, RunNative(c)
  PROVE  /\ frames' = Append(frames, c) /\ frames' \in Seq(Cands) /\ Len(frames') = Len(frames) + 1
         /\ frames'[Len(frames')] = c /\ \A i \in 1..Len(frames) : frames'[i] = frames[i]
         /\ Len(frames) < MaxDepth /\ active' \in Seq(Cands)
         /\ \/ active' = active
            \/ /\ active' = Append(active, c) /\ Len(active') = Len(active) + 1
               /\ active'[Len(active) + 1] = c /\ \A i \in 1..Len(active) : active'[i] = active[i]
<1>1. /\ frames' = Append(frames, c) /\ Len(frames) < MaxDepth
      /\ active' = active \/ active' = Append(active, c)
  BY Zenon DEF RunNative
<1>2. \A q \in Seq(Cands) :
        /\ Append(q, c) \in Seq(Cands) /\ Len(Append(q, c)) = Len(q) + 1
        /\ Append(q, c)[Len(q) + 1] = c /\ \A i \in 1..Len(q) : Append(q, c)[i] = q[i]
  OBVIOUS
<1> QED BY <1>1, <1>2, Zenon

\* A prefix of a stack is a stack of that many entries, the same ones.
LEMMA PrefixParts ==
  ASSUME NEW q \in Seq(Cands), NEW n \in 0..Len(q)
  PROVE  /\ SubSeq(q, 1, n) \in Seq(Cands) /\ Len(SubSeq(q, 1, n)) = n
         /\ \A i \in 1..n : SubSeq(q, 1, n)[i] = q[i]
  OBVIOUS

\* A return takes the top of either stack and touches nothing below it.
LEMMA ReturnParts ==
  ASSUME frames \in Seq(Cands), active \in Seq(Cands), Return
  PROVE  /\ frames' \in Seq(Cands) /\ active' \in Seq(Cands)
         /\ Len(frames) > 0 /\ Len(frames') = Len(frames) - 1
         /\ \A i \in 1..Len(frames') : frames'[i] = frames[i]
         /\ \/ Len(active) = 0 /\ active' = active
            \/ Len(active) > 0 /\ Len(active') = Len(active) - 1
         /\ \A i \in 1..Len(active') : active'[i] = active[i]
<1>1. /\ frames # << >> /\ frames' = SubSeq(frames, 1, Len(frames) - 1)
      /\ active' = IF active = << >> THEN active ELSE SubSeq(active, 1, Len(active) - 1)
  BY Zenon DEF Return
<1>2. Len(frames) > 0 /\ Len(frames) - 1 \in 0..Len(frames)
  BY <1>1
<1>3. /\ frames' \in Seq(Cands) /\ Len(frames') = Len(frames) - 1
      /\ \A i \in 1..Len(frames') : frames'[i] = frames[i]
  BY <1>1, <1>2, PrefixParts, Zenon
<1>4. CASE active = << >>
  BY <1>1, <1>2, <1>3, <1>4, Zenon
<1>5. CASE active # << >>
  <2>1. Len(active) > 0 /\ Len(active) - 1 \in 0..Len(active)
    BY <1>5
  <2>2. /\ active' \in Seq(Cands) /\ Len(active') = Len(active) - 1
        /\ \A i \in 1..Len(active') : active'[i] = active[i]
    BY <1>1, <1>5, <2>1, PrefixParts, Zenon
  <2> QED BY <1>2, <1>3, <2>1, <2>2, Zenon
<1> QED BY <1>4, <1>5, Zenon

\* The invariant of the running overlays holds initially
LEMMA RunStart == Init => RunInv /\ active = frames /\ ~InShadow
<1> SUFFICES ASSUME Init PROVE RunInv /\ active = frames /\ ~InShadow
  BY Zenon
<1>1. /\ << >> \in Seq(Cands) /\ Len(frames) = 0 /\ 0 <= MaxDepth /\ 0 \in 0..OVERLAY_DIFF_BUDGET
      /\ "none" \in States
  BY BoundAssumption DEF Init, States
<1>2. Registered = {}
  BY Zenon DEF Init, Registered
<1>3. diff_passes \in [Cands -> 0..OVERLAY_DIFF_BUDGET]
  BY <1>1, Zenon DEF Init
<1> QED BY <1>1, <1>2, <1>3 DEF Init, RunInv, CodeWatched, ShadowOK, InShadow, OffShadow

\* and is kept by every step.
LEMMA RunStep == RunInv /\ [Next]_vars => RunInv'
<1> SUFFICES ASSUME RunInv, [Next]_vars PROVE RunInv'
  BY Zenon
<1>0. /\ frames \in Seq(Cands) /\ active \in Seq(Cands) /\ Len(frames) \in Nat /\ MaxDepth \in Nat
      /\ Len(frames) <= MaxDepth
  BY BoundAssumption DEF RunInv
<1>0a. UNCHANGED shadow => ShadowOK'
  BY Zenon DEF RunInv, ShadowOK, InShadow
<1>1. ASSUME UNCHANGED <<slot, watched>>, frames' \in Seq(Cands), active' \in Seq(Cands),
             Len(frames') <= Len(frames), \A i \in 1..Len(frames') : frames'[i] = frames[i],
             cstate' \in [Cands -> States], ram' \in Images, ShadowOK',
             diff_passes' \in [Cands -> 0..OVERLAY_DIFF_BUDGET]
      PROVE  RunInv'
  <2>1. Len(frames') <= MaxDepth /\ \A i \in 1..Len(frames') : i \in 1..Len(frames)
    BY <1>0, <1>1
  <2>2. CodeWatched' /\ Registered' = Registered
    BY <1>1, Zenon DEF RunInv, CodeWatched, Registered
  <2>3. \A i \in 1..Len(frames') : frames'[i] \in Registered'
    BY <1>1, <2>1, <2>2, Zenon DEF RunInv
  <2> QED BY <1>1, <2>1, <2>2, <2>3, Zenon DEF RunInv
<1>2. ASSUME UNCHANGED <<slot, watched, runVars>>, cstate' \in [Cands -> States], ram' \in Images, ShadowOK',
             diff_passes' \in [Cands -> 0..OVERLAY_DIFF_BUDGET]
      PROVE  RunInv'
  BY <1>0, <1>1, <1>2 DEF runVars
<1>3. ASSUME NEW w \in Words, NEW b \in Bytes, Store(w, b) PROVE RunInv'
  BY <1>0a, <1>2, <1>3, StoreRuns, Zenon DEF RunInv, diffVars
<1>4. ASSUME NEW image \in Images, Restore(image) PROVE RunInv'
  <2>1. /\ UNCHANGED <<slot, watched, cstate, diff_passes, active, shadow>> /\ ram' = image
        /\ frames' = << >> /\ Len(frames') = 0
    BY <1>4, Zenon DEF Restore, candVars, diffVars
  <2> QED BY <1>0, <1>0a, <1>1, <2>1 DEF RunInv
<1>5. ASSUME NEW n \in 0..MaxDepth, Unwind(n) PROVE RunInv'
  <2>1. /\ UNCHANGED <<slot, watched, cstate, diff_passes, active, ram, shadow>>
        /\ frames' = SubSeq(frames, 1, n) /\ n \in 0..Len(frames)
    BY <1>0, <1>5 DEF Unwind, candVars, diffVars, ramVars
  <2>2. /\ frames' \in Seq(Cands) /\ Len(frames') = n /\ n <= Len(frames)
        /\ \A i \in 1..n : frames'[i] = frames[i]
    BY <1>0, <2>1, PrefixParts, SMTT(60)
  <2> QED BY <1>0a, <1>1, <2>1, <2>2, Zenon DEF RunInv
<1>6. ASSUME NEW c \in Cands, cand_register(c) \/ try_sljit_region(c) \/ scan_sljit_shard(c) PROVE RunInv'
  <2>1. /\ UNCHANGED <<ram, diffVars, runVars>> /\ cstate' \in [Cands -> States]
        /\ slot' \in [Cands -> Nat] /\ Registered' = Registered \cup {c} /\ CodeWatched'
    BY <1>6, RegisterRuns, AddRuns, Zenon
  <2> QED BY <1>0a, <2>1, Zenon DEF RunInv, runVars, diffVars
<1>7. ASSUME NEW e \in Words, DispatchEntry(e) \/ DispatchContinuation(e) PROVE RunInv'
  <2>1. UNCHANGED <<ram, watched, slot>> /\ cstate' \in [Cands -> States]
    BY <1>7, DispatchRuns, Zenon
  <2>2. CASE UNCHANGED <<diffVars, runVars>>
    BY <1>0a, <1>2, <2>1, <2>2, Zenon DEF RunInv, diffVars
  <2>3. ASSUME NEW c \in Registered, RunNative(c) PROVE RunInv'
    <3>1. c \in Cands
      BY Zenon DEF Registered
    <3>2. /\ frames' \in Seq(Cands) /\ Len(frames') = Len(frames) + 1
          /\ frames'[Len(frames')] = c /\ \A i \in 1..Len(frames) : frames'[i] = frames[i]
          /\ Len(frames) < MaxDepth /\ active' \in Seq(Cands) /\ UNCHANGED diffVars
      BY <1>0, <2>3, <3>1, CallParts, Zenon DEF RunNative
    <3>3. Registered' = Registered /\ CodeWatched'
      BY <2>1, Zenon DEF RunInv, CodeWatched, Registered
    <3>4. Len(frames') <= MaxDepth /\ \A i \in 1..Len(frames') : i \in 1..Len(frames) \/ i = Len(frames')
      BY <1>0, <3>2
    <3>5. \A i \in 1..Len(frames') : frames'[i] \in Registered'
      BY <3>2, <3>3, <3>4, Zenon DEF RunInv
    <3> QED BY <1>0a, <2>1, <3>2, <3>3, <3>4, <3>5, Zenon DEF RunInv, diffVars
  <2>4. ASSUME NEW c \in Registered, StartShadow(c) PROVE RunInv'
    <3>1. ShadowOK'
      BY <2>4, Zenon DEF RunInv, ShadowOK, StartShadow, ShadowStates, Registered
    <3> QED BY <1>2, <2>1, <2>4, <3>1, Zenon DEF RunInv, StartShadow
  <2> QED BY <1>7, <2>2, <2>3, <2>4, DispatchRuns, Zenon
<1>8. CASE Return
  <2>1. /\ frames' \in Seq(Cands) /\ active' \in Seq(Cands) /\ Len(frames') = Len(frames) - 1
        /\ \A i \in 1..Len(frames') : frames'[i] = frames[i]
    BY <1>0, <1>8, ReturnParts, Zenon
  <2>2. UNCHANGED <<slot, watched, cstate, diff_passes, ram, shadow>>
    BY <1>8, Zenon DEF Return, candVars, diffVars, ramVars
  <2>3. Len(frames') <= Len(frames)
    BY <1>0, <2>1
  <2> QED BY <1>0a, <1>1, <2>1, <2>2, <2>3, Zenon DEF RunInv
<1>9. CASE UNCHANGED vars
  BY <1>0a, <1>2, <1>9, Zenon DEF RunInv, vars, ramVars, candVars, diffVars
<1>10. CASE ShadowDevice \/ ShadowSwap
  <2>1. CASE ShadowDevice
    <3>1. UNCHANGED <<slot, watched, runVars, cstate, ram, diff_passes>> /\ shadow' = OffShadow
      BY <2>1, Zenon DEF ShadowDevice, ramVars, candVars
    <3>2. ShadowOK'
      BY <3>1, Zenon DEF ShadowOK, InShadow, OffShadow
    <3> QED BY <1>2, <3>1, <3>2, Zenon DEF RunInv
  <2>2. CASE ShadowSwap
    <3>1. /\ UNCHANGED <<slot, watched, runVars, cstate, diff_passes>> /\ shadow.pass = "interp"
          /\ ram' = shadow.saved /\ shadow' = [shadow EXCEPT !.pass = "native", !.saved = ram]
      BY <2>2, Zenon DEF ShadowSwap, candVars
    <3>2. ram' \in Images /\ shadow' \in ShadowStates
      BY <3>1, Zenon DEF RunInv, ShadowOK, InShadow, ShadowStates
    <3>3. ShadowOK'
      BY <3>2, Zenon DEF ShadowOK, ShadowStates
    <3> QED BY <1>2, <3>1, <3>2, <3>3, Zenon DEF RunInv
  <2> QED BY <1>10, <2>1, <2>2, Zenon
<1>11. ASSUME NEW same \in BOOLEAN, ShadowCompare(same) PROVE RunInv'
  <2>1. /\ UNCHANGED <<slot, watched, runVars, cstate>> /\ shadow.pass = "native"
        /\ ram' = shadow.saved /\ shadow' = OffShadow
        /\ \E clean : diff_passes' = [diff_passes EXCEPT ![shadow.cand] = Credit(shadow.cand, clean)]
    BY <1>11, Zenon DEF ShadowCompare, candVars
  <2>2. ram' \in Images /\ ShadowOK'
    BY <2>1, Zenon DEF RunInv, ShadowOK, InShadow, OffShadow, ShadowStates
  <2>3. diff_passes' \in [Cands -> 0..OVERLAY_DIFF_BUDGET]
    <3>1. \A c \in Cands : \A clean : Credit(c, clean) \in 0..OVERLAY_DIFF_BUDGET
      BY BoundAssumption DEF Credit, RunInv
    <3>2. shadow.cand \in Cands
      BY <2>1, Zenon DEF RunInv, ShadowOK, InShadow, ShadowStates
    <3>3. PICK k \in 0..OVERLAY_DIFF_BUDGET : diff_passes' = [diff_passes EXCEPT ![shadow.cand] = k]
      BY <2>1, <3>1, <3>2, Zenon
    <3> QED BY <3>2, <3>3, Zenon DEF RunInv
  <2> QED BY <1>2, <2>1, <2>2, <2>3, Zenon DEF RunInv
<1> QED BY <1>3, <1>4, <1>5, <1>6, <1>7, <1>8, <1>9, <1>10, <1>11, Zenon DEF Next, Step

\* Whatever a step calls is on top of the new stack; only a dispatch calls.
LEMMA CallsOnlyByDispatch ==
  ASSUME RunInv, [Next]_vars, CallsNative
  PROVE  \E c \in Registered :
           /\ c = Callee
           /\ ~g_psx_cps_mode => ~device_touch[c] /\ ~WantDiff(c) /\ ~InShadow
<1>0. frames \in Seq(Cands) /\ active \in Seq(Cands) /\ Len(frames) \in Nat
  BY DEF RunInv
<1>1. frames' # frames
  BY <1>0 DEF CallsNative
<1>2. PICK e \in Words : DispatchEntry(e) \/ DispatchContinuation(e)
  <2>1. \A image \in Images : ~Restore(image)
    <3>1. ASSUME NEW image \in Images, Restore(image) PROVE FALSE
      <4>1. Len(frames') = 0
        BY <3>1, Zenon DEF Restore
      <4> QED BY <1>0, <4>1 DEF CallsNative
    <3> QED BY <3>1, Zenon
  <2>2. \A n \in 0..MaxDepth : ~Unwind(n)
    <3>1. ASSUME NEW n \in 0..MaxDepth, Unwind(n) PROVE FALSE
      <4>1. n \in 0..Len(frames) /\ n < Len(frames) /\ frames' = SubSeq(frames, 1, n)
        BY <1>0, <3>1, BoundAssumption DEF Unwind
      <4>2. Len(frames') = n
        BY <1>0, <4>1, PrefixParts, Zenon
      <4> QED BY <1>0, <4>1, <4>2 DEF CallsNative
    <3> QED BY <3>1, Zenon
  <2>3. ~Return
    <3>1. SUFFICES ASSUME Return PROVE FALSE
      BY Zenon
    <3>2. Len(frames') = Len(frames) - 1
      BY <1>0, <3>1, ReturnParts, Zenon
    <3> QED BY <1>0, <3>2 DEF CallsNative
  <2>4. \A c \in Cands : ~cand_register(c) /\ ~try_sljit_region(c) /\ ~scan_sljit_shard(c)
    BY <1>1, Zenon DEF cand_register, try_sljit_region, scan_sljit_shard, AddCandidate, runVars
  <2>5. \A w \in Words, b \in Bytes : ~Store(w, b)
    BY <1>1, Zenon DEF Store, runVars
  <2>6. ~ShadowDevice /\ ~ShadowSwap /\ \A r \in BOOLEAN : ~ShadowCompare(r)
    BY <1>1, Zenon DEF ShadowDevice, ShadowSwap, ShadowCompare, runVars
  <2>7. ~UNCHANGED vars
    BY <1>1, Zenon DEF vars, runVars
  <2> QED BY <2>1, <2>2, <2>3, <2>4, <2>5, <2>6, <2>7, Zenon DEF Next, Step
<1>3. PICK c \in Registered : /\ RunNative(c)
                              /\ ~g_psx_cps_mode => ~device_touch[c] /\ ~WantDiff(c) /\ ~InShadow
  BY <1>1, <1>2, DispatchRuns, Zenon DEF StartShadow, runVars
<1>4. c \in Cands
  BY Zenon DEF Registered
<1>5. frames'[Len(frames')] = c
  BY <1>0, <1>3, <1>4, CallParts, Zenon
<1> QED BY <1>3, <1>5, Zenon DEF Callee

\* In live and in differential mode a shard is entered by dispatch_impl only after
\* OVERLAY_DIFF_BUDGET clean differential runs in a row, and never once it is known to
\* touch a device: for any candidates and any bounds.
THEOREM ShardsAlwaysEarnTrust == Spec => ShardEarnsTrust
<1>1. RunInv /\ [Next]_vars =>
        [CallsNative /\ Callee \in Shards /\ (s_diff_mode \/ s_sljit_live) /\ ~g_psx_cps_mode
           => /\ diff_passes[Callee] = OVERLAY_DIFF_BUDGET
              /\ ~device_touch[Callee]]_vars
  <2> SUFFICES ASSUME RunInv, [Next]_vars, CallsNative, Callee \in Shards, s_diff_mode \/ s_sljit_live,
                      ~g_psx_cps_mode
               PROVE  diff_passes[Callee] = OVERLAY_DIFF_BUDGET /\ ~device_touch[Callee]
    BY Zenon
  <2>1. PICK c \in Registered : c = Callee /\ ~device_touch[c] /\ ~WantDiff(c) /\ ~InShadow
    BY CallsOnlyByDispatch, Zenon
  <2>2. ~(diff_passes[c] < OVERLAY_DIFF_BUDGET)
    BY <2>1, Zenon DEF WantDiff
  <2>3. diff_passes[c] \in 0..OVERLAY_DIFF_BUDGET
    BY Zenon DEF RunInv, Registered
  <2>4. diff_passes[c] = OVERLAY_DIFF_BUDGET
    BY <2>2, <2>3, BoundAssumption
  <2> QED BY <2>1, <2>4, Zenon
<1>2. Init => RunInv
  BY RunStart, Zenon
<1> QED BY <1>1, <1>2, RunStep, PTL DEF Spec, ShardEarnsTrust

\* Which steps touch the two stacks, where no longjmp discards frames.
LEMMA StackCases ==
  ASSUME RunInv, ~unwinds, [Next]_vars
  PROVE  \/ UNCHANGED runVars
         \/ \E c \in Registered : RunNative(c)
         \/ Return
<1>1. \A image \in Images : ~Restore(image)
  BY Zenon DEF Restore
<1>2. \A n \in 0..MaxDepth : ~Unwind(n)
  BY Zenon DEF Unwind
<1>3. ASSUME NEW e \in Words, DispatchEntry(e) \/ DispatchContinuation(e)
      PROVE  UNCHANGED runVars \/ \E c \in Registered : RunNative(c)
  BY <1>3, DispatchRuns, Zenon DEF StartShadow
<1>4. \A c \in Cands : cand_register(c) \/ try_sljit_region(c) \/ scan_sljit_shard(c) => UNCHANGED runVars
  BY Zenon DEF cand_register, try_sljit_region, scan_sljit_shard, AddCandidate
<1>5. \A w \in Words, b \in Bytes : Store(w, b) => UNCHANGED runVars
  BY Zenon DEF Store
<1>6. /\ ShadowDevice \/ ShadowSwap => UNCHANGED runVars
      /\ \A r \in BOOLEAN : ShadowCompare(r) => UNCHANGED runVars
  BY Zenon DEF ShadowDevice, ShadowSwap, ShadowCompare
<1> QED BY <1>1, <1>2, <1>3, <1>4, <1>5, <1>6, Zenon DEF Next, Step, vars

\* Without an unwind every step keeps the active stack a subsequence of the frames.
LEMMA TrackedStep ==
  ASSUME RunInv, ~unwinds, Tracked, [Next]_vars
  PROVE  Tracked'
<1>0. frames \in Seq(Cands) /\ active \in Seq(Cands) /\ Len(frames) \in Nat /\ Len(active) \in Nat
  BY DEF RunInv
<1>1. PICK f : Places(f, active, frames)
  BY Zenon DEF Tracked
<1>2. /\ f \in [1..Len(active) -> 1..Len(frames)]
      /\ \A i \in 1..Len(active) : active[i] = frames[f[i]]
      /\ \A i, j \in 1..Len(active) : i < j => f[i] < f[j]
  BY <1>1, Zenon DEF Places
<1>3. CASE UNCHANGED runVars
  BY <1>3, Zenon DEF Tracked, runVars
<1>4. ASSUME NEW c \in Registered, RunNative(c) PROVE Tracked'
  <2>1. c \in Cands
    BY Zenon DEF Registered
  <2>2. /\ Len(frames') = Len(frames) + 1
        /\ frames'[Len(frames')] = c /\ \A i \in 1..Len(frames) : frames'[i] = frames[i]
        /\ \/ active' = active
           \/ /\ Len(active') = Len(active) + 1
              /\ active'[Len(active) + 1] = c /\ \A i \in 1..Len(active) : active'[i] = active[i]
    BY <1>0, <1>4, <2>1, CallParts, Zenon
  <2>3. \A i \in 1..Len(active) : f[i] \in 1..Len(frames) /\ f[i] \in 1..Len(frames')
    BY <1>0, <1>2, <2>2
  <2>4. CASE active' = active
    <3>1. f \in [1..Len(active') -> 1..Len(frames')]
      BY <1>2, <2>3, <2>4, Zenon
    <3>2. Places(f, active', frames')
      BY <1>2, <2>2, <2>3, <2>4, <3>1, Zenon DEF Places
    <3> QED BY <3>2, Zenon DEF Tracked
  <2>5. ASSUME Len(active') = Len(active) + 1, active'[Len(active) + 1] = c,
               \A i \in 1..Len(active) : active'[i] = active[i]
        PROVE  Tracked'
    <3> DEFINE g == [i \in 1..Len(active') |-> IF i = Len(active) + 1 THEN Len(frames') ELSE f[i]]
    <3>1. \A i \in 1..Len(active') : i = Len(active) + 1 \/ (i \in 1..Len(active) /\ i # Len(active) + 1)
      BY <1>0, <2>5
    <3>2. Len(frames') \in 1..Len(frames')
      BY <1>0, <2>2
    <3>3. /\ \A i \in 1..Len(active) : i # Len(active) + 1 => i \in 1..Len(active') /\ g[i] = f[i]
          /\ Len(active) + 1 \in 1..Len(active') /\ g[Len(active) + 1] = Len(frames')
          /\ DOMAIN g = 1..Len(active')
      BY <1>0, <2>5
    <3>4. g \in [1..Len(active') -> 1..Len(frames')]
      BY <2>3, <3>1, <3>2, Zenon
    <3> HIDE DEF g
    <3>5. \A i \in 1..Len(active') : active'[i] = frames'[g[i]]
      BY <1>2, <2>2, <2>3, <2>5, <3>1, <3>3
    <3>6. ASSUME NEW i \in 1..Len(active'), NEW j \in 1..Len(active'), i < j PROVE g[i] < g[j]
      <4>1. i \in 1..Len(active) /\ i # Len(active) + 1
        BY <1>0, <2>5, <3>6
      <4>2. CASE j = Len(active) + 1
        <5>1. g[i] = f[i] /\ g[j] = Len(frames')
          BY <3>3, <4>1, <4>2, Zenon
        <5> QED BY <1>0, <2>2, <2>3, <4>1, <5>1
      <4>3. CASE j \in 1..Len(active) /\ j # Len(active) + 1
        BY <1>2, <3>3, <3>6, <4>1, <4>3, Zenon
      <4> QED BY <3>1, <4>2, <4>3, Zenon
    <3>7. Places(g, active', frames')
      BY <3>4, <3>5, <3>6, Zenon DEF Places
    <3> QED BY <3>7, Zenon DEF Tracked
  <2> QED BY <2>2, <2>4, <2>5, Zenon
<1>5. CASE Return
  <2>1. /\ Len(frames) > 0 /\ Len(frames') = Len(frames) - 1
        /\ \A i \in 1..Len(frames') : frames'[i] = frames[i]
        /\ \/ Len(active) = 0 /\ active' = active
           \/ Len(active) > 0 /\ Len(active') = Len(active) - 1
        /\ \A i \in 1..Len(active') : active'[i] = active[i]
    BY <1>0, <1>5, ReturnParts, Zenon
  <2>2. CASE Len(active) = 0 /\ active' = active
    <3> DEFINE g == [i \in 1..Len(active') |-> i]
    <3>1. 1..Len(active') = {}
      BY <2>2
    <3>2. Places(g, active', frames')
      BY <3>1, Zenon DEF Places
    <3> QED BY <3>2, Zenon DEF Tracked
  <2>3. CASE Len(active) > 0 /\ Len(active') = Len(active) - 1
    <3> DEFINE g == [i \in 1..Len(active') |-> f[i]]
    <3>1. \A i \in 1..Len(active') : /\ i \in 1..Len(active) /\ Len(active) \in 1..Len(active)
                                     /\ i < Len(active)
      BY <1>0, <2>3
    <3>2. \A i \in 1..Len(active') : f[i] \in 1..Len(frames')
      <4> SUFFICES ASSUME NEW i \in 1..Len(active') PROVE f[i] \in 1..Len(frames')
        BY Zenon
      <4>1. f[i] < f[Len(active)] /\ f[i] \in 1..Len(frames) /\ f[Len(active)] \in 1..Len(frames)
        BY <1>2, <3>1, Zenon
      <4> QED BY <1>0, <2>1, <4>1
    <3>3. Places(g, active', frames')
      BY <1>2, <2>1, <3>1, <3>2, Zenon DEF Places
    <3> QED BY <3>3, Zenon DEF Tracked
  <2> QED BY <2>1, <2>2, <2>3, Zenon
<1> QED BY <1>3, <1>4, <1>5, StackCases, Zenon

\* A function that is not a shard is demoted by a store into its code while it is tracked.
LEMMA DemotedIsTracked ==
  ASSUME RunInv, [Next]_vars, NEW c \in Cands \ Shards, cstate[c] # "BLACKLIST", cstate'[c] = "BLACKLIST"
  PROVE  c \in Range(active)
<1>1. ASSUME NEW w \in Words, NEW b \in Bytes, Store(w, b) PROVE c \in Range(active)
  BY <1>1, StoreRuns, Zenon DEF Demotes
<1>2. ASSUME NEW d \in Cands, cand_register(d) \/ try_sljit_region(d) \/ scan_sljit_shard(d) PROVE FALSE
  BY <1>2, RegisterRuns, AddRuns, Zenon
<1>3. ASSUME NEW e \in Words, DispatchEntry(e) \/ DispatchContinuation(e) PROVE FALSE
  BY <1>3, DispatchRuns, Zenon DEF Demotes
<1>4. UNCHANGED cstate => FALSE
  BY Zenon
<1>5. /\ \A image \in Images : Restore(image) => UNCHANGED cstate
      /\ \A n \in 0..MaxDepth : Unwind(n) => UNCHANGED cstate
      /\ Return \/ ShadowDevice \/ ShadowSwap => UNCHANGED cstate
      /\ \A r \in BOOLEAN : ShadowCompare(r) => UNCHANGED cstate
      /\ UNCHANGED vars => UNCHANGED cstate
  BY Zenon DEF Restore, Unwind, Return, ShadowDevice, ShadowSwap, ShadowCompare, candVars, vars
<1> QED BY <1>1, <1>2, <1>3, <1>4, <1>5, Zenon DEF Next, Step

\* Where no longjmp discards native frames, a compiled function loses its native code for
\* good only when it was modified while it was executing, for any candidates and bounds and
\* also where calls nest deeper than s_active_stack.
THEOREM OnlyExecutingAlwaysDemoted == Spec => OnlyExecutingDemoted
<1> DEFINE TInv == RunInv /\ (~unwinds => Tracked)
<1>1. Init => TInv
  <2> SUFFICES ASSUME Init PROVE Tracked
    BY RunStart, Zenon
  <2>1. Len(active) = 0 /\ Len(frames) = 0
    BY Zenon DEF Init
  <2> DEFINE g == [i \in 1..0 |-> i]
  <2>2. Places(g, active, frames)
    BY <2>1 DEF Places
  <2> QED BY <2>2, Zenon DEF Tracked
<1>2. TInv /\ [Next]_vars => TInv'
  <2> SUFFICES ASSUME TInv, [Next]_vars PROVE TInv'
    BY Zenon
  <2>1. unwinds' = unwinds
    BY Zenon DEF Next, vars, settings
  <2> QED BY <2>1, RunStep, TrackedStep, Zenon
<1>3. TInv /\ [Next]_vars =>
        [\A c \in Cands \ Shards :
            ~unwinds /\ cstate[c] # "BLACKLIST" /\ cstate'[c] = "BLACKLIST"
              => c \in Range(frames)]_vars
  <2> SUFFICES ASSUME TInv, [Next]_vars, NEW c \in Cands \ Shards, ~unwinds,
                      cstate[c] # "BLACKLIST", cstate'[c] = "BLACKLIST"
               PROVE  c \in Range(frames)
    BY Zenon
  <2>1. c \in Range(active)
    BY DemotedIsTracked, Zenon
  <2>2. PICK i \in 1..Len(active) : c = active[i]
    BY <2>1 DEF RunInv, Range
  <2>3. PICK f : Places(f, active, frames)
    BY Zenon DEF Tracked
  <2>4. f[i] \in 1..Len(frames) /\ c = frames[f[i]]
    BY <2>2, <2>3, Zenon DEF Places
  <2> QED BY <2>4, SMTT(60) DEF RunInv, Range
<1> QED BY <1>1, <1>2, <1>3, PTL DEF Spec, OnlyExecutingDemoted

\* A function on the stack whose code the RAM put aside by a differential run disagrees
\* about has been demoted already.
ShadowKeeps ==
  InShadow => \A i \in 1..Len(frames) : \A w \in Code(frames[i]) :
                ram[w] # shadow.saved[w] => cstate[frames[i]] = "BLACKLIST"

FullInv == active = frames /\ ShadowKeeps

\* A store into the code of a function on the stack demotes it.
LEMMA StoreCatches ==
  ASSUME RunInv, active = frames, NEW w \in Words, NEW b \in Bytes, Store(w, b),
         NEW i \in 1..Len(frames), w \in Code(frames[i])
  PROVE  cstate'[frames[i]] = "BLACKLIST"
<1>1. frames[i] \in Registered /\ frames[i] \in Cands
  BY Zenon DEF RunInv, Registered
<1>2. PageOf[w] \in watched
  BY <1>1, Zenon DEF RunInv, CodeWatched, CodePages
<1>3. frames[i] \in Range(active)
  BY SMTT(60) DEF RunInv, Range
<1> QED BY <1>1, <1>2, <1>3, StoreRuns, Zenon DEF Demotes

\* While every frame fits the active stack, every step keeps the two equal.
LEMMA FullStep ==
  ASSUME RunInv, ~unwinds, MaxDepth <= ACTIVE_CAP, FullInv, [Next]_vars
  PROVE  FullInv'
<1>0. /\ frames \in Seq(Cands) /\ active = frames /\ ShadowKeeps /\ Len(frames) \in Nat
      /\ \A i \in 1..Len(frames) : frames[i] \in Registered /\ frames[i] \in Cands
  BY DEF RunInv, FullInv, Registered
<1>1. active' = frames'
  <2>1. ASSUME NEW c \in Registered, RunNative(c) PROVE active' = frames'
    <3>1. Len(active) < ACTIVE_CAP
      BY <1>0, <2>1, BoundAssumption DEF RunNative
    <3> QED BY <1>0, <2>1, <3>1, Zenon DEF RunNative
  <2>2. Return => active' = frames'
    BY <1>0, Zenon DEF Return
  <2> QED BY <1>0, <2>1, <2>2, StackCases, Zenon DEF runVars
<1>2. ASSUME ~InShadow' PROVE ShadowKeeps'
  BY <1>2, Zenon DEF ShadowKeeps
<1>3. ASSUME UNCHANGED <<frames, shadow, ram>>,
             \A c \in Registered : cstate[c] = "BLACKLIST" => cstate'[c] = "BLACKLIST"
      PROVE  ShadowKeeps'
  BY <1>0, <1>3, Zenon DEF ShadowKeeps, InShadow
<1>4. ASSUME NEW w \in Words, NEW b \in Bytes, Store(w, b) PROVE ShadowKeeps'
  <2>1. /\ UNCHANGED <<frames, shadow>> /\ \A v \in Words : v # w => ram'[v] = ram[v]
        /\ \A c \in Cands : cstate[c] = "BLACKLIST" => cstate'[c] = "BLACKLIST"
    BY <1>4, StoreRuns, Zenon DEF runVars, diffVars, Demotes
  <2>2. SUFFICES ASSUME InShadow, NEW i \in 1..Len(frames), NEW v \in Code(frames[i]),
                        ram'[v] # shadow.saved[v]
                 PROVE  cstate'[frames[i]] = "BLACKLIST"
    BY <2>1, Zenon DEF ShadowKeeps, InShadow
  <2>3. frames[i] \in Cands /\ v \in Words
    BY <1>0, CodeInRam, Zenon
  <2>4. CASE v = w
    BY <1>0, <1>4, <2>4, StoreCatches, Zenon
  <2>5. CASE v # w
    BY <1>0, <2>1, <2>2, <2>3, <2>5, Zenon DEF ShadowKeeps
  <2> QED BY <2>4, <2>5, Zenon
<1>5. \A image \in Images : ~Restore(image)
  BY Zenon DEF Restore
<1>6. \A n \in 0..MaxDepth : ~Unwind(n)
  BY Zenon DEF Unwind
<1>7. ASSUME NEW c \in Cands, cand_register(c) \/ try_sljit_region(c) \/ scan_sljit_shard(c)
      PROVE  ShadowKeeps'
  <2>1. /\ UNCHANGED <<ram, diffVars, runVars>>
        /\ \A d \in Registered : cstate[d] = "BLACKLIST" => cstate'[d] = "BLACKLIST"
    BY <1>7, RegisterRuns, AddRuns, Zenon
  <2> QED BY <1>3, <2>1, Zenon DEF diffVars, runVars
<1>8. ASSUME NEW e \in Words, DispatchEntry(e) \/ DispatchContinuation(e) PROVE ShadowKeeps'
  <2>1. /\ UNCHANGED ram /\ \A c \in Registered : cstate[c] = "BLACKLIST" => cstate'[c] = "BLACKLIST"
    BY <1>8, DispatchRuns, Zenon DEF Demotes, Registered
  <2>2. CASE UNCHANGED <<diffVars, runVars>>
    BY <1>3, <2>1, <2>2, Zenon DEF diffVars, runVars
  <2>3. ASSUME NEW c \in Registered, RunNative(c), ~InShadow PROVE ShadowKeeps'
    BY <1>2, <2>3, Zenon DEF RunNative, diffVars, InShadow
  <2>4. ASSUME NEW c \in Registered, StartShadow(c) PROVE ShadowKeeps'
    BY <2>1, <2>4, Zenon DEF StartShadow, ShadowKeeps
  <2> QED BY <1>8, <2>2, <2>3, <2>4, DispatchRuns, Zenon
<1>9. ASSUME Return PROVE ShadowKeeps'
  BY <1>2, <1>9, Zenon DEF Return, diffVars, InShadow
<1>10. ASSUME ShadowDevice PROVE ShadowKeeps'
  <2>1. shadow'.pass = "off"
    BY <1>10, Zenon DEF ShadowDevice, OffShadow
  <2> QED BY <1>2, <2>1, Zenon DEF InShadow
<1>11. ASSUME ShadowSwap PROVE ShadowKeeps'
  <2>1. /\ InShadow /\ UNCHANGED <<frames, cstate>> /\ ram' = shadow.saved
        /\ shadow' = [shadow EXCEPT !.pass = "native", !.saved = ram]
    BY <1>11, Zenon DEF ShadowSwap, InShadow, candVars, runVars
  <2>2. shadow'.saved = ram
    BY <2>1, Zenon DEF RunInv, ShadowOK, ShadowStates
  <2> QED BY <1>0, <2>1, <2>2, Zenon DEF ShadowKeeps
<1>12. ASSUME NEW r \in BOOLEAN, ShadowCompare(r) PROVE ShadowKeeps'
  <2>1. shadow'.pass = "off"
    BY <1>12, Zenon DEF ShadowCompare, OffShadow
  <2> QED BY <1>2, <2>1, Zenon DEF InShadow
<1>13. ASSUME UNCHANGED vars PROVE ShadowKeeps'
  BY <1>3, <1>13, Zenon DEF vars, ramVars, candVars, diffVars, runVars
<1>14. ShadowKeeps'
  BY <1>4, <1>5, <1>6, <1>7, <1>8, <1>9, <1>10, <1>11, <1>12, <1>13, Zenon DEF Next, Step
<1> QED BY <1>1, <1>14, Zenon DEF FullInv

\* Where no longjmp discards native frames and calls nest no deeper than s_active_stack,
\* every store that changes the code of a native function on the host stack demotes that
\* function at once, and the exchanges of RAM in a differential run let none slip through: for
\* any RAM, any candidates and any bounds.
THEOREM SelfModAlwaysCaught == MaxDepth <= ACTIVE_CAP /\ Spec => SelfModCaught
<1> SUFFICES ASSUME MaxDepth <= ACTIVE_CAP PROVE Spec => SelfModCaught
  BY Zenon
<1> DEFINE FInv == RunInv /\ (~unwinds => FullInv)
<1>1. Init => FInv
  BY RunStart, Zenon DEF FullInv, ShadowKeeps
<1>2. FInv /\ [Next]_vars => FInv'
  <2> SUFFICES ASSUME FInv, [Next]_vars PROVE FInv'
    BY Zenon
  <2>1. unwinds' = unwinds
    BY Zenon DEF Next, vars, settings
  <2> QED BY <2>1, RunStep, FullStep, Zenon
<1>3. FInv /\ [Next]_vars =>
        [\A c \in Range(frames) :
            (~unwinds /\ frames' = frames /\ \E w \in Code(c) : ram'[w] # ram[w])
              => cstate'[c] = "BLACKLIST"]_vars
  <2> SUFFICES ASSUME FInv, [Next]_vars, NEW c \in Range(frames), ~unwinds,
                      NEW v \in Code(c), ram'[v] # ram[v]
               PROVE  cstate'[c] = "BLACKLIST"
    BY Zenon
  <2>0. frames \in Seq(Cands) /\ c \in Range(frames)
    BY Zenon DEF RunInv
  <2>1. PICK i \in 1..Len(frames) : c = frames[i]
    BY <2>0 DEF Range
  <2>2. c \in Cands /\ v \in Words
    BY <2>1, CodeInRam, Zenon DEF RunInv, Registered
  <2>3. ASSUME NEW w \in Words, NEW b \in Bytes, Store(w, b) PROVE cstate'[c] = "BLACKLIST"
    <3>1. v = w
      BY <2>2, <2>3, StoreRuns, Zenon
    <3> QED BY <2>1, <2>3, <3>1, StoreCatches, Zenon DEF FullInv
  <2>4. ASSUME ram' = shadow.saved, InShadow, UNCHANGED cstate PROVE cstate'[c] = "BLACKLIST"
    BY <2>1, <2>4, Zenon DEF FullInv, ShadowKeeps
  <2>5. ShadowSwap => cstate'[c] = "BLACKLIST"
    BY <2>4, Zenon DEF ShadowSwap, InShadow, candVars
  <2>6. \A r \in BOOLEAN : ShadowCompare(r) => cstate'[c] = "BLACKLIST"
    BY <2>4, Zenon DEF ShadowCompare, InShadow, candVars
  <2>7. /\ \A image \in Images : ~Restore(image)
        /\ \A n \in 0..MaxDepth : ~Unwind(n)
        /\ ~Return /\ ~ShadowDevice /\ ~UNCHANGED vars
    BY Zenon DEF Restore, Unwind, Return, ShadowDevice, vars, ramVars
  <2>8. \A d \in Cands : ~cand_register(d) /\ ~try_sljit_region(d) /\ ~scan_sljit_shard(d)
    BY Zenon DEF cand_register, try_sljit_region, scan_sljit_shard, AddCandidate
  <2>9. \A e \in Words : ~DispatchEntry(e) /\ ~DispatchContinuation(e)
    BY Zenon DEF DispatchEntry, DispatchContinuation, ramVars
  <2> QED BY <2>3, <2>5, <2>6, <2>7, <2>8, <2>9, Zenon DEF Next, Step
<1> QED BY <1>1, <1>2, <1>3, PTL DEF Spec, SelfModCaught

-----------------------------------------------------------------------------
(* The game text, as long as the process loads only its own save states:   *)
(* an untouched page is pristine, and a guarded call enters compiled code  *)
(* only over the instructions it was compiled from.  The invariant adds    *)
(* what the next load will bring back, judged by the modified bitmap as it *)
(* stands now, and that blessing never reaches an instruction of the       *)
(* reference image.                                                        *)

\* What a save state will restore is as good as what is in RAM.
SavedIsPristine ==
  armed /\ file.ok /\ file.inGame =>
    \A w \in Instrs :
      Page(w) \notin modified /\ Page(w) \notin file.dirty => file.mem[w] = Image[w]

GuardInv ==
  /\ mem \in [RamWords -> Vals] /\ refImage \in [Text -> Vals]
  /\ file.ok => file.mem \in [RamWords -> Vals]
  /\ \A w \in Instrs : refImage[w] = Image[w]
  /\ FastPathIsPristine
  /\ SavedIsPristine

\* The text image is made of words, and its targets too.
LEMMA Sizes ==
  /\ Instrs \subseteq Text /\ Text \subseteq RamWords /\ 0 \in Vals
  /\ Image \in [Text -> Vals] /\ Target \in [Text \ Instrs -> Vals]
  /\ NoSave.ok = FALSE
  BY TextAssumption, Zenon DEF Text, NoSave

\* The text guard's invariant holds initially.
LEMMA GuardInitially == TextInit => GuardInv
  BY Sizes, Zenon DEF TextInit, GuardInv, FastPathIsPristine, SavedIsPristine

\* A store, by whatever path: noted unless it writes what the reference image holds.
LEMMA StoreKeepsGuard ==
  ASSUME GuardInv, NEW w \in RamWords, NEW v \in Vals,
         text_guard_note_write(w, v), mem' = [mem EXCEPT ![w] = v],
         dirty \subseteq dirty', UNCHANGED <<armed, refImage, inGame, file>>
  PROVE  GuardInv'
<1>. USE Sizes DEF GuardInv
<1>1. modified \subseteq modified'
  BY Zenon DEF text_guard_note_write
<1>2. FastPathIsPristine'
  <2>. SUFFICES ASSUME armed, inGame, NEW x \in Instrs,
                       Page(x) \notin modified', Page(x) \notin dirty'
                PROVE  mem'[x] = Image[x]
    BY Zenon DEF FastPathIsPristine, Untouched
  <2>1. mem[x] = Image[x]
    BY <1>1, Zenon DEF FastPathIsPristine, Untouched
  <2>2. CASE x = w
    <3>1. refImage[w] = v
      BY <2>2, Zenon DEF text_guard_note_write
    <3>. QED  BY <2>2, <3>1, Zenon
  <2>3. CASE x # w
    BY <2>1, <2>3, Zenon
  <2>. QED  BY <2>2, <2>3, Zenon
<1>3. SavedIsPristine'
  BY <1>1, Zenon DEF SavedIsPristine
<1>4. mem' \in [RamWords -> Vals]
  BY Zenon
<1>. QED  BY <1>2, <1>3, <1>4, Zenon

\* Every step keeps the guard's bookkeeping honest.
LEMMA GuardStep ==
  ASSUME ~OldSaves, GuardInv, [TextNext]_textVars PROVE GuardInv'
<1>. USE Sizes
<1>1. ASSUME NEW w \in RamWords, NEW v \in Vals,
             psx_write_word(w, v) \/ cdrom_dma_word(w, v)
      PROVE  GuardInv'
  BY <1>1, StoreKeepsGuard, Zenon DEF psx_write_word, cdrom_dma_word
<1>2. CASE GameStart
  BY <1>2, Zenon DEF GameStart, GuardInv, FastPathIsPristine, SavedIsPristine
<1>3. ASSUME NEW w \in Text, patch_locked(w) PROVE GuardInv'
  <2>1. /\ w \notin Instrs /\ Target[w] \in Vals
        /\ mem' = [mem EXCEPT ![w] = Target[w]]
        /\ refImage' = refImage \/ refImage' = [refImage EXCEPT ![w] = Target[w]]
        /\ UNCHANGED <<armed, modified, dirty, inGame, file>>
    BY <1>3, Zenon DEF patch_locked, dirty_ram_text_bless
  <2>2. \A x \in Instrs : mem'[x] = mem[x] /\ refImage'[x] = refImage[x]
    BY <2>1, Zenon DEF GuardInv
  <2>. QED  BY <2>1, <2>2, Zenon DEF GuardInv, FastPathIsPristine, SavedIsPristine, Untouched
<1>4. CASE boot_state_save
  <2>1. file'.ok /\ file'.mem = mem /\ file'.dirty = dirty /\ file'.inGame = inGame
    BY <1>4, Zenon DEF boot_state_save
  <2>. QED  BY <1>4, <2>1, Zenon DEF boot_state_save, guardVars, GuardInv, FastPathIsPristine,
                              SavedIsPristine, Untouched
<1>5. CASE boot_state_load
  BY <1>5, Zenon DEF boot_state_load, guardVars, GuardInv, FastPathIsPristine, SavedIsPristine, Untouched
<1>6. CASE Restart
  BY <1>6, Zenon DEF Restart, GuardInv, FastPathIsPristine, SavedIsPristine
<1>7. ASSUME NEW e \in Instrs, dirty_ram_dispatch_inner(e) \/ interp_enter_compiled(e)
      PROVE  GuardInv'
  <2>1. UNCHANGED <<mem, armed, refImage, modified, dirty, inGame, file>>
    BY <1>7, Zenon DEF dirty_ram_dispatch_inner, interp_enter_compiled, Enter
  <2>. QED  BY <2>1, Zenon DEF GuardInv, FastPathIsPristine, SavedIsPristine, Untouched
<1>8. CASE UNCHANGED textVars
  BY <1>8, Zenon DEF textVars, guardVars, GuardInv, FastPathIsPristine, SavedIsPristine, Untouched
<1>. QED  BY <1>1, <1>2, <1>3, <1>4, <1>5, <1>6, <1>7, <1>8, Zenon DEF TextNext

\* For every text and every translation: while only this process's saves are loaded, the
\* fast path of dirty_ram_text_native_ok is right to skip its comparison.
THEOREM FastPathAlwaysPristine ==
  ASSUME ~OldSaves PROVE TextSpec => []FastPathIsPristine
<1>1. TextInit => GuardInv
  BY GuardInitially, Zenon
<1>2. GuardInv /\ [TextNext]_textVars => GuardInv'
  BY GuardStep, Zenon
<1>3. GuardInv => FastPathIsPristine
  BY Zenon DEF GuardInv
<1>. QED  BY <1>1, <1>2, <1>3, PTL DEF TextSpec

\* A step that leaves no guarded call behind, and one that makes it.
LEMMA GuardedCallStep ==
  ASSUME GuardInv, GuardedCallsRunLiveCode, [TextNext]_textVars
  PROVE  GuardedCallsRunLiveCode'
<1>1. CASE ran' = NoRun
  BY <1>1, Zenon DEF GuardedCallsRunLiveCode, NoRun
<1>2. ASSUME NEW e \in Instrs, inGame, dirty_ram_dispatch_inner(e) PROVE GuardedCallsRunLiveCode'
  <2>1. ran'.via = "dispatch"
    BY <1>2, Zenon DEF dirty_ram_dispatch_inner, Enter
  <2>. QED  BY <2>1, Zenon DEF GuardedCallsRunLiveCode
<1>3. ASSUME NEW e \in Instrs, inGame, interp_enter_compiled(e) PROVE GuardedCallsRunLiveCode'
  <2>1. /\ ran'.at = e /\ (ran'.tier = "native" => dirty_ram_text_native_ok(e))
        /\ UNCHANGED <<mem, armed>>
    BY <1>3, Zenon DEF interp_enter_compiled, Enter
  <2>2. ASSUME armed, dirty_ram_text_native_ok(e), NEW w \in Window(e) \cap Instrs,
               Page(w) = Page(e)
        PROVE  mem[w] = Image[w]
    <3>1. CASE Untouched(Page(e))
      BY <1>3, <2>2, <3>1, Zenon DEF GuardInv, FastPathIsPristine
    <3>2. CASE Matches(e)
      BY <2>2, <3>2, Zenon DEF GuardInv, Matches
    <3>. QED  BY <2>2, <3>1, <3>2, Zenon DEF dirty_ram_text_native_ok
  <2>. QED  BY <2>1, <2>2, Zenon DEF GuardedCallsRunLiveCode, Window
<1>4. CASE UNCHANGED textVars
  BY <1>4, Zenon DEF textVars, GuardedCallsRunLiveCode
<1>. QED  BY <1>1, <1>2, <1>3, <1>4, Zenon DEF TextNext, psx_write_word, cdrom_dma_word, GameStart,
            patch_locked, boot_state_save, boot_state_load, Restart

\* For every text and every translation: calls out of interpreted and JIT code enter a
\* compiled function only over the instructions it was compiled from.
THEOREM GuardedCallsAlwaysLive ==
  ASSUME ~OldSaves PROVE TextSpec => []GuardedCallsRunLiveCode
<1>1. TextInit => GuardInv /\ GuardedCallsRunLiveCode
  BY GuardInitially DEF TextInit, GuardedCallsRunLiveCode, NoRun
<1>2. GuardInv /\ GuardedCallsRunLiveCode /\ [TextNext]_textVars
      => (GuardInv /\ GuardedCallsRunLiveCode)'
  BY GuardStep, GuardedCallStep, Zenon
<1>. QED  BY <1>1, <1>2, PTL DEF TextSpec

=============================================================================
