-------------------------- MODULE OfferDesk_proofs --------------------------
(***************************************************************************)
(* Proofs about offers, for any number of classes, units, loads of the     *)
(* list, changes on chain and failures, on either lane.                    *)
(***************************************************************************)
EXTENDS OfferDesk, TLAPS

-----------------------------------------------------------------------------
(* What the variables hold.                                                *)

OfferRecord == [exists : BOOLEAN, paused : BOOLEAN, issuerPaused : BOOLEAN, expired : BOOLEAN,
                sold : 0..Supply, raw : 0..MaxMoves, invested : 0..MaxMoves, owed : 0..Supply,
                moves : 0..MaxMoves]

\* What a load has read of a class.
Reading == [read : {0, 1, 2, 3}, at : Nat, paused : BOOLEAN, sold : Nat, raw : Nat, owed : Nat,
            invested : Nat, expired : BOOLEAN]

\* A list is of some of the classes, each with what was read of it.
Lists == UNION {[S -> Reading] : S \in SUBSET Classes}

LoadSteps == {"idle", "asking", "reading"}
LoadRecord == [pc : LoadSteps, latest : BOOLEAN, got : Lists]
ConsoleSteps == WalletSteps \cup {"idle", "discover", "announce", "refresh", "awaits load"}

Existing == {c \in Classes : offer[c].exists}

ChainTypes ==
  /\ offer \in [Classes -> OfferRecord]
  /\ \A c \in Classes :
       /\ offer[c].raw + offer[c].invested <= offer[c].moves
       /\ offer[c].owed <= offer[c].sold
       /\ offer[c].sold > 0 => offer[c].exists

IndexTypes == file = ids /\ ids \subseteq Existing

DeskTypes ==
  /\ console \in [pc : ConsoleSteps, class : Own \cup {None}]
  /\ console.pc # "idle" => console.class \in Own
  /\ stored \subseteq Own \cap Existing /\ mine \subseteq Own /\ told \subseteq Own
  /\ due \in BOOLEAN
  /\ left \subseteq [step : WalletSteps, class : Own]

LoadTypes == load \in [Loads -> LoadRecord]

ViewTypes == view \in [loaded : BOOLEAN, offers : Lists]

OffersTypes == ChainTypes /\ IndexTypes /\ DeskTypes /\ LoadTypes /\ ViewTypes /\ failures \in Nat

-----------------------------------------------------------------------------
(* How the chain moves.                                                    *)

\* One class has moved, and none is forgotten.
ClassMoved(c) ==
  /\ \A d \in Classes \ {c} : offer'[d] = offer[d]
  /\ offer'[c].moves = offer[c].moves + 1
  /\ offer[c].exists => offer'[c].exists

LEMMA MoveTypes ==
    ASSUME ChainTypes, NEW c \in Classes, NEW to \in OfferRecord, Moves(c, to),
           to.moves = offer[c].moves,
           to.raw + to.invested <= offer[c].moves + 1,
           to.owed <= to.sold,
           to.sold > 0 => to.exists,
           offer[c].exists => to.exists
    PROVE  ChainTypes' /\ ClassMoved(c)
<1> DEFINE new == [to EXCEPT !.moves = offer[c].moves + 1]
<1>1. offer[c].moves \in 0..MaxMoves /\ MaxMoves \in Nat
  BY DeskAssumption DEF ChainTypes, OfferRecord
<1>2. offer' = [offer EXCEPT ![c] = new] /\ offer[c].moves < MaxMoves
  BY DEF Moves
<1>3. new \in OfferRecord
  BY <1>1, <1>2 DEF OfferRecord
<1>4. /\ new.moves = offer[c].moves + 1 /\ new.raw = to.raw /\ new.invested = to.invested
      /\ new.owed = to.owed /\ new.sold = to.sold /\ new.exists = to.exists
  BY DEF OfferRecord
<1> HIDE DEF new
<1>5. offer' \in [Classes -> OfferRecord]
  BY <1>2, <1>3 DEF ChainTypes
<1>6. offer'[c] = new /\ \A d \in Classes \ {c} : offer'[d] = offer[d]
  BY <1>2 DEF ChainTypes
<1>7. ASSUME NEW d \in Classes
      PROVE  /\ offer'[d].raw + offer'[d].invested <= offer'[d].moves
             /\ offer'[d].owed <= offer'[d].sold
             /\ offer'[d].sold > 0 => offer'[d].exists
  <2>1. CASE d = c
    BY <1>4, <1>6, <2>1
  <2>2. CASE d # c
    BY <1>6, <2>2 DEF ChainTypes
  <2>3. QED
    BY <2>1, <2>2
<1>8. QED
  BY <1>4, <1>5, <1>6, <1>7 DEF ChainTypes, ClassMoved

LEMMA OfferFields ==
    ASSUME ChainTypes, NEW c \in Classes
    PROVE  /\ offer[c] \in OfferRecord
           /\ offer[c].exists \in BOOLEAN /\ offer[c].paused \in BOOLEAN
           /\ offer[c].issuerPaused \in BOOLEAN /\ offer[c].expired \in BOOLEAN
           /\ offer[c].sold \in 0..Supply /\ offer[c].owed \in 0..Supply
           /\ offer[c].raw \in 0..MaxMoves /\ offer[c].invested \in 0..MaxMoves
           /\ offer[c].moves \in 0..MaxMoves
           /\ offer[c].raw + offer[c].invested <= offer[c].moves
           /\ offer[c].owed <= offer[c].sold
           /\ offer[c].sold > 0 => offer[c].exists
           /\ Supply \in Nat /\ MaxMoves \in Nat
BY DeskAssumption DEF ChainTypes, OfferRecord

\* What the console's wallet and everybody else may sign.
LEMMA SigningMoves ==
    ASSUME ChainTypes, NEW c \in Classes,
           \/ createClass(c) \/ postCollateral(c, 1) \/ investCollateral(c, 1)
           \/ withdrawCollateral(c, 1) \/ mint(c) \/ settle(c) \/ pauseClass(c)
           \/ pauseIssuer(c) \/ expire(c)
    PROVE  ChainTypes' /\ ClassMoved(c) /\ (createClass(c) => offer'[c].exists)
<1> DEFINE o == offer[c]
<1>f. /\ o \in OfferRecord
      /\ o.sold \in 0..Supply /\ o.owed \in 0..Supply
      /\ o.raw \in 0..MaxMoves /\ o.invested \in 0..MaxMoves
      /\ o.moves \in 0..MaxMoves /\ o.raw + o.invested <= o.moves /\ o.owed <= o.sold
      /\ o.sold > 0 => o.exists
      /\ Supply \in Nat /\ MaxMoves \in Nat
  BY OfferFields
<1>0. o.moves < MaxMoves
  BY DEF createClass, postCollateral, investCollateral, withdrawCollateral, mint, settle,
         pauseClass, pauseIssuer, expire, Moves
<1> USE <1>f
<1>1. CASE createClass(c)
  <2> DEFINE to == [offer[c] EXCEPT !.exists = TRUE]
  <2>1. Moves(c, to)
    BY <1>1 DEF createClass
  <2>2. to \in OfferRecord /\ to.exists /\ to.moves = o.moves /\ to.raw = o.raw
        /\ to.invested = o.invested /\ to.owed = o.owed /\ to.sold = o.sold
    BY DEF OfferRecord
  <2>3. offer'[c].exists
    BY <2>1, <2>2 DEF Moves, ChainTypes, OfferRecord
  <2> HIDE DEF to
  <2>4. QED
    BY <2>1, <2>2, <2>3, MoveTypes
<1>2. CASE postCollateral(c, 1)
  <2> DEFINE to == [offer[c] EXCEPT !.raw = @ + 1]
  <2>1. Moves(c, to) /\ o.exists
    BY <1>2 DEF postCollateral
  <2>2. o.raw + 1 \in 0..MaxMoves
    BY <1>0, <2>1
  <2>3. to \in OfferRecord
    BY <2>2 DEF OfferRecord
  <2>4. /\ to.exists = o.exists /\ to.moves = o.moves /\ to.raw = o.raw + 1
        /\ to.invested = o.invested /\ to.owed = o.owed /\ to.sold = o.sold
    BY DEF OfferRecord
  <2>5. createClass(c) => offer'[c].exists
    BY <1>1
  <2> HIDE DEF to
  <2>6. to.raw + to.invested <= o.moves + 1 /\ to.owed <= to.sold
    BY <2>1, <2>2, <2>4
  <2>7. (to.sold > 0 => to.exists) /\ (o.exists => to.exists)
    BY <2>1, <2>4
  <2>8. QED
    BY <2>1, <2>3, <2>4, <2>5, <2>6, <2>7, MoveTypes
<1>3. CASE investCollateral(c, 1)
  <2> DEFINE to == [offer[c] EXCEPT !.raw = @ - 1, !.invested = @ + 1]
  <2>1. Moves(c, to) /\ 1 <= o.raw
    BY <1>3 DEF investCollateral
  <2>2. o.raw - 1 \in 0..MaxMoves /\ o.invested + 1 \in 0..MaxMoves
    BY <1>0, <2>1
  <2>3. to \in OfferRecord
    BY <2>2 DEF OfferRecord
  <2>4. /\ to.exists = o.exists /\ to.moves = o.moves /\ to.raw = o.raw - 1
        /\ to.invested = o.invested + 1 /\ to.owed = o.owed /\ to.sold = o.sold
    BY DEF OfferRecord
  <2>5. createClass(c) => offer'[c].exists
    BY <1>1
  <2> HIDE DEF to
  <2>6. to.raw + to.invested <= o.moves + 1 /\ to.owed <= to.sold
    BY <2>1, <2>2, <2>4
  <2>7. (to.sold > 0 => to.exists) /\ (o.exists => to.exists)
    BY <2>1, <2>4
  <2>8. QED
    BY <2>1, <2>3, <2>4, <2>5, <2>6, <2>7, MoveTypes
<1>4. CASE withdrawCollateral(c, 1)
  <2> DEFINE shortfall == IF 1 > o.raw THEN 1 - o.raw ELSE 0
             to == [o EXCEPT !.raw = @ + shortfall - 1, !.invested = @ - shortfall]
  <2>1. Moves(c, to) /\ o.raw + o.invested - 1 >= o.owed
    BY <1>4 DEF withdrawCollateral
  <2>2. /\ shortfall \in 0..1 /\ o.raw + shortfall - 1 \in 0..MaxMoves
        /\ o.invested - shortfall \in 0..MaxMoves
    BY <1>0, <2>1
  <2>3. to \in OfferRecord
    BY <2>2 DEF OfferRecord
  <2>4. /\ to.exists = o.exists /\ to.moves = o.moves /\ to.raw = o.raw + shortfall - 1
        /\ to.invested = o.invested - shortfall /\ to.owed = o.owed /\ to.sold = o.sold
    BY DEF OfferRecord
  <2>5. createClass(c) => offer'[c].exists
    BY <1>1
  <2> HIDE DEF to, shortfall
  <2>6. to.raw + to.invested <= o.moves + 1 /\ to.owed <= to.sold
    BY <2>1, <2>2, <2>4
  <2>7. (to.sold > 0 => to.exists) /\ (o.exists => to.exists)
    BY <2>1, <2>4
  <2>8. QED
    BY <2>1, <2>3, <2>4, <2>5, <2>6, <2>7, MoveTypes
<1>5. CASE mint(c)
  <2> DEFINE to == [offer[c] EXCEPT !.sold = @ + 1, !.owed = @ + 1]
  <2>1. Moves(c, to) /\ o.exists /\ o.sold < Supply
    BY <1>5 DEF mint, Saleable
  <2>2. o.sold + 1 \in 0..Supply /\ o.owed + 1 \in 0..Supply
    BY <1>0, <2>1
  <2>3. to \in OfferRecord
    BY <2>2 DEF OfferRecord
  <2>4. /\ to.exists = o.exists /\ to.moves = o.moves /\ to.raw = o.raw
        /\ to.invested = o.invested /\ to.owed = o.owed + 1 /\ to.sold = o.sold + 1
    BY DEF OfferRecord
  <2>5. createClass(c) => offer'[c].exists
    BY <1>1
  <2> HIDE DEF to
  <2>6. to.raw + to.invested <= o.moves + 1 /\ to.owed <= to.sold
    BY <2>1, <2>2, <2>4
  <2>7. (to.sold > 0 => to.exists) /\ (o.exists => to.exists)
    BY <2>1, <2>4
  <2>8. QED
    BY <2>1, <2>3, <2>4, <2>5, <2>6, <2>7, MoveTypes
<1>6. CASE settle(c)
  <2> DEFINE to == [offer[c] EXCEPT !.owed = @ - 1]
  <2>1. Moves(c, to) /\ o.owed > 0
    BY <1>6 DEF settle
  <2>2. o.owed - 1 \in 0..Supply
    BY <1>0, <2>1
  <2>3. to \in OfferRecord
    BY <2>2 DEF OfferRecord
  <2>4. /\ to.exists = o.exists /\ to.moves = o.moves /\ to.raw = o.raw
        /\ to.invested = o.invested /\ to.owed = o.owed - 1 /\ to.sold = o.sold
    BY DEF OfferRecord
  <2>5. createClass(c) => offer'[c].exists
    BY <1>1
  <2> HIDE DEF to
  <2>6. to.raw + to.invested <= o.moves + 1 /\ to.owed <= to.sold
    BY <2>1, <2>2, <2>4
  <2>7. (to.sold > 0 => to.exists) /\ (o.exists => to.exists)
    BY <2>1, <2>4
  <2>8. QED
    BY <2>1, <2>3, <2>4, <2>5, <2>6, <2>7, MoveTypes
<1>7. CASE pauseClass(c) \/ pauseIssuer(c) \/ expire(c)
  <2>1. PICK to \in OfferRecord :
          /\ Moves(c, to)
          /\ to.exists = o.exists /\ to.moves = o.moves /\ to.raw = o.raw
          /\ to.invested = o.invested /\ to.owed = o.owed /\ to.sold = o.sold
    <3>1. CASE pauseClass(c)
      <4> DEFINE to == [offer[c] EXCEPT !.paused = ~@]
      <4>1. Moves(c, to) /\ to \in OfferRecord
            /\ to.exists = o.exists /\ to.moves = o.moves /\ to.raw = o.raw
            /\ to.invested = o.invested /\ to.owed = o.owed /\ to.sold = o.sold
        BY <3>1 DEF pauseClass, OfferRecord
      <4> QED BY <4>1
    <3>2. CASE pauseIssuer(c)
      <4> DEFINE to == [offer[c] EXCEPT !.issuerPaused = ~@]
      <4>1. Moves(c, to) /\ to \in OfferRecord
            /\ to.exists = o.exists /\ to.moves = o.moves /\ to.raw = o.raw
            /\ to.invested = o.invested /\ to.owed = o.owed /\ to.sold = o.sold
        BY <3>2 DEF pauseIssuer, OfferRecord
      <4> QED BY <4>1
    <3>3. CASE expire(c)
      <4> DEFINE to == [offer[c] EXCEPT !.expired = TRUE]
      <4>1. Moves(c, to) /\ to \in OfferRecord
            /\ to.exists = o.exists /\ to.moves = o.moves /\ to.raw = o.raw
            /\ to.invested = o.invested /\ to.owed = o.owed /\ to.sold = o.sold
        BY <3>3 DEF expire, OfferRecord
      <4> QED BY <4>1
    <3>4. QED
      BY <1>7, <3>1, <3>2, <3>3
  <2>2. createClass(c) => offer'[c].exists
    BY <1>1
  <2>3. QED
    BY <2>1, <2>2, MoveTypes
<1>8. QED
  BY <1>1, <1>2, <1>3, <1>4, <1>5, <1>6, <1>7

-----------------------------------------------------------------------------
(* How the chain's classes are known.                                      *)

LEMMA KnownStay ==
    ASSUME ChainTypes, NEW c \in Classes, ClassMoved(c)
    PROVE  Existing \subseteq Existing'
BY DEF Existing, ClassMoved

LEMMA IndexedExist ==
    ASSUME ChainTypes, IndexTypes
    PROVE  Indexed \subseteq Existing
BY OfferFields DEF Indexed, Existing, IndexTypes

LEMMA RememberTypes ==
    ASSUME IndexTypes, NEW cs, cs \subseteq Existing, remember(cs), UNCHANGED offer
    PROVE  IndexTypes'
BY DEF IndexTypes, remember, Existing

-----------------------------------------------------------------------------
(* Lists and loads.                                                        *)

LEMMA ListFacts ==
    ASSUME NEW got \in Lists
    PROVE  DOMAIN got \subseteq Classes /\ got \in [DOMAIN got -> Reading]
BY DEF Lists

LEMMA ListOf ==
    ASSUME NEW S \in SUBSET Classes, NEW got \in [S -> Reading]
    PROVE  got \in Lists
BY DEF Lists

LEMMA EmptyList == <<>> \in Lists /\ DOMAIN <<>> = {}
<1>1. <<>> \in [{} -> Reading] /\ DOMAIN <<>> = {}
  OBVIOUS
<1>2. QED
  BY <1>1, ListOf

LEMMA FreshList ==
    ASSUME NEW S \in SUBSET Classes
    PROVE  [c \in S |-> Unread] \in Lists
<1>1. Unread \in Reading
  BY DEF Unread, Reading
<1>2. QED
  BY <1>1, ListOf

\* The reading of one class goes a step further.
NextReading(g, o) ==
  CASE g.read = 0 -> [g EXCEPT !.read = 1, !.at = o.moves, !.paused = o.paused,
                               !.sold = o.sold]
    [] g.read = 1 -> [g EXCEPT !.read = 2, !.raw = o.raw, !.owed = o.owed]
    [] OTHER      -> [g EXCEPT !.read = 3, !.invested = o.invested, !.expired = o.expired]

LEMMA ReadingGoesOn ==
    ASSUME NEW g \in Reading, g.read < 3, NEW o \in OfferRecord
    PROVE  LET n == NextReading(g, o)
           IN  /\ n \in Reading /\ n.read = g.read + 1
               /\ g.read = 0 => n.at = o.moves /\ n.paused = o.paused /\ n.sold = o.sold
               /\ g.read > 0 => n.at = g.at /\ n.paused = g.paused /\ n.sold = g.sold
               /\ g.read = 1 => n.raw = o.raw /\ n.owed = o.owed
               /\ g.read = 2 => /\ n.raw = g.raw /\ n.owed = g.owed
                                /\ n.invested = o.invested /\ n.expired = o.expired
<1> DEFINE n == NextReading(g, o)
<1>0. /\ g.read \in {0, 1, 2}
      /\ o.moves \in Nat /\ o.paused \in BOOLEAN /\ o.sold \in Nat /\ o.raw \in Nat
      /\ o.owed \in Nat /\ o.invested \in Nat /\ o.expired \in BOOLEAN
  BY DeskAssumption DEF Reading, OfferRecord
<1>1. CASE g.read = 0
  <2>1. n = [g EXCEPT !.read = 1, !.at = o.moves, !.paused = o.paused, !.sold = o.sold]
    BY <1>1 DEF NextReading
  <2> HIDE DEF n
  <2>2. n \in Reading
    BY <1>0, <2>1 DEF Reading
  <2>3. n.read = 1 /\ n.at = o.moves /\ n.paused = o.paused /\ n.sold = o.sold
    BY <2>1 DEF Reading
  <2>4. QED
    BY <1>1, <2>2, <2>3 DEF n
<1>2. CASE g.read = 1
  <2>1. n = [g EXCEPT !.read = 2, !.raw = o.raw, !.owed = o.owed]
    BY <1>2 DEF NextReading
  <2> HIDE DEF n
  <2>2. n \in Reading
    BY <1>0, <2>1 DEF Reading
  <2>3. /\ n.read = 2 /\ n.at = g.at /\ n.paused = g.paused /\ n.sold = g.sold
        /\ n.raw = o.raw /\ n.owed = o.owed
    BY <2>1 DEF Reading
  <2>4. QED
    BY <1>2, <2>2, <2>3 DEF n
<1>3. CASE g.read = 2
  <2>1. n = [g EXCEPT !.read = 3, !.invested = o.invested, !.expired = o.expired]
    BY <1>3 DEF NextReading
  <2> HIDE DEF n
  <2>2. n \in Reading
    BY <1>0, <2>1 DEF Reading
  <2>3. /\ n.read = 3 /\ n.at = g.at /\ n.paused = g.paused /\ n.sold = g.sold
        /\ n.raw = g.raw /\ n.owed = g.owed
        /\ n.invested = o.invested /\ n.expired = o.expired
    BY <2>1 DEF Reading
  <2>4. QED
    BY <1>3, <2>2, <2>3 DEF n
<1>4. QED
  BY <1>0, <1>1, <1>2, <1>3

\* A load that is not under way.
LEMMA NoLoadFacts ==
    /\ NoLoad \in LoadRecord
    /\ NoLoad.pc = "idle" /\ NoLoad.latest = FALSE /\ NoLoad.got = <<>>
BY EmptyList DEF NoLoad, LoadRecord, LoadSteps

LEMMA CatalogEffect ==
    ASSUME ChainTypes, IndexTypes, LoadTypes, NEW l \in Loads, catalog(l)
    PROVE  /\ LoadTypes' /\ \A k \in Loads \ {l} : load'[k] = load[k]
           /\ load'[l].pc = "reading" /\ load'[l].latest = load[l].latest
           /\ load'[l].got = [c \in Indexed |-> Unread]
           /\ ids' = ids \cup Indexed
<1> DEFINE got == [c \in Indexed |-> Unread]
<1>1. load' = [load EXCEPT ![l].pc = "reading", ![l].got = got]
  BY DEF catalog
<1>2. got \in Lists
  BY FreshList DEF Indexed, IndexTypes, Existing
<1> HIDE DEF got
<1>3. LoadTypes'
  BY <1>1, <1>2 DEF LoadTypes, LoadRecord, LoadSteps
<1>4. /\ \A k \in Loads \ {l} : load'[k] = load[k]
      /\ load'[l].pc = "reading" /\ load'[l].latest = load[l].latest /\ load'[l].got = got
  BY <1>1 DEF LoadTypes, LoadRecord
<1>5. QED
  BY <1>3, <1>4 DEF catalog, remember, got

LEMMA ReadEffect ==
    ASSUME ChainTypes, LoadTypes, NEW l \in Loads, NEW c \in DOMAIN load[l].got,
           readOffering(l, c)
    PROVE  /\ c \in Classes /\ load[l].got[c] \in Reading /\ load[l].got[c].read < 3
           /\ LoadTypes' /\ \A k \in Loads \ {l} : load'[k] = load[k]
           /\ load'[l].pc = load[l].pc /\ load'[l].latest = load[l].latest
           /\ DOMAIN load'[l].got = DOMAIN load[l].got
           /\ load'[l].got[c] = NextReading(load[l].got[c], offer[c])
           /\ \A d \in DOMAIN load[l].got : d # c => load'[l].got[d] = load[l].got[d]
<1> DEFINE got == load[l].got
           next == NextReading(got[c], offer[c])
<1>1. got \in Lists /\ load[l] \in LoadRecord
  BY DEF LoadTypes, LoadRecord
<1>2. c \in Classes /\ got[c] \in Reading /\ got[c].read < 3
  BY <1>1, ListFacts DEF readOffering
<1>3. load' = [load EXCEPT ![l].got[c] = next]
  BY DEF readOffering, NextReading
<1>4. next \in Reading
  BY <1>2, ReadingGoesOn, OfferFields
<1> HIDE DEF next
<1>5. [got EXCEPT ![c] = next] \in Lists
  BY <1>1, <1>4, ListFacts, ListOf
<1>6. LoadTypes'
  BY <1>3, <1>5 DEF LoadTypes, LoadRecord
<1>7. /\ \A k \in Loads \ {l} : load'[k] = load[k]
      /\ load'[l].pc = load[l].pc /\ load'[l].latest = load[l].latest
      /\ load'[l].got = [got EXCEPT ![c] = next]
  BY <1>3 DEF LoadTypes, LoadRecord
<1>8. QED
  BY <1>2, <1>6, <1>7 DEF next

LEMMA StartEffect ==
    ASSUME LoadTypes, NEW l \in Loads, StartsLoad(l)
    PROVE  /\ LoadTypes'
           /\ load'[l].pc = "asking" /\ load'[l].latest
           /\ \A k \in Loads \ {l} : /\ load'[k].pc = load[k].pc /\ load'[k].got = load[k].got
                                     /\ ~load'[k].latest
<1> DEFINE one == [NoLoad EXCEPT !.pc = "asking", !.latest = TRUE]
<1>1. load' = [k \in Loads |-> IF k = l THEN one ELSE [load[k] EXCEPT !.latest = FALSE]]
  BY DEF StartsLoad
<1>2. one \in LoadRecord /\ one.pc = "asking" /\ one.latest
  BY NoLoadFacts DEF LoadRecord, LoadSteps
<1> HIDE DEF one
<1>3. ASSUME NEW k \in Loads, k # l
      PROVE  load'[k] \in LoadRecord /\ load'[k].pc = load[k].pc /\ load'[k].got = load[k].got
             /\ ~load'[k].latest
  <2>1. load'[k] = [load[k] EXCEPT !.latest = FALSE] /\ load[k] \in LoadRecord
    BY <1>1, <1>3 DEF LoadTypes
  <2>2. QED
    BY <2>1 DEF LoadRecord
<1>4. load'[l] = one
  BY <1>1
<1>5. load' = [k \in Loads |-> load'[k]]
  BY <1>1
<1>6. QED
  BY <1>2, <1>3, <1>4, <1>5 DEF LoadTypes

LEMMA EndEffect ==
    ASSUME LoadTypes, NEW l \in Loads, load' = [load EXCEPT ![l] = NoLoad]
    PROVE  /\ LoadTypes' /\ load'[l] = NoLoad /\ \A k \in Loads \ {l} : load'[k] = load[k]
BY NoLoadFacts DEF LoadTypes

LEMMA RestartEffect ==
    ASSUME LoadTypes, load' = [l \in Loads |-> IF load[l].pc = "reading" THEN NoLoad ELSE load[l]]
    PROVE  /\ LoadTypes'
           /\ \A l \in Loads : load'[l] = NoLoad \/ load'[l] = load[l]
BY NoLoadFacts DEF LoadTypes

LEMMA FirstLoadFacts ==
    /\ FirstLoad \in [Loads -> LoadRecord]
    /\ \A l \in Loads : FirstLoad[l].pc # "reading"
    /\ \A l, k \in Loads : FirstLoad[l].latest /\ FirstLoad[k].latest => l = k
<1> DEFINE one == [NoLoad EXCEPT !.pc = "asking", !.latest = TRUE]
           first == CHOOSE k \in Loads : TRUE
<1>1. FirstLoad = [l \in Loads |-> IF l = first THEN one ELSE NoLoad]
  BY DEF FirstLoad
<1>2. one \in LoadRecord /\ one.pc = "asking" /\ one.latest
  BY NoLoadFacts DEF LoadRecord, LoadSteps
<1> HIDE DEF one, first
<1>3. QED
  BY <1>1, <1>2, NoLoadFacts

-----------------------------------------------------------------------------
(* What is known, what the desk holds and what the chain holds.            *)

\* What one transaction does to a class.
Signing(c) ==
  \/ createClass(c) \/ postCollateral(c, 1) \/ investCollateral(c, 1)
  \/ withdrawCollateral(c, 1) \/ mint(c) \/ settle(c) \/ pauseClass(c)
  \/ pauseIssuer(c) \/ expire(c)

LEMMA WhatIsSigned ==
    ASSUME NEW asked, Signed(asked)
    PROVE  Signing(asked.class) /\ (asked.step = "create" => createClass(asked.class))
BY DEF Signed, Signing

LEMMA ChainStep ==
    ASSUME OffersTypes, [OffersNext]_offerVars
    PROVE  \/ UNCHANGED offer
           \/ \E c \in Classes : Signing(c) /\ UNCHANGED <<indexVars, viewVars>>
<1>1. ASSUME NEW c \in Classes, Elsewhere(c)
      PROVE  Signing(c) /\ UNCHANGED <<indexVars, viewVars>>
  BY <1>1 DEF Elsewhere, Signing
<1>2. ASSUME WalletSigns
      PROVE  console.class \in Classes /\ Signing(console.class)
             /\ UNCHANGED <<indexVars, viewVars>>
  <2>1. Asked.class = console.class /\ Signing(Asked.class)
    BY <1>2, WhatIsSigned DEF WalletSigns, Asked
  <2>2. console.class \in Classes
    BY <1>2, DeskAssumption DEF WalletSigns, WalletSteps, OffersTypes, DeskTypes
  <2>3. QED
    BY <1>2, <2>1, <2>2 DEF WalletSigns
<1>3. ASSUME NEW asked \in left, LateSigned(asked)
      PROVE  asked.class \in Classes /\ Signing(asked.class) /\ UNCHANGED <<indexVars, viewVars>>
  BY <1>3, WhatIsSigned, DeskAssumption DEF LateSigned, OffersTypes, DeskTypes
<1>4. QED
  BY <1>1, <1>2, <1>3
     DEF OffersNext, ClickCreate, Click, WalletRefuses, WalletTimesOut, Works, Discovers,
         Announces, Refreshes, Refreshed, DiscoverFails, loadMerchantData, Serves, catalog,
         Read, Answered, LoadFails, ServiceRestarts, Reopen, Abandon, Reopened, offerVars,
         chainVars

\* The service learns of classes that exist, and starts again with its file.
LEMMA IndexStep ==
    ASSUME OffersTypes, [OffersNext]_offerVars
    PROVE  \/ UNCHANGED indexVars
           \/ \E cs \in SUBSET Existing : remember(cs) /\ UNCHANGED offer
           \/ ids' = file /\ UNCHANGED <<offer, file>>
<1>0. Indexed \subseteq Existing
  BY IndexedExist DEF OffersTypes
<1>1. ASSUME Discovers \/ DiscoverFails
      PROVE  \E cs \in SUBSET Existing : remember(cs) /\ UNCHANGED offer
  <2>1. {console.class} \cap {c \in Classes : discoverable(c)} \in SUBSET Existing
        /\ {} \in SUBSET Existing
    BY DEF discoverable, Existing
  <2>2. QED
    BY <1>1, <2>1 DEF Discovers, DiscoverFails, chainVars
<1>2. ASSUME NEW found \in SUBSET Own, loadMerchantData(found)
      PROVE  \E cs \in SUBSET Existing : remember(cs) /\ UNCHANGED offer
  <2>1. found \subseteq Existing
    BY <1>0, <1>2 DEF loadMerchantData, OffersTypes, DeskTypes
  <2>2. found \cup Indexed \in SUBSET Existing
    BY <1>0, <2>1
  <2>3. QED
    BY <1>2, <2>2 DEF loadMerchantData, chainVars
<1>3. ASSUME NEW l \in Loads, catalog(l)
      PROVE  \E cs \in SUBSET Existing : remember(cs) /\ UNCHANGED offer
  BY <1>0, <1>3 DEF catalog, chainVars
<1>4. ASSUME ServiceRestarts
      PROVE  ids' = file /\ UNCHANGED <<offer, file>>
  BY <1>4 DEF ServiceRestarts, chainVars
<1>5. QED
  BY <1>1, <1>2, <1>3, <1>4
     DEF OffersNext, Elsewhere, ClickCreate, Click, WalletSigns, WalletRefuses, WalletTimesOut,
         LateSigned, Works, Announces, Refreshes, Refreshed, Serves, Read, Answered,
         LoadFails, Reopen, Abandon, Reopened, offerVars, indexVars

LEMMA ChainAndIndexStep ==
    ASSUME OffersTypes, [OffersNext]_offerVars
    PROVE  /\ ChainTypes' /\ IndexTypes'
           /\ Existing \subseteq Existing' /\ ids \subseteq ids'
           /\ UNCHANGED offer \/ \E c \in Classes : ClassMoved(c) /\ UNCHANGED viewVars
<1>1. CASE UNCHANGED offer
  <2>1. ChainTypes' /\ Existing' = Existing
    BY <1>1 DEF OffersTypes, ChainTypes, Existing
  <2>2. IndexTypes' /\ ids \subseteq ids'
    BY <1>1, <2>1, IndexStep DEF OffersTypes, IndexTypes, indexVars, remember
  <2>3. QED
    BY <1>1, <2>1, <2>2
<1>2. ASSUME NEW c \in Classes, Signing(c), UNCHANGED <<indexVars, viewVars>>
      PROVE  /\ ChainTypes' /\ IndexTypes' /\ Existing \subseteq Existing' /\ ids \subseteq ids'
             /\ ClassMoved(c) /\ UNCHANGED viewVars
  <2>1. ChainTypes' /\ ClassMoved(c)
    BY <1>2, SigningMoves DEF Signing, OffersTypes
  <2>2. Existing \subseteq Existing'
    BY <2>1, KnownStay DEF OffersTypes
  <2>3. QED
    BY <1>2, <2>1, <2>2 DEF OffersTypes, IndexTypes, indexVars
<1>3. QED
  BY <1>1, <1>2, ChainStep

LEMMA DeskStep ==
    ASSUME OffersTypes, [OffersNext]_offerVars
    PROVE  DeskTypes' /\ failures' \in Nat
<1>0. Existing \subseteq Existing' /\ DeskTypes /\ failures \in Nat
  BY ChainAndIndexStep DEF OffersTypes
<1>1. failures' \in Nat
  <2>1. UNCHANGED failures \/ Fails
    BY DEF OffersNext, Elsewhere, ClickCreate, Click, WalletSigns, WalletRefuses,
           WalletTimesOut, LateSigned, Works, Discovers, Announces, Refreshes, Refreshed,
           DiscoverFails, loadMerchantData, Serves, catalog, Read, Answered, LoadFails,
           ServiceRestarts, Reopen, Abandon, offerVars
  <2>2. QED
    BY <1>0, <2>1 DEF Fails
<1>2. Indexed \cap Own \subseteq Own /\ stored \subseteq Own \cap Existing'
  BY <1>0 DEF DeskTypes
<1>3. merchantBusy => console.class \in Own
  BY <1>0 DEF merchantBusy, DeskTypes
<1>4. console.pc \in WalletSteps => Asked \in [step : WalletSteps, class : Own]
  BY <1>0 DEF Asked, DeskTypes, WalletSteps
<1>5. NoConsole \in [pc : ConsoleSteps, class : Own \cup {None}] /\ NoConsole.pc = "idle"
  BY DEF NoConsole, ConsoleSteps
<1>6. ASSUME NEW pc \in ConsoleSteps, merchantBusy, Goes(pc)
      PROVE  /\ console' \in [pc : ConsoleSteps, class : Own \cup {None}]
             /\ console'.class \in Own
  BY <1>0, <1>3, <1>6 DEF Goes, DeskTypes
<1>7. \A step : After(step) \in ConsoleSteps
  BY DEF After, ConsoleSteps, WalletSteps
<1>8. ASSUME NEW c \in Classes, Elsewhere(c)
      PROVE  DeskTypes'
  BY <1>0, <1>2, <1>8 DEF Elsewhere, deskVars, DeskTypes
<1>9. ASSUME NEW c \in Classes, ClickCreate(c) \/ \E step \in WalletSteps : Click(step, c)
      PROVE  DeskTypes'
  <2>1. PICK step \in WalletSteps : console' = [pc |-> step, class |-> c]
    BY <1>9 DEF ClickCreate, Click, WalletSteps
  <2>2. c \in Own /\ step \in ConsoleSteps
    BY <1>0, <1>9 DEF ClickCreate, Click, DeskTypes, ConsoleSteps
  <2>3. console' \in [pc : ConsoleSteps, class : Own \cup {None}] /\ console'.class \in Own
    BY <2>1, <2>2
  <2>4. UNCHANGED <<stored, mine, told, due, left>>
    BY <1>9 DEF ClickCreate, Click
  <2>5. QED
    BY <1>0, <1>2, <2>3, <2>4 DEF DeskTypes
<1>10. ASSUME WalletSigns
      PROVE  DeskTypes'
  <2>1. merchantBusy /\ Goes(After(console.pc)) /\ UNCHANGED <<mine, told, due, left>>
    BY <1>10 DEF WalletSigns, merchantBusy, WalletSteps
  <2>2. console' \in [pc : ConsoleSteps, class : Own \cup {None}] /\ console'.class \in Own
    BY <1>6, <1>7, <2>1
  <2>3. console.pc = "create" => console.class \in Own \cap Existing'
    <3>1. SUFFICES ASSUME console.pc = "create" PROVE console.class \in Own \cap Existing'
      OBVIOUS
    <3>2. Asked.step = "create" /\ Asked.class = console.class /\ Signed(Asked)
      BY <1>10, <3>1 DEF Asked, WalletSigns
    <3>3. createClass(console.class) /\ console.class \in Own /\ console.class \in Classes
      BY <1>3, <2>1, <3>2, WhatIsSigned, DeskAssumption
    <3>4. offer'[console.class].exists
      BY <3>3, SigningMoves DEF OffersTypes
    <3>5. QED
      BY <3>3, <3>4 DEF Existing
  <2>4. stored' \subseteq Own \cap Existing'
    BY <1>2, <1>10, <2>3 DEF WalletSigns, Created
  <2>5. QED
    BY <1>0, <2>1, <2>2, <2>4 DEF DeskTypes
<1>11. ASSUME WalletRefuses \/ WalletTimesOut
      PROVE  DeskTypes'
  BY <1>0, <1>2, <1>4, <1>5, <1>11 DEF WalletRefuses, WalletTimesOut, DeskTypes
<1>12. ASSUME NEW asked \in left, LateSigned(asked)
      PROVE  DeskTypes'
  BY <1>0, <1>2, <1>12 DEF LateSigned, DeskTypes
<1>13. ASSUME Discovers
      PROVE  DeskTypes'
  <2>1. merchantBusy /\ Goes(After("discover")) /\ UNCHANGED <<stored, mine, told, due, left>>
    BY <1>13 DEF Discovers, merchantBusy
  <2>2. console' \in [pc : ConsoleSteps, class : Own \cup {None}] /\ console'.class \in Own
    BY <1>6, <1>7, <2>1
  <2>3. QED
    BY <1>0, <1>2, <2>1, <2>2 DEF DeskTypes
<1>14. ASSUME DiscoverFails
      PROVE  DeskTypes'
  <2>1. merchantBusy /\ UNCHANGED <<stored, mine, told, due, left>>
    BY <1>14 DEF DiscoverFails, merchantBusy
  <2>2. console' = NoConsole \/ Goes("announce")
    BY <1>14 DEF DiscoverFails, Goes
  <2>3. /\ console' \in [pc : ConsoleSteps, class : Own \cup {None}]
        /\ console'.pc # "idle" => console'.class \in Own
    BY <1>5, <1>6, <2>1, <2>2 DEF ConsoleSteps
  <2>4. QED
    BY <1>0, <1>2, <2>1, <2>3 DEF DeskTypes
<1>15. ASSUME Announces
      PROVE  DeskTypes'
  <2>1. merchantBusy /\ Goes("refresh") /\ told' = told \cup {console.class}
        /\ UNCHANGED <<stored, mine, due, left>>
    BY <1>15 DEF Announces, merchantBusy
  <2>2. console' \in [pc : ConsoleSteps, class : Own \cup {None}] /\ console'.class \in Own
    BY <1>6, <2>1 DEF ConsoleSteps
  <2>3. told' \subseteq Own
    BY <1>0, <1>3, <2>1 DEF DeskTypes
  <2>4. QED
    BY <1>0, <1>2, <2>1, <2>2, <2>3 DEF DeskTypes
<1>16. ASSUME Refreshes
      PROVE  DeskTypes'
  <2>1. merchantBusy /\ Goes("awaits load") /\ UNCHANGED <<stored, mine, told, due, left>>
    BY <1>16 DEF Refreshes, merchantBusy
  <2>2. console' \in [pc : ConsoleSteps, class : Own \cup {None}] /\ console'.class \in Own
    BY <1>6, <2>1 DEF ConsoleSteps
  <2>3. QED
    BY <1>0, <1>2, <2>1, <2>2 DEF DeskTypes
<1>17. ASSUME Refreshed
      PROVE  DeskTypes'
  BY <1>0, <1>2, <1>5, <1>17 DEF Refreshed, DeskTypes
<1>18. ASSUME NEW found \in SUBSET Own, loadMerchantData(found)
      PROVE  DeskTypes'
  BY <1>0, <1>2, <1>18 DEF loadMerchantData, DeskTypes
<1>19. ASSUME NEW l \in Loads, Serves(l) \/ LoadFails(l)
      PROVE  DeskTypes'
  BY <1>0, <1>2, <1>19 DEF Serves, catalog, Read, Answered, LoadFails, deskVars, DeskTypes
<1>20. ASSUME ServiceRestarts
      PROVE  DeskTypes'
  BY <1>0, <1>2, <1>20 DEF ServiceRestarts, deskVars, DeskTypes
<1>21. ASSUME Reopen \/ Abandon
      PROVE  DeskTypes'
  BY <1>0, <1>2, <1>4, <1>5, <1>21 DEF Reopen, Abandon, Reopened, DeskTypes
<1>22. ASSUME UNCHANGED offerVars
      PROVE  DeskTypes'
  BY <1>0, <1>2, <1>22 DEF offerVars, DeskTypes
<1>23. QED
  BY <1>1, <1>8, <1>9, <1>10, <1>11, <1>12, <1>13, <1>14, <1>15, <1>16, <1>17, <1>18, <1>19,
     <1>20, <1>21, <1>22 DEF OffersNext, Works

-----------------------------------------------------------------------------
(* What has been read, what is shown.                                      *)

\* Unless the class has moved since the factory was read, what has been read
\* is what the chain holds.
ReadSoFar(c, g) ==
  /\ g.at <= offer[c].moves
  /\ g.read > 0 /\ g.at = offer[c].moves =>
       /\ g.paused = offer[c].paused /\ g.sold = offer[c].sold
       /\ g.read > 1 => g.raw = offer[c].raw /\ g.owed = offer[c].owed
       /\ g.read > 2 => g.invested = offer[c].invested /\ g.expired = offer[c].expired

\* A load asks for all that is known when it is asked for; a list is of
\* classes that are known, and all of it has been read.
Loading ==
  \A l \in Loads : load[l].pc = "reading" =>
    /\ DOMAIN load[l].got \subseteq ids
    /\ \A c \in DOMAIN load[l].got : ReadSoFar(c, load[l].got[c])

Viewing ==
  /\ Listed(view) \subseteq ids
  /\ \A c \in Listed(view) : view.offers[c].read = 3 /\ ReadSoFar(c, view.offers[c])

\* Of the loads under way one is the latest, and it leaves out nothing that
\* is shown.  The compute page shows nothing at all.
Newest ==
  /\ \A l, k \in Loads : load[l].latest /\ load[k].latest => l = k
  /\ \A l \in Loads : load[l].latest /\ load[l].pc = "reading" =>
       Listed(view) \subseteq DOMAIN load[l].got
  /\ Lane = "compute" => Listed(view) = {}

OffersInv == OffersTypes /\ Loading /\ Viewing /\ Newest

LEMMA ReadingFields ==
    ASSUME NEW g \in Reading
    PROVE  g.at \in Nat /\ g.read \in {0, 1, 2, 3}
BY DEF Reading

LEMMA ListFields ==
    ASSUME OffersTypes
    PROVE  /\ \A l \in Loads :
                /\ load[l].pc \in LoadSteps /\ load[l].latest \in BOOLEAN /\ load[l].got \in Lists
                /\ DOMAIN load[l].got \subseteq Classes
                /\ \A c \in DOMAIN load[l].got : load[l].got[c] \in Reading
           /\ view.offers \in Lists /\ Listed(view) \subseteq Classes
           /\ \A c \in Listed(view) : view.offers[c] \in Reading
<1>1. \A l \in Loads :
        load[l].pc \in LoadSteps /\ load[l].latest \in BOOLEAN /\ load[l].got \in Lists
  BY DEF OffersTypes, LoadTypes, LoadRecord
<1>2. view.offers \in Lists
  BY DEF OffersTypes, ViewTypes
<1>3. QED
  BY <1>1, <1>2, ListFacts DEF Listed

\* What was read stays right, or is known to be old.
LEMMA ReadStaysRead ==
    ASSUME ChainTypes, NEW c \in Classes, NEW g \in Reading, ReadSoFar(c, g),
           UNCHANGED offer \/ \E d \in Classes : ClassMoved(d)
    PROVE  ReadSoFar(c, g)'
<1>0. g.at \in Nat /\ offer[c].moves \in Nat
  BY OfferFields, ReadingFields
<1>1. CASE UNCHANGED offer
  BY <1>1 DEF ReadSoFar
<1>2. ASSUME NEW d \in Classes, ClassMoved(d)
      PROVE  ReadSoFar(c, g)'
  <2>1. CASE c # d
    BY <1>2, <2>1 DEF ReadSoFar, ClassMoved
  <2>2. CASE c = d
    <3>1. offer'[c].moves = offer[c].moves + 1 /\ g.at <= offer[c].moves
      BY <1>2, <2>2 DEF ReadSoFar, ClassMoved
    <3>2. g.at <= offer'[c].moves /\ g.at # offer'[c].moves
      BY <1>0, <3>1
    <3>3. QED
      BY <3>2 DEF ReadSoFar
  <2>3. QED
    BY <2>1, <2>2
<1>3. QED
  BY <1>1, <1>2

LEMMA ReadGoesOn ==
    ASSUME ChainTypes, NEW c \in Classes, NEW g \in Reading, g.read < 3, ReadSoFar(c, g)
    PROVE  ReadSoFar(c, NextReading(g, offer[c]))
<1> DEFINE n == NextReading(g, offer[c])
<1>0. g.at \in Nat /\ offer[c].moves \in Nat /\ offer[c] \in OfferRecord /\ g.read \in {0, 1, 2}
  BY OfferFields, ReadingFields
<1>1. /\ n.read = g.read + 1
      /\ g.read = 0 => n.at = offer[c].moves /\ n.paused = offer[c].paused /\ n.sold = offer[c].sold
      /\ g.read > 0 => n.at = g.at /\ n.paused = g.paused /\ n.sold = g.sold
      /\ g.read = 1 => n.raw = offer[c].raw /\ n.owed = offer[c].owed
      /\ g.read = 2 => /\ n.raw = g.raw /\ n.owed = g.owed
                       /\ n.invested = offer[c].invested /\ n.expired = offer[c].expired
  BY <1>0, ReadingGoesOn
<1> HIDE DEF n
<1>2. ReadSoFar(c, n)
  <2>1. CASE g.read = 0
    BY <1>0, <1>1, <2>1 DEF ReadSoFar
  <2>2. CASE g.read = 1
    BY <1>0, <1>1, <2>2 DEF ReadSoFar
  <2>3. CASE g.read = 2
    BY <1>0, <1>1, <2>3 DEF ReadSoFar
  <2>4. QED
    BY <1>0, <2>1, <2>2, <2>3
<1>3. QED
  BY <1>2 DEF ReadSoFar, n

\* A list and a reading that were right are right after any step that leaves
\* the loads and the list alone.
LEMMA ChainMovesUnder ==
    ASSUME OffersInv, [OffersNext]_offerVars, UNCHANGED viewVars
    PROVE  LoadTypes' /\ ViewTypes' /\ Loading' /\ Viewing' /\ Newest'
<1>1. /\ ids \subseteq ids' /\ UNCHANGED <<load, view>>
      /\ UNCHANGED offer \/ \E c \in Classes : ClassMoved(c)
  BY ChainAndIndexStep DEF OffersInv, viewVars
<1>2. LoadTypes' /\ ViewTypes' /\ Newest'
  BY <1>1 DEF OffersInv, OffersTypes, LoadTypes, ViewTypes, Newest, Listed
<1>3. Loading'
  BY <1>1, ReadStaysRead, ListFields DEF OffersInv, OffersTypes, Loading
<1>4. Viewing'
  BY <1>1, ReadStaysRead, ListFields DEF OffersInv, OffersTypes, Viewing, Listed
<1>5. QED
  BY <1>2, <1>3, <1>4

\* How loads and list change: a load is asked for, served, shown or lost, the
\* service or the page starts afresh.  The chain stands still meanwhile.
ListStep ==
  /\ UNCHANGED offer
  /\ \/ \E l \in Loads : catalog(l) \/ Read(l)
     \/ \E l \in Loads : StartsLoad(l) /\ UNCHANGED view
     \/ \E l \in Loads :
          /\ load' = [load EXCEPT ![l] = NoLoad]
          /\ UNCHANGED view \/ (Answered(l) /\ Shows(l))
     \/ load' = [l \in Loads |-> IF load[l].pc = "reading" THEN NoLoad ELSE load[l]] /\ UNCHANGED view
     \/ load' = FirstLoad /\ view' = NoView

LEMMA WhatMovesLists ==
    ASSUME [OffersNext]_offerVars
    PROVE  UNCHANGED viewVars \/ ListStep
<1>1. ASSUME NEW l \in Loads, Serves(l) \/ LoadFails(l)
      PROVE  ListStep
  BY <1>1 DEF Serves, catalog, Read, Answered, LoadFails, ListStep, chainVars
<1>2. ASSUME Refreshes PROVE ListStep
  BY <1>2 DEF Refreshes, ListStep, chainVars
<1>3. ASSUME ServiceRestarts PROVE ListStep
  BY <1>3 DEF ServiceRestarts, ListStep, chainVars
<1>4. ASSUME Reopen \/ Abandon PROVE ListStep
  BY <1>4 DEF Reopen, Abandon, Reopened, ListStep, chainVars
<1>5. QED
  BY <1>1, <1>2, <1>3, <1>4
     DEF OffersNext, Elsewhere, ClickCreate, Click, WalletSigns, WalletRefuses, WalletTimesOut,
         LateSigned, Works, Discovers, Announces, Refreshed, DiscoverFails, loadMerchantData,
         offerVars, viewVars

LEMMA ListMoves ==
    ASSUME OffersInv, [OffersNext]_offerVars, ListStep
    PROVE  /\ LoadTypes' /\ ViewTypes' /\ Loading' /\ Viewing' /\ Newest'
           /\ view'.loaded => Listed(view) \subseteq Listed(view')
<1>0. /\ ids \subseteq ids' /\ UNCHANGED offer
      /\ ChainTypes /\ IndexTypes /\ LoadTypes /\ ViewTypes /\ Loading /\ Viewing /\ Newest
  BY ChainAndIndexStep DEF OffersInv, OffersTypes, ListStep
<1>t. \A l \in Loads :
        /\ load[l].pc \in LoadSteps /\ load[l].latest \in BOOLEAN /\ load[l].got \in Lists
        /\ DOMAIN load[l].got \subseteq Classes
        /\ \A c \in DOMAIN load[l].got : load[l].got[c] \in Reading
  BY ListFields DEF OffersInv
<1>s. \A c, g : ReadSoFar(c, g) => ReadSoFar(c, g)'
  BY <1>0 DEF ReadSoFar
<1>v. ASSUME UNCHANGED view
      PROVE  ViewTypes' /\ Viewing' /\ Listed(view') = Listed(view)
  BY <1>0, <1>s, <1>v DEF ViewTypes, Viewing, Listed
<1>n. NoLoad \in LoadRecord /\ NoLoad.pc = "idle" /\ NoLoad.latest = FALSE
  BY NoLoadFacts
<1>1. ASSUME NEW l \in Loads, catalog(l)
      PROVE  LoadTypes' /\ Loading' /\ Newest' /\ UNCHANGED view
  <2>1. /\ LoadTypes' /\ \A k \in Loads \ {l} : load'[k] = load[k]
        /\ load'[l].pc = "reading" /\ load'[l].latest = load[l].latest
        /\ load'[l].got = [c \in Indexed |-> Unread]
        /\ ids' = ids \cup Indexed
    BY <1>0, <1>1, CatalogEffect
  <2>2. UNCHANGED view
    BY <1>1 DEF catalog
  <2>3. Indexed \subseteq Classes /\ \A c \in Indexed : load'[l].got[c] = Unread
    BY <1>0, <2>1, IndexedExist DEF Existing
  <2>4. \A c \in Classes : ReadSoFar(c, Unread)'
    <3>1. \A c \in Classes : 0 <= offer[c].moves
      BY <1>0, OfferFields
    <3>2. QED
      BY <1>0, <3>1 DEF ReadSoFar, Unread
  <2>5. Loading'
    BY <1>0, <1>s, <2>1, <2>3, <2>4 DEF Loading
  <2>6. Listed(view) \subseteq Indexed
    BY <1>0, DeskAssumption DEF Viewing, Newest, Indexed
  <2>7. Newest'
    BY <1>0, <2>1, <2>2, <2>6 DEF Newest, Listed
  <2>8. QED
    BY <2>1, <2>2, <2>5, <2>7
<1>2. ASSUME NEW l \in Loads, Read(l)
      PROVE  LoadTypes' /\ Loading' /\ Newest' /\ UNCHANGED view
  <2>1. PICK c \in DOMAIN load[l].got : readOffering(l, c)
    BY <1>2 DEF Read
  <2>2. UNCHANGED view /\ load[l].pc = "reading"
    BY <1>2 DEF Read
  <2>3. /\ c \in Classes /\ load[l].got[c] \in Reading /\ load[l].got[c].read < 3
        /\ LoadTypes' /\ \A k \in Loads \ {l} : load'[k] = load[k]
        /\ load'[l].pc = load[l].pc /\ load'[l].latest = load[l].latest
        /\ DOMAIN load'[l].got = DOMAIN load[l].got
        /\ load'[l].got[c] = NextReading(load[l].got[c], offer[c])
        /\ \A d \in DOMAIN load[l].got : d # c => load'[l].got[d] = load[l].got[d]
    BY <1>0, <2>1, ReadEffect
  <2>4. ASSUME NEW g, g = NextReading(load[l].got[c], offer[c])
        PROVE  ReadSoFar(c, g)'
    <3>1. ReadSoFar(c, load[l].got[c])
      BY <1>0, <2>2 DEF Loading
    <3>2. ReadSoFar(c, g)
      BY <1>0, <2>3, <2>4, <3>1, ReadGoesOn
    <3>3. QED
      BY <1>s, <3>2
  <2>5. Loading'
    BY <1>0, <1>s, <2>3, <2>4 DEF Loading
  <2>6. Newest'
    BY <1>0, <2>2, <2>3 DEF Newest, Listed
  <2>7. QED
    BY <2>2, <2>3, <2>5, <2>6
<1>3. ASSUME NEW l \in Loads, StartsLoad(l), UNCHANGED view
      PROVE  LoadTypes' /\ Loading' /\ Newest'
  <2>1. /\ LoadTypes'
        /\ load'[l].pc = "asking" /\ load'[l].latest
        /\ \A k \in Loads \ {l} : /\ load'[k].pc = load[k].pc /\ load'[k].got = load[k].got
                                  /\ ~load'[k].latest
    BY <1>0, <1>3, StartEffect
  <2>2. Loading'
    BY <1>0, <1>s, <2>1 DEF Loading
  <2>3. Newest'
    BY <1>0, <1>3, <2>1 DEF Newest, Listed
  <2>4. QED
    BY <2>1, <2>2, <2>3
<1>4. ASSUME NEW l \in Loads, load' = [load EXCEPT ![l] = NoLoad]
      PROVE  /\ LoadTypes' /\ Loading'
             /\ ~load'[l].latest /\ load'[l].pc # "reading"
             /\ \A k \in Loads \ {l} : load'[k] = load[k]
  <2>1. LoadTypes' /\ load'[l] = NoLoad /\ \A k \in Loads \ {l} : load'[k] = load[k]
    BY <1>0, <1>4, EndEffect
  <2>2. Loading'
    BY <1>0, <1>n, <1>s, <2>1 DEF Loading
  <2>3. QED
    BY <1>n, <2>1, <2>2
<1>5. ASSUME NEW l \in Loads, load' = [load EXCEPT ![l] = NoLoad], UNCHANGED view
      PROVE  Newest'
  BY <1>0, <1>4, <1>5 DEF Newest, Listed
<1>6. ASSUME NEW l \in Loads, load' = [load EXCEPT ![l] = NoLoad], Answered(l), Shows(l)
      PROVE  ViewTypes' /\ Viewing' /\ Newest' /\ Listed(view) \subseteq Listed(view')
  <2>1. /\ load[l].pc = "reading" /\ \A c \in DOMAIN load[l].got : load[l].got[c].read = 3
        /\ view' = [loaded |-> TRUE, offers |-> Kept(load[l].got)]
    BY <1>6 DEF Answered
  <2>2. CASE Lane = "carbon"
    <3>1. view' = [loaded |-> TRUE, offers |-> load[l].got] /\ load[l].latest
      BY <1>6, <2>1, <2>2 DEF Kept, Shows
    <3>2. ViewTypes'
      BY <1>t, <3>1 DEF ViewTypes
    <3>3. Listed(view') = DOMAIN load[l].got /\ view'.offers = load[l].got
      BY <3>1 DEF Listed
    <3>4. Viewing'
      BY <1>0, <1>s, <2>1, <3>3 DEF Viewing, Loading
    <3>5. Listed(view) \subseteq Listed(view')
      BY <1>0, <2>1, <3>1, <3>3 DEF Newest
    <3>6. \A k \in Loads : ~load'[k].latest
      BY <1>0, <1>4, <1>6, <3>1 DEF Newest
    <3>7. Newest'
      BY <1>0, <2>2, <3>6 DEF Newest
    <3>8. QED
      BY <3>2, <3>4, <3>5, <3>7
  <2>3. CASE Lane = "compute"
    <3>1. view' = [loaded |-> TRUE, offers |-> <<>>]
      BY <2>1, <2>3 DEF Kept
    <3>2. ViewTypes' /\ Listed(view') = {}
      BY <3>1, EmptyList DEF ViewTypes, Listed
    <3>3. Viewing' /\ Listed(view) = {}
      BY <1>0, <2>3, <3>2 DEF Viewing, Newest
    <3>4. Newest'
      BY <1>0, <1>4, <1>6, <3>2 DEF Newest
    <3>5. QED
      BY <3>2, <3>3, <3>4
  <2>4. QED
    BY <2>2, <2>3, DeskAssumption
<1>7. ASSUME load' = [l \in Loads |-> IF load[l].pc = "reading" THEN NoLoad ELSE load[l]],
             UNCHANGED view
      PROVE  LoadTypes' /\ Loading' /\ Newest'
  <2>1. LoadTypes' /\ \A l \in Loads : load'[l] = NoLoad \/ load'[l] = load[l]
    BY <1>0, <1>7, RestartEffect
  <2>2. QED
    BY <1>0, <1>7, <1>n, <1>s, <2>1 DEF Loading, Newest, Listed
<1>8. ASSUME load' = FirstLoad, view' = NoView
      PROVE  LoadTypes' /\ Loading' /\ Newest' /\ ViewTypes' /\ Viewing' /\ ~view'.loaded
  <2>1. view'.loaded = FALSE /\ Listed(view') = {} /\ ViewTypes'
    BY <1>8, EmptyList DEF NoView, Listed, ViewTypes
  <2>2. LoadTypes' /\ Loading' /\ Newest'
    BY <1>8, <2>1, FirstLoadFacts DEF LoadTypes, Loading, Newest
  <2>3. Viewing'
    BY <2>1 DEF Viewing
  <2>4. QED
    BY <2>1, <2>2, <2>3
<1>9. QED
  BY <1>1, <1>2, <1>3, <1>4, <1>5, <1>6, <1>7, <1>8, <1>v DEF ListStep

-----------------------------------------------------------------------------
(* The theorems.                                                           *)

LEMMA OffersInitially == OffersInit => OffersInv
<1> SUFFICES ASSUME OffersInit PROVE OffersInv
  OBVIOUS
<1>1. NoOffer \in OfferRecord /\ NoOffer.raw + NoOffer.invested <= NoOffer.moves
      /\ NoOffer.owed <= NoOffer.sold /\ ~(NoOffer.sold > 0)
  BY DeskAssumption DEF NoOffer, OfferRecord
<1>2. ChainTypes /\ IndexTypes
  BY <1>1 DEF OffersInit, ChainTypes, IndexTypes
<1>3. DeskTypes
  BY DEF OffersInit, DeskTypes, NoConsole, ConsoleSteps
<1>4. ViewTypes /\ Listed(view) = {}
  BY EmptyList DEF OffersInit, ViewTypes, NoView, Listed
<1>5. LoadTypes /\ Loading /\ Newest
  BY <1>4, FirstLoadFacts DEF OffersInit, LoadTypes, Loading, Newest
<1>6. failures \in Nat /\ Viewing
  BY <1>4 DEF OffersInit, Viewing
<1>7. QED
  BY <1>2, <1>3, <1>4, <1>5, <1>6 DEF OffersInv, OffersTypes

LEMMA OffersStay == OffersInv /\ [OffersNext]_offerVars => OffersInv'
<1> SUFFICES ASSUME OffersInv, [OffersNext]_offerVars PROVE OffersInv'
  OBVIOUS
<1>1. ChainTypes' /\ IndexTypes' /\ DeskTypes' /\ failures' \in Nat
  BY ChainAndIndexStep, DeskStep DEF OffersInv
<1>2. LoadTypes' /\ ViewTypes' /\ Loading' /\ Viewing' /\ Newest'
  BY WhatMovesLists, ChainMovesUnder, ListMoves
<1>3. QED
  BY <1>1, <1>2 DEF OffersInv, OffersTypes

LEMMA OffersCorrect == OffersSpec => []OffersInv
<1>1. QED
  BY OffersInitially, OffersStay, PTL DEF OffersSpec

\* The contracts, the index, the console and the lists hold what the code
\* gives them; the index in memory and its file never differ.
THEOREM OffersTypesCorrect == OffersSpec => [](OffersTypeOK /\ file = ids)
<1>1. OffersInv => OffersTypeOK /\ file = ids
  <2> SUFFICES ASSUME OffersInv PROVE OffersTypeOK /\ file = ids
    OBVIOUS
  <2>1. offer \in [Classes -> OfferRecord] /\ file = ids /\ ids \subseteq Classes
    BY DEF OffersInv, OffersTypes, ChainTypes, IndexTypes, Existing
  <2>2. /\ console.class \in Own \cup {None} /\ stored \subseteq Own /\ mine \subseteq Own
        /\ told \subseteq Own /\ due \in BOOLEAN
        /\ \A asked \in left : asked.step \in WalletSteps /\ asked.class \in Own
    BY DEF OffersInv, OffersTypes, DeskTypes
  <2>3. Listed(view) \subseteq Classes
    BY ListFields DEF OffersInv
  <2>4. QED
    BY <2>1, <2>2, <2>3 DEF OffersTypeOK, OfferRecord
<1>2. QED
  BY <1>1, OffersCorrect, PTL

\* What the page shows as available the contracts would sell, and the other
\* way round, unless the class moved since the service began to read it: three
\* reads of three contracts agree with what one mint asks for.
THEOREM ShownOffersSell == OffersSpec => []ShownIsSaleable
<1>1. OffersInv => ShownIsSaleable
  <2> SUFFICES ASSUME OffersInv, NEW c \in Listed(view),
                      view.offers[c].at = offer[c].moves, ~offer[c].issuerPaused
               PROVE  available(view.offers[c]) <=> Saleable(c)
    BY DEF ShownIsSaleable
  <2> DEFINE g == view.offers[c]
  <2>1. /\ g.paused = offer[c].paused /\ g.sold = offer[c].sold
        /\ g.raw = offer[c].raw /\ g.owed = offer[c].owed
        /\ g.invested = offer[c].invested /\ g.expired = offer[c].expired
    <3>1. g.read = 3 /\ ReadSoFar(c, g)
      BY DEF OffersInv, Viewing
    <3>2. QED
      BY <3>1 DEF ReadSoFar
  <2>2. offer[c].exists
    BY DEF OffersInv, OffersTypes, Viewing, IndexTypes, Existing
  <2>3. QED
    BY <2>1, <2>2 DEF available, Saleable
<1>2. QED
  BY <1>1, OffersCorrect, PTL

\* The service forgets no class, and no answer, however late, takes an offer
\* off a page that shows it.
THEOREM ListedOffersStay == OffersSpec => ListedStaysListed
<1>1. OffersInv /\ [OffersNext]_offerVars
        => [/\ ids \subseteq ids'
            /\ view'.loaded => Listed(view) \subseteq Listed(view')]_offerVars
  <2> SUFFICES ASSUME OffersInv, [OffersNext]_offerVars
               PROVE  /\ ids \subseteq ids'
                      /\ view'.loaded => Listed(view) \subseteq Listed(view')
    OBVIOUS
  <2>1. ids \subseteq ids'
    BY ChainAndIndexStep DEF OffersInv
  <2>2. CASE UNCHANGED viewVars
    BY <2>1, <2>2 DEF viewVars
  <2>3. CASE ListStep
    BY <2>1, <2>3, ListMoves
  <2>4. QED
    BY <2>2, <2>3, WhatMovesLists
<1>2. QED
  BY <1>1, OffersCorrect, PTL DEF OffersSpec, ListedStaysListed
=============================================================================
