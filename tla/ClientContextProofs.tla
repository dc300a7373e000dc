------------------------- MODULE ClientContextProofs -------------------------
(***************************************************************************)
(* Proofs about ClientContext: for any users, plans and number of fetches, *)
(* with a minter or without.                                               *)
(***************************************************************************)
EXTENDS ClientContext, FiniteSetTheorems, TLAPS

\* A conversion under way is the held user's, and there is one.
ConversionHeld == pending # NoConversion => pending.owner = user /\ user # None

----------------------------------------------------------------------------
(* What holds of an app that leaves the fetching to the SDK                *)

AnyPlan == [handle : Plans \cup {None}, owner : Users \cup {None}, version : 0 .. MaxVersion]
Call    == [phase : Phases, who : Users \cup {None}, plan : AnyPlan,
            retrying : BOOLEAN, remint : BOOLEAN]

PlainTypes ==
  /\ user \in Users \cup {None} /\ token \in Users \cup {None}
  /\ calls \in [Slots -> Call] /\ Slots # {}
  /\ inFlight \in Slots \cup {None}
  /\ server \in [Users -> [handle : Plans \cup {None}, version : 1 .. MaxVersion]]
  /\ mints \in Int /\ due \in BOOLEAN

\* No fetch but the automatic one, and nothing left of those that have landed.
OneFetch == \A s \in Slots : Busy(s) \/ calls[s].remint => inFlight = s

\* Nothing is asked for nobody, nor without a minter.
NothingForNobody ==
  /\ user = None \/ ~HasMinter => token = None /\ inFlight = None
  /\ user # None => started

Flagged == \E s \in Slots : calls[s].remint

\* A fetch asks for somebody, and a mint is for the held user unless another is
\* to follow it.
MintIsOwn ==
  \A s \in Slots :
    /\ calls[s].phase \in {"minting", "asking"} => calls[s].who # None
    /\ calls[s].phase \in {"minting", "reminting"} => calls[s].who = user \/ calls[s].remint

TokenReplaced == token \in {None, user} \/ due \/ Flagged

\* A fetch that asks for no token any more.
Past(s) == calls[s].phase \in {"asking", "answered", "hashing"}

\* Where a token is yet to be minted, none is counted.
Unminted ==
  Flagged \/ ((token = None \/ due) /\ (inFlight = None \/ Past(inFlight))) => mints <= 0

PlainInv ==
  /\ PlainTypes /\ OneFetch /\ NothingForNobody
  /\ MintIsOwn /\ TokenReplaced /\ Unminted /\ mints <= 1

\* Fetches are in a retry only while the automatic one is, and a retry asks with a
\* token of the held user's unless another is to follow.
RetryIsOwn ==
  /\ retried => inFlight # None /\ calls[inFlight].retrying
  /\ \A s \in Slots :
       calls[s].phase = "asking" /\ calls[s].retrying => calls[s].who = user \/ calls[s].remint


\* Nobody is not a user, and no fetch's slot.
LEMMA NoneIsNoOne ==
  None \notin Users /\ None \notin Slots /\ None \notin Plans
BY ConstantsAssumption

\* A fetch that opens is a fetch.
LEMMA OpeningType ==
  ASSUME NEW u \in Users, NEW t \in Users \cup {None}
  PROVE  /\ Opening(u, t) \in Call
         /\ Opening(u, t).remint = FALSE
         /\ t = None => Opening(u, t).phase = "minting" /\ Opening(u, t).who = u
         /\ t # None => Opening(u, t).phase = "asking" /\ Opening(u, t).who = t
<1>1. Idle \in Call /\ Idle.remint = FALSE
  BY ConstantsAssumption DEF Idle, Call, Phases, AnyPlan, NoPlan
<1>2. CASE t = None
  <2>1. Opening(u, t) = [Idle EXCEPT !.phase = "minting", !.who = u]
    BY <1>2 DEF Opening
  <2> QED  BY <1>1, <1>2, <2>1 DEF Call, Phases
<1>3. CASE t # None
  <2>1. Opening(u, t) = [Idle EXCEPT !.phase = "asking", !.who = t]
    BY <1>3 DEF Opening
  <2> QED  BY <1>1, <1>3, <2>1 DEF Call, Phases
<1> QED  BY <1>2, <1>3

\* With no fetch under way there is a free slot.
LEMMA SlotIsFree ==
  ASSUME PlainTypes, OneFetch, inFlight = None
  PROVE  FreeSlot \in Slots /\ \A s \in Slots : ~Busy(s) /\ ~calls[s].remint
<1>1. \A s \in Slots : ~Busy(s) /\ ~calls[s].remint
  BY NoneIsNoOne DEF OneFetch
<1>2. Free = Slots
  BY <1>1 DEF Free
<1>3. FreeSlot \in Free
  BY <1>2 DEF FreeSlot, PlainTypes
<1> QED  BY <1>1, <1>2, <1>3

\* The verb's user and token, and what AutoFetch makes of them: nothing, or the
\* one fetch.
LEMMA AutoFetchKeeps ==
  ASSUME Plain, PlainInv,
         NEW u \in Users \cup {None}, NEW t \in Users \cup {None}, NEW count \in Int,
         AutoFetch(u, t, count) \/ (UNCHANGED <<calls, inFlight>> /\ mints' = count),
         user' = u, token' = t, UNCHANGED server,
         due' \in BOOLEAN,
         u # None => started',
         u = None \/ ~HasMinter => t = None /\ inFlight = None,
         u = user \/ inFlight = None,
         t \in {None, u} \/ due' \/ Flagged,
         count <= 1,
         Flagged \/ ((t = None \/ due') /\ (inFlight = None \/ Past(inFlight))) => count <= 0
  PROVE  PlainInv'
<1> USE DEF PlainInv
<1>1. CASE AutoFetch(u, t, count) /\ HasMinter /\ inFlight = None /\ u # None
  <2>1. \A s \in Slots : calls[s].phase = "idle" /\ ~calls[s].remint
    BY <1>1, SlotIsFree DEF Busy
  <2>2. PICK f \in Slots : /\ calls' = [calls EXCEPT ![f] = Opening(u, t)]
                            /\ inFlight' = f
                            /\ mints' = count + Minting(t)
    BY <1>1, SlotIsFree DEF AutoFetch, Counted
  <2>3. /\ Opening(u, t) \in Call /\ Opening(u, t).remint = FALSE
        /\ t = None => Opening(u, t).phase = "minting" /\ Opening(u, t).who = u
        /\ t # None => Opening(u, t).phase = "asking" /\ Opening(u, t).who = t
        /\ u \in Users
    BY <1>1, OpeningType
  <2>4. PlainTypes'
    BY <2>1, <2>2, <2>3 DEF PlainTypes, Minting
  <2>5. calls'[f] = Opening(u, t) /\ \A s \in Slots \ {f} : calls'[s] = calls[s]
    BY <2>1, <2>2 DEF PlainTypes
  <2>6. \A s \in Slots : calls'[s].phase # "idle" => s = f
    BY <2>1, <2>5
  <2>7. \A s \in Slots : ~calls'[s].remint
    BY <2>1, <2>3, <2>5
  <2>8. OneFetch' /\ NothingForNobody'
    BY <1>1, <2>2, <2>3, <2>6, <2>7, NoneIsNoOne DEF OneFetch, NothingForNobody, Busy
  <2>9. MintIsOwn'
    <3>1. ASSUME NEW s \in Slots \ {f} PROVE calls'[s].phase = "idle"
      BY <2>1, <2>5
    <3> QED  BY <2>3, <2>5, <3>1, NoneIsNoOne DEF MintIsOwn
  <2>10. TokenReplaced'
    BY <2>1 DEF TokenReplaced, Flagged
  <2>11. Unminted' /\ mints' <= 1
    <3>1. CASE t = None
      <4>1. count <= 0 /\ mints' = count + 1
        BY <1>1, <2>2, <3>1 DEF Minting
      <4>2. calls'[f].phase = "minting"
        BY <2>3, <2>5, <3>1
      <4> QED  BY <2>2, <2>7, <4>1, <4>2, NoneIsNoOne DEF Unminted, Flagged, Past
    <3>2. CASE t # None
      <4>1. mints' = count
        BY <2>2, <3>2 DEF Minting
      <4> QED  BY <1>1, <2>1, <2>7, <3>2, <4>1 DEF Unminted, Flagged
    <3> QED  BY <3>1, <3>2
  <2> QED  BY <2>4, <2>8, <2>9, <2>10, <2>11
<1>2. CASE UNCHANGED <<calls, inFlight>> /\ mints' = count
  <2>1. UNCHANGED <<calls, inFlight>> /\ mints' = count
    BY <1>2
  <2>2. PlainTypes' /\ OneFetch'
    BY <2>1 DEF PlainTypes, OneFetch, Busy
  <2>3. NothingForNobody'
    BY <2>1 DEF NothingForNobody
  <2>4. MintIsOwn'
    <3>1. CASE inFlight = None
      <4>1. \A s \in Slots : calls'[s].phase = "idle"
        BY <2>1, <3>1, SlotIsFree DEF Busy
      <4> QED  BY <4>1 DEF MintIsOwn
    <3>2. CASE u = user
      BY <2>1, <3>2 DEF MintIsOwn
    <3> QED  BY <3>1, <3>2
  <2>5. TokenReplaced' /\ Unminted' /\ mints' <= 1
    BY <2>1 DEF TokenReplaced, Unminted, Flagged, Past
  <2> QED  BY <2>2, <2>3, <2>4, <2>5
<1> QED  BY <1>1, <1>2 DEF AutoFetch

\* The end of the fetch under way, with the token and the mints it leaves.
LEMMA LandKeeps ==
  ASSUME Plain, PlainInv, NEW s \in Slots, inFlight = s, ~due,
         NEW flag, LandAs(s, flag),
         UNCHANGED <<user, started, server>>,
         token' \in {None, user} \/ (calls[s].remint /\ token' \in Users),
         ~HasMinter => token' = None,
         mints' \in Int, mints' <= 1,
         token' = None \/ calls[s].remint => mints' <= 0
  PROVE  PlainInv'
<1> USE DEF PlainInv
<1>1. /\ calls' = [calls EXCEPT ![s] = Idle]
      /\ inFlight' = None /\ due' = calls[s].remint
  BY DEF LandAs, PlainTypes, Call
<1>2. Idle \in Call /\ Idle.phase = "idle" /\ ~Idle.remint
  BY ConstantsAssumption DEF Idle, Call, Phases, AnyPlan, NoPlan
<1>3. user # None /\ HasMinter
  BY NoneIsNoOne DEF NothingForNobody
<1>4. \A r \in Slots : calls'[r].phase = "idle" /\ ~calls'[r].remint
  BY <1>1, <1>2, NoneIsNoOne DEF OneFetch, Busy, PlainTypes
<1>5. calls[s].remint \in BOOLEAN
  BY DEF PlainTypes, Call
<1>6. PlainTypes'
  BY <1>1, <1>2, <1>5 DEF PlainTypes
<1>7. OneFetch' /\ MintIsOwn' /\ ~Flagged'
  BY <1>4 DEF OneFetch, MintIsOwn, Flagged, Busy
<1>8. NothingForNobody'
  BY <1>3 DEF NothingForNobody
<1>9. TokenReplaced' /\ Unminted'
  BY <1>1, <1>7 DEF TokenReplaced, Unminted
<1> QED  BY <1>6, <1>7, <1>8, <1>9

\* A step of the fetch under way to its next await.
LEMMA AwaitKeeps ==
  ASSUME Plain, PlainInv, NEW s \in Slots, inFlight = s, ~due,
         NEW c \in Call, calls' = [calls EXCEPT ![s] = c],
         c.remint = calls[s].remint,
         c.phase # "minting",
         c.phase = "asking" => c.who # None,
         c.phase = "reminting" => c.who = user,
         UNCHANGED <<user, started, inFlight, due, server, mints>>,
         token' \in {None, user} \/ (c.remint /\ token' \in Users),
         token' = None /\ c.phase # "reminting" => mints <= 0
  PROVE  PlainInv'
<1> USE DEF PlainInv
<1>1. calls'[s] = c /\ \A r \in Slots \ {s} : calls'[r] = calls[r]
  BY DEF PlainTypes
<1>2. user # None /\ HasMinter
  BY NoneIsNoOne DEF NothingForNobody
<1>3. PlainTypes'
  BY DEF PlainTypes
<1>4. \A r \in Slots \ {s} : calls[r].phase = "idle" /\ ~calls[r].remint
  BY DEF OneFetch, Busy
<1>5. OneFetch' /\ MintIsOwn'
  BY <1>1, <1>4 DEF OneFetch, MintIsOwn, Busy
<1>6. NothingForNobody'
  BY <1>2 DEF NothingForNobody
<1>7. Flagged' <=> Flagged
  BY <1>1 DEF Flagged
<1>8. Flagged <=> c.remint
  BY <1>4 DEF Flagged
<1>9. TokenReplaced'
  BY <1>7, <1>8 DEF TokenReplaced
<1>10. Unminted'
  BY <1>1, <1>7, NoneIsNoOne DEF Unminted, Past
<1> QED  BY <1>3, <1>5, <1>6, <1>9, <1>10

\* The fetch under way: each answer it awaits.
LEMMA ProgressKeeps ==
  ASSUME Plain, PlainInv, RetryIsOwn, NEW s \in Slots, Progress(s)
  PROVE  PlainInv'
<1> USE DEF PlainInv
<1>1. ~due /\ UNCHANGED <<user, started, server>>
  BY DEF Progress, Minted, Serve, Refuse, Fail, Reminted, Read, Apply, held
<1>2. inFlight = s
  BY DEF Progress, Minted, Serve, Refuse, Fail, Reminted, Read, Apply, OneFetch, Busy
<1>3. user \in Users /\ HasMinter
  BY <1>2, NoneIsNoOne DEF NothingForNobody, PlainTypes
<1>4. calls[s] \in Call /\ mints \in Int /\ token \in Users \cup {None}
  BY DEF PlainTypes
<1>5. Flagged <=> calls[s].remint
  BY <1>2 DEF Flagged, OneFetch
<1>6. token \in {None, user} \/ (calls[s].remint /\ token \in Users)
  BY <1>1, <1>4, <1>5 DEF TokenReplaced
<1>7. calls[s].remint => mints <= 0
  BY <1>5 DEF Unminted
<1>8. token = None /\ Past(s) => mints <= 0
  BY <1>2 DEF Unminted
<1>9. ASSUME NEW u, Lost(u), u = user \/ calls[s].remint
      PROVE  mints' \in Int /\ mints' <= 0
  BY <1>4, <1>7, <1>9 DEF Lost, Counted
<1>10. CASE Minted(s)
  <2>1. /\ calls[s].who \in Users
        /\ calls[s].who = user \/ calls[s].remint
    BY <1>4, <1>10 DEF Minted, MintIsOwn, Call
  <2>2. CASE /\ token' = calls[s].who
             /\ calls' = [calls EXCEPT ![s].phase = "asking"]
             /\ UNCHANGED <<inFlight, due, mints>>
    <3> DEFINE c == [calls[s] EXCEPT !.phase = "asking"]
    <3>1. c \in Call /\ c.remint = calls[s].remint /\ c.phase = "asking" /\ c.who = calls[s].who
      BY <1>4 DEF Call, Phases
    <3>2. calls' = [calls EXCEPT ![s] = c]
      BY <2>2
    <3> HIDE DEF c
    <3> QED  BY <1>1, <1>2, <2>1, <2>2, <3>1, <3>2, NoneIsNoOne, AwaitKeeps
  <2>3. CASE token' = None /\ Land(s) /\ Lost(calls[s].who)
    <3>1. mints' \in Int /\ mints' <= 0
      BY <1>9, <2>1, <2>3
    <3> QED  BY <1>1, <1>2, <2>3, <3>1, LandKeeps DEF Land
  <2> QED  BY <1>10, <2>2, <2>3 DEF Minted
<1>11. CASE Serve(s)
  <2> DEFINE w == calls[s].who
             got == [handle |-> server[w].handle, owner |-> w, version |-> server[w].version]
             c == [calls[s] EXCEPT !.phase = "answered", !.plan = got]
  <2>1. w \in Users
    BY <1>4, <1>11 DEF Serve, MintIsOwn, Call
  <2>2. got \in AnyPlan
    BY <2>1, ConstantsAssumption DEF PlainTypes, AnyPlan
  <2>3. c \in Call /\ c.remint = calls[s].remint /\ c.phase = "answered"
    BY <1>4, <2>2 DEF Call, Phases
  <2>4. calls' = [calls EXCEPT ![s] = c]
    BY <1>11 DEF Serve
  <2>5. UNCHANGED <<token, inFlight, due, mints>> /\ Past(s)
    BY <1>11 DEF Serve, Past
  <2> HIDE DEF c
  <2> QED  BY <1>1, <1>2, <1>6, <1>8, <2>3, <2>4, <2>5, AwaitKeeps
<1>12. CASE Refuse(s)
  <2>1. CASE /\ calls' = [calls EXCEPT ![s].phase = "reminting", ![s].who = user]
             /\ UNCHANGED <<inFlight, due, mints>>
    <3> DEFINE c == [calls[s] EXCEPT !.phase = "reminting", !.who = user]
    <3>1. /\ c \in Call /\ c.remint = calls[s].remint
          /\ c.phase = "reminting" /\ c.who = user
      BY <1>3, <1>4 DEF Call, Phases
    <3>2. calls' = [calls EXCEPT ![s] = c]
      BY <2>1
    <3> HIDE DEF c
    <3> QED  BY <1>1, <1>2, <1>12, <2>1, <3>1, <3>2, AwaitKeeps DEF Refuse
  <2>2. CASE ~Retries /\ Land(s) /\ Lost(calls[s].who)
    <3>1. calls[s].phase = "asking" /\ calls[s].retrying
      BY <1>2, <1>3, <1>12, <2>2 DEF Refuse, Retries, RetryIsOwn
    <3>2. calls[s].who = user \/ calls[s].remint
      BY <3>1 DEF RetryIsOwn
    <3>3. mints' \in Int /\ mints' <= 0
      BY <1>9, <2>2, <3>2
    <3> QED  BY <1>1, <1>2, <1>12, <2>2, <3>3, LandKeeps DEF Refuse, Land
  <2> QED  BY <1>12, <2>1, <2>2 DEF Refuse
<1>13. CASE Fail(s)
  <2>1. Land(s) /\ UNCHANGED <<token, mints>> /\ Past(s)
    BY <1>13 DEF Fail, Past
  <2> QED  BY <1>1, <1>2, <1>3, <1>4, <1>6, <1>7, <1>8, <2>1, LandKeeps DEF Land
<1>14. CASE Reminted(s)
  <2>1. calls[s].who = user \/ calls[s].remint
    BY <1>14 DEF Reminted, MintIsOwn
  <2>2. CASE Land(s) /\ Lost(calls[s].who) /\ UNCHANGED token
    <3>1. mints' \in Int /\ mints' <= 0
      BY <1>9, <2>1, <2>2
    <3> QED  BY <1>1, <1>2, <1>3, <1>6, <2>2, <3>1, LandKeeps DEF Land
  <2>3. CASE /\ calls[s].who # None /\ token' = calls[s].who
             /\ calls' = [calls EXCEPT ![s].phase = "asking", ![s].retrying = TRUE]
             /\ UNCHANGED <<inFlight, due, mints>>
    <3> DEFINE c == [calls[s] EXCEPT !.phase = "asking", !.retrying = TRUE]
    <3>1. c \in Call /\ c.remint = calls[s].remint /\ c.phase = "asking" /\ c.who = calls[s].who
      BY <1>4 DEF Call, Phases
    <3>2. calls' = [calls EXCEPT ![s] = c]
      BY <2>3
    <3>3. calls[s].who \in Users
      BY <1>4, <2>3 DEF Call
    <3> HIDE DEF c
    <3> QED  BY <1>1, <1>2, <2>1, <2>3, <3>1, <3>2, <3>3, NoneIsNoOne, AwaitKeeps
  <2> QED  BY <1>3, <1>14, <2>2, <2>3, NoneIsNoOne DEF Reminted
<1>15. CASE Read(s)
  <2>1. UNCHANGED <<token, mints>> /\ Past(s)
    BY <1>15 DEF Read, Past
  <2>2. CASE Land(s)
    BY <1>1, <1>2, <1>3, <1>4, <1>6, <1>7, <1>8, <2>1, <2>2, LandKeeps DEF Land
  <2>3. ASSUME NEW patch \in Plans \cup {None},
               calls' = [calls EXCEPT ![s].phase = "hashing", ![s].plan.handle = patch],
               UNCHANGED <<inFlight, due>>
        PROVE  PlainInv'
    <3> DEFINE c == [calls[s] EXCEPT !.phase = "hashing", !.plan.handle = patch]
    <3>1. [calls[s].plan EXCEPT !.handle = patch] \in AnyPlan
      BY <1>4 DEF Call, AnyPlan
    <3>2. c \in Call /\ c.remint = calls[s].remint /\ c.phase = "hashing"
      BY <1>4, <3>1 DEF Call, Phases
    <3>3. calls' = [calls EXCEPT ![s] = c]
      BY <2>3
    <3> HIDE DEF c
    <3> QED  BY <1>1, <1>2, <1>6, <1>8, <2>1, <2>3, <3>2, <3>3, AwaitKeeps
  <2>4. calls[s].plan.handle \in Plans \cup {None}
    BY <1>4 DEF Call, AnyPlan
  <2> QED  BY <1>15, <2>2, <2>3, <2>4 DEF Read
<1>16. CASE Apply(s)
  <2>1. Land(s) /\ UNCHANGED <<token, mints>> /\ Past(s)
    BY <1>16 DEF Apply, Past
  <2> QED  BY <1>1, <1>2, <1>3, <1>4, <1>6, <1>7, <1>8, <2>1, LandKeeps DEF Land
<1> QED  BY <1>10, <1>11, <1>12, <1>13, <1>14, <1>15, <1>16 DEF Progress

----------------------------------------------------------------------------
(* The verbs of such an app                                                *)

\* A switch of the user: the token goes, and what is in flight is to be followed
\* by a mint for the new user.
LEMMA RemintKeeps ==
  ASSUME Plain, PlainInv, NEW u \in Users, Switches(u), Remint(u),
         user' = u, started', UNCHANGED <<due, server>>
  PROVE  PlainInv'
<1> USE DEF PlainInv
<1>1. user # None /\ started
  BY DEF Switches, NothingForNobody
<1>2. CASE HasMinter /\ inFlight # None
  <2>1. /\ calls' = [calls EXCEPT ![inFlight].remint = TRUE]
        /\ mints' = 0 /\ token' = None /\ inFlight' = inFlight /\ inFlight \in Slots
    BY <1>2 DEF Remint, PlainTypes
  <2> DEFINE c == [calls[inFlight] EXCEPT !.remint = TRUE]
  <2>2. /\ c \in Call /\ c.phase = calls[inFlight].phase /\ c.remint
        /\ c.who = calls[inFlight].who
    BY <2>1 DEF PlainTypes, Call
  <2>3. calls' = [calls EXCEPT ![inFlight] = c]
    BY <2>1
  <2> HIDE DEF c
  <2>4. calls'[inFlight] = c /\ \A r \in Slots \ {inFlight} : calls'[r] = calls[r]
    BY <2>1, <2>3 DEF PlainTypes
  <2>5. PlainTypes'
    <3>1. calls' \in [Slots -> Call]
      BY <2>2, <2>3 DEF PlainTypes
    <3> QED  BY <2>1, <3>1 DEF PlainTypes
  <2>6. OneFetch'
    BY <2>1, <2>4 DEF OneFetch, Busy
  <2>7. \A r \in Slots \ {inFlight} : calls'[r].phase = "idle"
    BY <2>1, <2>4 DEF OneFetch, Busy
  <2>8. MintIsOwn'
    BY <2>2, <2>4, <2>7 DEF MintIsOwn
  <2>9. NothingForNobody' /\ TokenReplaced' /\ Unminted' /\ mints' <= 1
    BY <1>2, <2>1, NoneIsNoOne DEF NothingForNobody, TokenReplaced, Unminted
  <2> QED  BY <2>5, <2>6, <2>8, <2>9
<1>3. CASE ~(HasMinter /\ inFlight # None)
  <2>1. token' = None /\ inFlight = None /\ AutoFetch(u, None, 0)
    BY <1>1, <1>3 DEF Remint, NothingForNobody
  <2> QED  BY <2>1, NoneIsNoOne, AutoFetchKeeps DEF PlainTypes
<1> QED  BY <1>2, <1>3

\* Naming the held user again, or the first one.
LEMMA NamingKeeps ==
  ASSUME Plain, PlainInv, NEW u \in Users, ~Switches(u), user' = u, started',
         token' = token, UNCHANGED <<due, server>>,
         \/ AutoFetch(u, token, Count(u))
         \/ UNCHANGED <<calls, inFlight>> /\ mints' = Count(u)
  PROVE  PlainInv'
<1> USE DEF PlainInv
<1>1. user = u \/ user = None
  BY DEF Switches
<1>2. Count(u) \in Int /\ Count(u) <= 1
      /\ (user = u => Count(u) = mints) /\ (user # u => Count(u) = 0)
  BY DEF Count, PlainTypes
<1>3. token \in Users \cup {None} /\ due \in BOOLEAN /\ u # None
  BY NoneIsNoOne DEF PlainTypes
<1>4. ~HasMinter => token = None /\ inFlight = None
  BY DEF NothingForNobody
<1>5. u = user \/ inFlight = None
  BY <1>1 DEF NothingForNobody
<1>6. token \in {None, u} \/ due \/ Flagged
  BY <1>1 DEF TokenReplaced, NothingForNobody
<1>7. Flagged \/ ((token = None \/ due) /\ (inFlight = None \/ Past(inFlight))) => Count(u) <= 0
  BY <1>2 DEF Unminted
<1> HIDE DEF PlainInv
<1> QED  BY <1>2, <1>3, <1>4, <1>5, <1>6, <1>7, AutoFetchKeeps

\* Each step of such an app, of its fetch and of the server.
LEMMA PlainKeeps ==
  ASSUME Plain, PlainInv, RetryIsOwn, [Next]_vars
  PROVE  PlainInv'
<1> USE DEF PlainInv
<1>1. ASSUME NEW u \in Users, NEW p, Identify(u, p) PROVE PlainInv'
  <2>1. user' = u /\ started' /\ UNCHANGED <<due, server>>
    BY <1>1 DEF Identify
  <2>2. CASE Switches(u)
    BY <1>1, <2>1, <2>2, RemintKeeps DEF Identify
  <2>3. CASE ~Switches(u)
    BY <1>1, <2>1, <2>3, NamingKeeps DEF Identify
  <2> QED  BY <2>2, <2>3
<1>2. ASSUME NEW u \in Users, NEW p, SetUserContext(u, p) PROVE PlainInv'
  <2>1. user' = u /\ started' /\ UNCHANGED <<due, server>>
    BY <1>2 DEF SetUserContext
  <2>2. CASE Switches(u)
    BY <1>2, <2>1, <2>2, RemintKeeps DEF SetUserContext
  <2>3. CASE ~Switches(u)
    <3>1. /\ token' = token
          /\ \/ AutoFetch(u, token, Count(u))
             \/ UNCHANGED <<calls, inFlight>> /\ mints' = Count(u)
      BY <1>2, <2>3 DEF SetUserContext, Start
    <3> QED  BY <2>1, <2>3, <3>1, NamingKeeps
  <2> QED  BY <2>2, <2>3
<1>3. ASSUME NEW p, Update(p) PROVE PlainInv'
  <2>1. /\ user' = user /\ token' = token /\ UNCHANGED <<due, server>>
        /\ started' = (started \/ user # None)
        /\ AutoFetch(user, token, mints) \/ (UNCHANGED <<calls, inFlight>> /\ mints' = mints)
    BY <1>3 DEF Update, Start
  <2>2. /\ user # None => started'
        /\ user = None \/ ~HasMinter => token = None /\ inFlight = None
        /\ token \in {None, user} \/ due \/ Flagged
        /\ Flagged \/ ((token = None \/ due) /\ (inFlight = None \/ Past(inFlight))) => mints <= 0
    BY <2>1 DEF NothingForNobody, TokenReplaced, Unminted
  <2>3. /\ user \in Users \cup {None} /\ token \in Users \cup {None}
        /\ mints \in Int /\ mints <= 1 /\ due \in BOOLEAN
    BY DEF PlainTypes
  <2> HIDE DEF PlainInv
  <2> QED  BY <2>1, <2>2, <2>3, AutoFetchKeeps
<1>4. CASE Continue
  <2>1. /\ due /\ token' = None /\ due' = FALSE /\ UNCHANGED <<user, started, server>>
        /\ AutoFetch(user, None, mints)
    BY <1>4 DEF Continue, held
  <2>2. /\ user # None => started'
        /\ user = None \/ ~HasMinter => inFlight = None
        /\ Flagged \/ inFlight = None \/ Past(inFlight) => mints <= 0
    BY <2>1 DEF NothingForNobody, Unminted
  <2>3. user \in Users \cup {None} /\ mints \in Int /\ mints <= 1
    BY DEF PlainTypes
  <2> HIDE DEF PlainInv
  <2> QED  BY <2>1, <2>2, <2>3, AutoFetchKeeps
<1>5. ASSUME NEW s \in Slots, Progress(s) PROVE PlainInv'
  BY <1>5, ProgressKeeps
<1>6. ASSUME NEW u \in Users, NEW p \in Plans \cup {None}, ServerMoves(u, p) PROVE PlainInv'
  <2>1. /\ server' = [server EXCEPT ![u] = [handle |-> p, version |-> server[u].version + 1]]
        /\ server[u].version < MaxVersion
        /\ UNCHANGED <<user, started, token, calls, inFlight, due, mints>>
    BY <1>6 DEF ServerMoves, held, loading
  <2>2. server' \in [Users -> [handle : Plans \cup {None}, version : 1 .. MaxVersion]]
    BY <2>1, ConstantsAssumption DEF PlainTypes
  <2> QED  BY <2>1, <2>2 DEF PlainTypes, OneFetch, NothingForNobody, MintIsOwn, TokenReplaced,
                           Unminted, Flagged, Past, Busy
<1>7. CASE UNCHANGED vars
  BY <1>7 DEF vars, held, loading, PlainTypes, OneFetch, NothingForNobody, MintIsOwn,
              TokenReplaced, Unminted, Flagged, Past, Busy
<1>8. \A verb \in {"hydrate", "reset", "convert", "fetch"} : ~Uses(verb)
  BY DEF Plain, Uses
<1> QED  BY <1>1, <1>2, <1>3, <1>4, <1>5, <1>6, <1>7, <1>8
         DEF Next, HydrateFrom, Reset, Convert, FetchClientContext

\* An app starts without a token, and with one fetch at most.
LEMMA PlainStarts ==
  ASSUME Init, Plain
  PROVE  PlainInv
<1>1. PICK u \in Users \cup {None}, s \in Slots :
        /\ user = u /\ started = (u # None)
        /\ IF u # None /\ HasMinter
           THEN /\ calls = [t \in Slots |-> IF t = s THEN Opening(u, None) ELSE Idle]
                /\ inFlight = s /\ mints = Counted(1)
           ELSE calls = [t \in Slots |-> Idle] /\ inFlight = None /\ mints = 0
  BY DEF Init
<1>2. /\ Idle \in Call /\ Idle.phase = "idle" /\ ~Idle.remint
  BY ConstantsAssumption DEF Idle, Call, Phases, AnyPlan, NoPlan
<1>3. token = None /\ due = FALSE /\ due \in BOOLEAN /\ Slots # {}
  BY <1>1 DEF Init
<1>4. server \in [Users -> [handle : Plans \cup {None}, version : 1 .. MaxVersion]]
  <2>1. PICK f \in ServerPlans : server = [v \in Users |-> [handle |-> f[v], version |-> 1]]
    BY DEF Init
  <2> QED  BY <2>1, ConstantsAssumption
<1>5. CASE u # None /\ HasMinter
  <2>1. /\ Opening(u, None) \in Call /\ Opening(u, None).remint = FALSE
        /\ Opening(u, None).phase = "minting" /\ Opening(u, None).who = u
    BY <1>5, OpeningType
  <2>2. mints = 1
    BY <1>1, <1>5 DEF Counted
  <2>3. PlainTypes
    <3>1. calls \in [Slots -> Call]
      BY <1>1, <1>2, <1>5, <2>1
    <3> QED  BY <1>1, <1>3, <1>4, <1>5, <2>2, <3>1 DEF PlainTypes
  <2>4. OneFetch /\ NothingForNobody /\ MintIsOwn
    <3>1. calls[s] = Opening(u, None) /\ \A t \in Slots \ {s} : calls[t] = Idle
      BY <1>1, <1>5
    <3> QED  BY <1>1, <1>2, <1>3, <1>5, <2>1, <3>1, NoneIsNoOne
             DEF OneFetch, NothingForNobody, MintIsOwn, Busy
  <2>5. TokenReplaced /\ Unminted
    BY <1>1, <1>2, <1>3, <1>5, <2>1, NoneIsNoOne DEF TokenReplaced, Unminted, Flagged, Past
  <2> QED  BY <2>2, <2>3, <2>4, <2>5 DEF PlainInv
<1>6. CASE ~(u # None /\ HasMinter)
  <2>1. calls = [t \in Slots |-> Idle] /\ inFlight = None /\ mints = 0
    BY <1>1, <1>6
  <2>2. PlainTypes
    <3>1. calls \in [Slots -> Call]
      BY <1>2, <2>1
    <3> QED  BY <1>1, <1>3, <1>4, <2>1, <3>1 DEF PlainTypes
  <2>3. OneFetch /\ NothingForNobody /\ MintIsOwn
    BY <1>1, <1>2, <1>3, <2>1, NoneIsNoOne DEF OneFetch, NothingForNobody, MintIsOwn, Busy
  <2>4. TokenReplaced /\ Unminted
    BY <1>2, <1>3, <2>1 DEF TokenReplaced, Unminted, Flagged
  <2> QED  BY <2>1, <2>2, <2>3, <2>4 DEF PlainInv
<1> QED  BY <1>5, <1>6

\* The retries of such an app's fetches: a fetch that opens is in none, ...
LEMMA OpeningIsNoRetry ==
  ASSUME NEW u, NEW t, NEW f \in Slots, calls \in [Slots -> Call],
         calls' = [calls EXCEPT ![f] = Opening(u, t)]
  PROVE  ~calls'[f].retrying /\ \A s \in Slots \ {f} : calls'[s] = calls[s]
<1>1. Opening(u, t).retrying = FALSE
  BY DEF Opening, Idle
<1> HIDE DEF Opening
<1> QED  BY <1>1

LEMMA AutoFetchKeepsRetry ==
  ASSUME PlainInv, RetryIsOwn, NEW u, NEW t, NEW count,
         AutoFetch(u, t, count) \/ UNCHANGED <<calls, inFlight>>,
         retried' = retried, user' = user \/ inFlight = None
  PROVE  RetryIsOwn'
<1>1. CASE UNCHANGED <<calls, inFlight>>
  <2>1. inFlight = None => \A s \in Slots : calls[s].phase = "idle"
    BY SlotIsFree DEF PlainInv, Busy
  <2> QED  BY <1>1, <2>1 DEF RetryIsOwn
<1>2. CASE AutoFetch(u, t, count) /\ HasMinter /\ inFlight = None /\ u # None
  <2>1. PICK f \in Slots : calls' = [calls EXCEPT ![f] = Opening(u, t)] /\ inFlight' = f
    BY <1>2, SlotIsFree DEF AutoFetch, PlainInv
  <2>2. \A s \in Slots : calls[s].phase = "idle"
    BY <1>2, SlotIsFree DEF PlainInv, Busy
  <2>3. ~calls'[f].retrying /\ \A s \in Slots \ {f} : calls'[s] = calls[s]
    BY <2>1, OpeningIsNoRetry DEF PlainInv, PlainTypes
  <2> QED  BY <1>2, <2>2, <2>3 DEF RetryIsOwn
<1> QED  BY <1>1, <1>2 DEF AutoFetch

\* ... a fetch that lands ends the one it is in, ...
LEMMA LandKeepsRetry ==
  ASSUME PlainInv, RetryIsOwn, NEW s \in Slots, inFlight = s,
         Land(s) \/ LandAs(s, FALSE)
  PROVE  RetryIsOwn'
<1>1. calls' = [calls EXCEPT ![s] = Idle] /\ Idle.phase = "idle"
  BY DEF Land, LandAs, Idle
<1>2. \A r \in Slots : calls'[r].phase # "asking"
  BY <1>1 DEF PlainInv, PlainTypes, OneFetch, Busy
<1>3. ~retried'
  BY DEF Land, LandAs, AfterRetries, RetryIsOwn
<1> QED  BY <1>2, <1>3 DEF RetryIsOwn

\* ... and a fetch that goes on keeps to it, or enters one for the held user.
LEMMA ProgressKeepsRetry ==
  ASSUME PlainInv, RetryIsOwn, NEW s \in Slots, Progress(s)
  PROVE  RetryIsOwn'
<1>1. user' = user
  BY DEF Progress, Minted, Serve, Refuse, Fail, Reminted, Read, Apply, held
<1>2. inFlight = s /\ s # None /\ calls \in [Slots -> Call]
  BY NoneIsNoOne DEF Progress, Minted, Serve, Refuse, Fail, Reminted, Read, Apply, PlainInv,
                     PlainTypes, OneFetch, Busy
<1>3. CASE Land(s) \/ LandAs(s, FALSE)
  BY <1>2, <1>3, LandKeepsRetry
<1>4. ASSUME NEW c, calls' = [calls EXCEPT ![s] = c], inFlight' = inFlight,
             retried' => c.retrying,
             c.phase = "asking" /\ c.retrying => c.who = user \/ c.remint
      PROVE  RetryIsOwn'
  <2>1. calls'[s] = c /\ \A r \in Slots \ {s} : calls'[r] = calls[r]
    BY <1>2, <1>4
  <2> QED  BY <1>1, <1>2, <1>4, <2>1 DEF RetryIsOwn
<1>5. retried => calls[s].retrying
  BY <1>2 DEF RetryIsOwn
<1>6. calls[s].phase \in {"minting", "reminting"} => calls[s].who = user \/ calls[s].remint
  BY DEF PlainInv, MintIsOwn
<1>7. CASE /\ calls[s].phase = "minting" /\ calls' = [calls EXCEPT ![s].phase = "asking"]
           /\ UNCHANGED <<retried, inFlight>>
  <2> DEFINE c == [calls[s] EXCEPT !.phase = "asking"]
  <2>1. calls' = [calls EXCEPT ![s] = c]
    BY <1>7
  <2>2. /\ c.retrying = calls[s].retrying /\ c.who = calls[s].who
        /\ c.remint = calls[s].remint
    BY <1>2 DEF Call
  <2> HIDE DEF c
  <2> QED  BY <1>4, <1>5, <1>6, <1>7, <2>1, <2>2
<1>8. ASSUME NEW c, calls' = [calls EXCEPT ![s] = c], UNCHANGED <<retried, inFlight>>,
             c.retrying = calls[s].retrying, c.phase # "asking"
      PROVE  RetryIsOwn'
  BY <1>4, <1>5, <1>8
<1>9. CASE Serve(s)
  <2> DEFINE w == calls[s].who
             c == [calls[s] EXCEPT !.phase = "answered",
                     !.plan = [handle |-> server[w].handle, owner |-> w,
                               version |-> server[w].version]]
  <2>1. /\ calls' = [calls EXCEPT ![s] = c] /\ UNCHANGED <<retried, inFlight>>
        /\ c.retrying = calls[s].retrying /\ c.phase # "asking"
    BY <1>2, <1>9 DEF Serve, Call
  <2> HIDE DEF c
  <2> QED  BY <1>8, <2>1
<1>10. CASE /\ calls' = [calls EXCEPT ![s].phase = "reminting", ![s].who = user]
            /\ UNCHANGED <<retried, inFlight>>
  <2> DEFINE c == [calls[s] EXCEPT !.phase = "reminting", !.who = user]
  <2>1. calls' = [calls EXCEPT ![s] = c]
    BY <1>10
  <2>2. c.retrying = calls[s].retrying /\ c.phase # "asking"
    BY <1>2 DEF Call
  <2> HIDE DEF c
  <2> QED  BY <1>8, <1>10, <2>1, <2>2
<1>11. CASE /\ calls[s].phase = "reminting"
            /\ calls' = [calls EXCEPT ![s].phase = "asking", ![s].retrying = TRUE]
            /\ UNCHANGED inFlight
  <2> DEFINE c == [calls[s] EXCEPT !.phase = "asking", !.retrying = TRUE]
  <2>1. calls' = [calls EXCEPT ![s] = c]
    BY <1>11
  <2>2. c.retrying /\ c.who = calls[s].who /\ c.remint = calls[s].remint
    BY <1>2 DEF Call
  <2> HIDE DEF c
  <2> QED  BY <1>4, <1>6, <1>11, <2>1, <2>2
<1>12. ASSUME NEW patch, UNCHANGED <<retried, inFlight>>,
              calls' = [calls EXCEPT ![s].phase = "hashing", ![s].plan.handle = patch]
       PROVE  RetryIsOwn'
  <2> DEFINE c == [calls[s] EXCEPT !.phase = "hashing", !.plan.handle = patch]
  <2>1. calls' = [calls EXCEPT ![s] = c]
    BY <1>12
  <2>2. c.retrying = calls[s].retrying /\ c.phase # "asking"
    BY <1>2 DEF Call
  <2> HIDE DEF c
  <2> QED  BY <1>8, <1>12, <2>1, <2>2
<1> QED  BY <1>3, <1>7, <1>9, <1>10, <1>11, <1>12
         DEF Progress, Minted, Refuse, Fail, Reminted, Read, Apply

\* A switch of the user flags the fetch in flight.
LEMMA RemintKeepsRetry ==
  ASSUME PlainInv, RetryIsOwn, NEW u, Switches(u), Remint(u), retried' = retried
  PROVE  RetryIsOwn'
<1>1. started /\ (inFlight # None => HasMinter)
  BY DEF PlainInv, NothingForNobody, Switches
<1>2. CASE inFlight # None
  <2>1. calls' = [calls EXCEPT ![inFlight].remint = TRUE] /\ inFlight' = inFlight
        /\ inFlight \in Slots
    BY <1>1, <1>2 DEF Remint, PlainInv, PlainTypes
  <2> DEFINE c == [calls[inFlight] EXCEPT !.remint = TRUE]
  <2>2. c.remint /\ c.retrying = calls[inFlight].retrying
    BY <2>1 DEF PlainInv, PlainTypes, Call
  <2>3. calls' = [calls EXCEPT ![inFlight] = c]
    BY <2>1
  <2> HIDE DEF c
  <2>4. calls'[inFlight] = c /\ \A r \in Slots \ {inFlight} : calls'[r] = calls[r]
    BY <2>1, <2>3 DEF PlainInv, PlainTypes
  <2>5. \A r \in Slots \ {inFlight} : calls[r].phase # "asking"
    BY DEF PlainInv, OneFetch, Busy
  <2> QED  BY <1>2, <2>1, <2>2, <2>4, <2>5 DEF RetryIsOwn
<1>3. CASE inFlight = None
  BY <1>1, <1>3, AutoFetchKeepsRetry DEF Remint
<1> QED  BY <1>2, <1>3

LEMMA RetryKeeps ==
  ASSUME Plain, PlainInv, RetryIsOwn, [Next]_vars
  PROVE  RetryIsOwn'
<1>1. ASSUME NEW u \in Users, NEW p, Identify(u, p) \/ SetUserContext(u, p) PROVE RetryIsOwn'
  <2>1. user' = u /\ retried' = retried
    BY <1>1 DEF Identify, SetUserContext
  <2>2. CASE Switches(u)
    BY <1>1, <2>1, <2>2, RemintKeepsRetry DEF Identify, SetUserContext
  <2>3. CASE ~Switches(u)
    <3>1. AutoFetch(u, token, Count(u)) \/ UNCHANGED <<calls, inFlight>>
      BY <1>1, <2>3 DEF Identify, SetUserContext, Start
    <3>2. user = u \/ inFlight = None
      BY <2>3 DEF Switches, PlainInv, NothingForNobody
    <3> QED  BY <2>1, <3>1, <3>2, AutoFetchKeepsRetry
  <2> QED  BY <2>2, <2>3
<1>2. ASSUME NEW p, Update(p) PROVE RetryIsOwn'
  BY <1>2, AutoFetchKeepsRetry DEF Update, Start
<1>3. CASE Continue
  BY <1>3, AutoFetchKeepsRetry DEF Continue, held
<1>4. ASSUME UNCHANGED <<user, retried, calls, inFlight>> PROVE RetryIsOwn'
  BY <1>4 DEF RetryIsOwn
<1>5. \A verb \in {"hydrate", "reset", "convert", "fetch"} : ~Uses(verb)
  BY DEF Plain, Uses
<1> QED  BY <1>1, <1>2, <1>3, <1>4, <1>5, ProgressKeepsRetry
         DEF Next, HydrateFrom, Reset, Convert, FetchClientContext, ServerMoves, vars, held, loading

LEMMA RetryStarts ==
  ASSUME Init PROVE RetryIsOwn
<1>1. PICK u \in Users \cup {None}, s \in Slots :
        \/ calls = [t \in Slots |-> IF t = s THEN Opening(u, None) ELSE Idle]
        \/ calls = [t \in Slots |-> Idle]
  BY DEF Init
<1>2. Idle.retrying = FALSE /\ Opening(u, None).retrying = FALSE
  BY DEF Opening, Idle
<1>3. \A t \in Slots : calls[t] \in {Opening(u, None), Idle}
  BY <1>1
<1>4. \A t \in Slots : ~calls[t].retrying
  BY <1>2, <1>3
<1> QED  BY <1>4 DEF Init, RetryIsOwn

----------------------------------------------------------------------------
(* The plans that answers deliver                                          *)

Answered(s) == calls[s].phase \in {"answered", "hashing"}

\* The held plan is not newer than an answer for the same owner that is yet to be
\* applied, and neither is newer than its owner's on the server.
Ordered ==
  /\ plan \in AnyPlan
  /\ \A u \in Users : plan.owner = u => plan.version <= server[u].version
  /\ \A s \in Slots : Answered(s) =>
       /\ calls[s].plan.owner = plan.owner => plan.version <= calls[s].plan.version
       /\ \A u \in Users : calls[s].plan.owner = u =>
            calls[s].plan.version <= server[u].version

\* Answers are what they were: a step only opens fetches and flags them.
AnswersKept ==
  \A s \in Slots : Answered(s)' => Answered(s) /\ calls'[s].plan = calls[s].plan

LEMMA AutoFetchKeepsAnswers ==
  ASSUME Plain, PlainInv, NEW u \in Users \cup {None}, NEW t \in Users \cup {None}, NEW count,
         AutoFetch(u, t, count)
  PROVE  AnswersKept
<1>1. CASE HasMinter /\ inFlight = None /\ u # None
  <2>1. Opening(u, t).phase \in {"minting", "asking"}
    BY <1>1, OpeningType
  <2>2. PICK f \in Slots : calls' = [calls EXCEPT ![f] = Opening(u, t)]
    BY <1>1, SlotIsFree DEF AutoFetch, PlainInv
  <2>3. \A s \in Slots : calls'[s] = IF s = f THEN Opening(u, t) ELSE calls[s]
    BY <2>2 DEF PlainInv, PlainTypes
  <2> QED  BY <2>1, <2>3 DEF AnswersKept, Answered
<1>2. CASE ~(HasMinter /\ inFlight = None /\ u # None)
  BY <1>2 DEF AutoFetch, AnswersKept, Answered
<1> QED  BY <1>1, <1>2

LEMMA RemintKeepsAnswers ==
  ASSUME Plain, PlainInv, NEW u \in Users, Switches(u), Remint(u)
  PROVE  AnswersKept
<1>1. started /\ token \in Users \cup {None}
  BY DEF Switches, PlainInv, PlainTypes, NothingForNobody
<1>2. CASE HasMinter /\ inFlight # None
  <2>1. inFlight \in Slots /\ calls' = [calls EXCEPT ![inFlight].remint = TRUE]
    BY <1>2 DEF Remint, PlainInv, PlainTypes
  <2>2. \A s \in Slots : calls'[s].phase = calls[s].phase /\ calls'[s].plan = calls[s].plan
    BY <2>1 DEF PlainInv, PlainTypes, Call
  <2> QED  BY <2>2 DEF AnswersKept, Answered
<1>3. CASE ~(HasMinter /\ inFlight # None)
  <2>1. token' \in Users \cup {None} /\ AutoFetch(u, token', 0)
    BY <1>1, <1>3 DEF Remint
  <2> DEFINE t == token'
  <2>2. t \in Users \cup {None} /\ AutoFetch(u, t, 0)
    BY <2>1
  <2> HIDE DEF t
  <2> QED  BY <2>2, AutoFetchKeepsAnswers
<1> QED  BY <1>2, <1>3

\* A verb leaves the held plan or puts one of the app's, or none, in its place.
LEMMA VerbKeepsOrder ==
  ASSUME PlainInv, Ordered, AnswersKept, UNCHANGED server,
         \/ plan' = plan
         \/ plan' \in AnyPlan /\ plan'.version = 0
  PROVE  Ordered'
<1>1. CASE plan' = plan
  BY <1>1 DEF Ordered, AnswersKept, Answered
<1>2. CASE plan' \in AnyPlan /\ plan'.version = 0
  <2>1. \A u \in Users : server[u].version \in Nat
    BY ConstantsAssumption DEF PlainInv, PlainTypes
  <2>2. \A s \in Slots : calls[s].plan.version \in Nat
    BY ConstantsAssumption DEF PlainInv, PlainTypes, Call, AnyPlan
  <2> QED  BY <1>2, <2>1, <2>2 DEF Ordered, AnswersKept, Answered
<1> QED  BY <1>1, <1>2

LEMMA AppPlanType ==
  ASSUME NEW p \in AppPlans \cup {None}, NEW u \in Users \cup {None}
  PROVE  /\ AppPlan(p, u) \in AnyPlan /\ AppPlan(p, u).version = 0
         /\ NoPlan \in AnyPlan /\ NoPlan.version = 0
BY ConstantsAssumption DEF AppPlan, NoPlan, AnyPlan

\* Progress with a fetch: an answer is taken from the server as it is now, and
\* applied to a plan that is not newer.
LEMMA ProgressKeepsOrder ==
  ASSUME Plain, PlainInv, Ordered, NEW s \in Slots, Progress(s)
  PROVE  /\ Ordered'
         /\ plan'.owner = plan.owner => plan'.version >= plan.version
<1>1. calls[s] \in Call /\ plan \in AnyPlan /\ plan.version \in Nat
  BY ConstantsAssumption DEF PlainInv, PlainTypes, Ordered, AnyPlan
<1>2. UNCHANGED server
  BY DEF Progress, Minted, Serve, Refuse, Fail, Reminted, Read, Apply
<1>3. Idle.phase = "idle"
  BY DEF Idle
<1>4. CASE Serve(s)
  <2> DEFINE w == calls[s].who
  <2>1. w \in Users /\ UNCHANGED plan
    BY <1>1, <1>4 DEF Serve, held, PlainInv, MintIsOwn, Call
  <2>2. /\ calls'[s].plan.owner = w /\ calls'[s].plan.version = server[w].version
        /\ \A r \in Slots \ {s} : calls'[r] = calls[r]
    BY <1>1, <1>4 DEF Serve, PlainInv, PlainTypes, Call
  <2>3. server[w].version \in Nat
    BY <2>1, ConstantsAssumption DEF PlainInv, PlainTypes
  <2> HIDE DEF w
  <2> QED  BY <1>1, <1>2, <2>1, <2>2, <2>3 DEF Ordered, Answered
<1>5. CASE Apply(s)
  <2> DEFINE patch == calls[s].plan
  <2>1. /\ plan' = plan \/ plan' = patch
        /\ calls' = [calls EXCEPT ![s] = Idle]
        /\ Answered(s)
    BY <1>5 DEF Apply, Land, LandAs, Answered
  <2>2. /\ calls'[s].phase = "idle" /\ \A r \in Slots \ {s} : calls'[r] = calls[r]
    BY <1>3, <2>1 DEF PlainInv, PlainTypes
  <2>3. \A r \in Slots \ {s} : ~Answered(r)
    BY <2>1, NoneIsNoOne DEF PlainInv, OneFetch, Busy, Answered
  <2>4. \A r \in Slots : ~Answered(r)'
    BY <2>2, <2>3 DEF Answered
  <2>5. patch \in AnyPlan /\ patch.version \in Nat
    BY <1>1, ConstantsAssumption DEF Call, AnyPlan
  <2>6. \A u \in Users : patch.owner = u => patch.version <= server[u].version
    BY <2>1 DEF Ordered
  <2>7. patch.owner = plan.owner => plan.version <= patch.version
    BY <2>1 DEF Ordered
  <2> QED  BY <1>1, <1>2, <2>1, <2>4, <2>5, <2>6, <2>7 DEF Ordered
<1>6. CASE ~Serve(s) /\ ~Apply(s)
  <2>1. UNCHANGED plan
    BY <1>6 DEF Progress, Minted, Refuse, Fail, Reminted, Read, held
  <2>2. \A r \in Slots : Answered(r)' =>
          /\ Answered(r) /\ calls'[r].plan.owner = calls[r].plan.owner
          /\ calls'[r].plan.version = calls[r].plan.version
    BY <1>1, <1>3, <1>6
    DEF Progress, Minted, Refuse, Fail, Reminted, Read, Land, LandAs, Answered,
        PlainInv, PlainTypes, Call, AnyPlan
  <2> QED  BY <1>1, <1>2, <2>1, <2>2 DEF Ordered
<1> QED  BY <1>4, <1>5, <1>6

\* Each step of such an app keeps the order.
LEMMA StepKeepsOrder ==
  ASSUME Plain, PlainInv, Ordered, [Next]_vars
  PROVE  /\ Ordered'
         /\ plan'.version > 0 /\ plan'.owner = plan.owner => plan'.version >= plan.version
<1> DEFINE Goal == /\ Ordered'
                   /\ plan'.version > 0 /\ plan'.owner = plan.owner
                        => plan'.version >= plan.version
<1>1. plan.version \in Nat
  BY ConstantsAssumption DEF Ordered, AnyPlan
<1>2. ASSUME AnswersKept, UNCHANGED server,
             plan' = plan \/ (plan' \in AnyPlan /\ plan'.version = 0)
      PROVE  Goal
  BY <1>1, <1>2, VerbKeepsOrder
<1>3. ASSUME NEW u \in Users, NEW p \in AppPlans \cup {None}
      PROVE  Merged(u, p) = plan \/ (Merged(u, p) \in AnyPlan /\ Merged(u, p).version = 0)
  BY AppPlanType DEF Merged
<1>4. user \in Users \cup {None} /\ token \in Users \cup {None}
  BY DEF PlainInv, PlainTypes
<1>5. UNCHANGED calls => AnswersKept
  BY DEF AnswersKept, Answered
<1>6. ASSUME NEW u \in Users, NEW p \in AppPlans \cup {None},
             Identify(u, p) \/ SetUserContext(u, p)
      PROVE  Goal
  <2>1. plan' = Merged(u, p) /\ UNCHANGED server
    BY <1>6 DEF Identify, SetUserContext
  <2>2. AnswersKept
    <3>1. CASE Switches(u)
      BY <1>6, <3>1, RemintKeepsAnswers DEF Identify, SetUserContext
    <3>2. CASE ~Switches(u)
      <4>1. AutoFetch(u, token, Count(u)) \/ UNCHANGED calls
        BY <1>6, <3>2 DEF Identify, SetUserContext, Start
      <4> QED  BY <1>4, <1>5, <4>1, AutoFetchKeepsAnswers
    <3> QED  BY <3>1, <3>2
  <2> QED  BY <1>2, <1>3, <2>1, <2>2
<1>7. ASSUME NEW p \in AppPlans, Update(p) PROVE Goal
  <2>1. /\ plan' = AppPlan(p, user) /\ UNCHANGED server
        /\ AutoFetch(user, token, mints) \/ UNCHANGED calls
    BY <1>7 DEF Update, Start
  <2>2. AnswersKept
    BY <1>4, <1>5, <2>1, AutoFetchKeepsAnswers
  <2> QED  BY <1>2, <1>4, <2>1, <2>2, AppPlanType
<1>8. CASE Continue
  <2>1. AnswersKept
    BY <1>4, <1>8, AutoFetchKeepsAnswers DEF Continue
  <2> QED  BY <1>2, <1>8, <2>1 DEF Continue, held
<1>9. ASSUME NEW s \in Slots, Progress(s) PROVE Goal
  BY <1>9, ProgressKeepsOrder
<1>10. ASSUME NEW u \in Users, NEW p \in Plans \cup {None}, ServerMoves(u, p) PROVE Goal
  <2>1. /\ server' = [server EXCEPT ![u] = [handle |-> p, version |-> server[u].version + 1]]
        /\ UNCHANGED <<plan, calls>>
    BY <1>10 DEF ServerMoves, held, loading
  <2>2. \A v \in Users : /\ server[v].version \in Nat /\ server'[v].version \in Nat
                         /\ server[v].version <= server'[v].version
    BY <2>1, ConstantsAssumption DEF PlainInv, PlainTypes
  <2>3. \A s \in Slots : calls[s].plan.version \in Nat
    BY ConstantsAssumption DEF PlainInv, PlainTypes, Call, AnyPlan
  <2> QED  BY <1>1, <2>1, <2>2, <2>3 DEF Ordered, Answered
<1>11. CASE UNCHANGED vars
  BY <1>2, <1>5, <1>11 DEF vars, held, loading
<1>12. \A verb \in {"hydrate", "reset", "convert", "fetch"} : ~Uses(verb)
  BY DEF Plain, Uses
<1> QED  BY <1>6, <1>7, <1>8, <1>9, <1>10, <1>11, <1>12
         DEF Next, HydrateFrom, Reset, Convert, FetchClientContext

LEMMA OrderStarts ==
  ASSUME Init, Plain PROVE Ordered
<1>1. \A s \in Slots : ~Answered(s)
  <2>1. \A s \in Slots : calls[s].phase \in {"idle", "minting", "asking"}
    <3>1. PICK u \in Users \cup {None} :
            \/ u # None /\ \E r \in Slots :
                 calls = [t \in Slots |-> IF t = r THEN Opening(u, None) ELSE Idle]
            \/ calls = [t \in Slots |-> Idle]
      BY DEF Init
    <3>2. u # None => Opening(u, None).phase = "minting"
      BY OpeningType
    <3>3. Idle.phase = "idle"
      BY DEF Idle
    <3> QED  BY <3>1, <3>2, <3>3
  <2> QED  BY <2>1 DEF Answered
<1>2. plan \in AnyPlan /\ plan.version = 0
  BY AppPlanType DEF Init
<1>3. \A u \in Users : server[u].version = 1
  BY DEF Init
<1> QED  BY <1>1, <1>2, <1>3 DEF Ordered

----------------------------------------------------------------------------
(* Any app                                                                 *)

\* Every step that names another user forgets the conversion of the last.
LEMMA ConversionKeeps ==
  ASSUME ConversionHeld, [Next]_vars
  PROVE  ConversionHeld'
<1> USE DEF ConversionHeld
<1>1. ASSUME NEW u \in Users, NEW p, Identify(u, p) PROVE ConversionHeld'
  BY <1>1 DEF Identify
<1>2. ASSUME NEW u \in Users, NEW p, SetUserContext(u, p) PROVE ConversionHeld'
  BY <1>2, NoneIsNoOne DEF SetUserContext, Switches
<1>3. ASSUME NEW u \in Users, HydrateFrom(u) PROVE ConversionHeld'
  BY <1>3, NoneIsNoOne DEF HydrateFrom, Switches
<1>4. CASE Reset
  BY <1>4 DEF Reset
<1>5. ASSUME NEW p \in Plans \cup {None}, Convert(p) PROVE ConversionHeld'
  <2>1. (pending' = [from |-> plan.handle, to |-> p, owner |-> user] /\ p # None)
        \/ pending' = pending
    BY <1>5 DEF Convert
  <2> QED  BY <1>5, <2>1 DEF Convert
<1>6. ASSUME NEW s \in Slots, Progress(s) PROVE ConversionHeld'
  <2>1. UNCHANGED user
    BY <1>6 DEF Progress, Minted, Serve, Refuse, Fail, Reminted, Read, Apply, held
  <2>2. pending' \in {pending, NoConversion}
    BY <1>6 DEF Progress, Minted, Serve, Refuse, Fail, Reminted, Read, Apply, held
  <2> QED  BY <2>1, <2>2
<1>7. ASSUME UNCHANGED <<user, pending>> PROVE ConversionHeld'
  BY <1>7
<1> QED  BY <1>1, <1>2, <1>3, <1>4, <1>5, <1>6, <1>7
         DEF Next, Update, FetchClientContext, Continue, ServerMoves, vars, held

\* The inductive invariant.
Inv == ConversionHeld /\ (Plain => PlainInv /\ RetryIsOwn /\ Ordered)

LEMMA InitInv ==
  Init => Inv
BY PlainStarts, RetryStarts, OrderStarts DEF Init, Inv, ConversionHeld

LEMMA VerbsAreFixed ==
  ASSUME [Next]_vars PROVE UNCHANGED verbs
BY DEF Next, Identify, SetUserContext, Update, HydrateFrom, Reset, Convert, FetchClientContext,
       Progress, Minted, Serve, Refuse, Fail, Reminted, Read, Apply, Continue, ServerMoves, vars

LEMMA NextInv ==
  Inv /\ [Next]_vars => Inv'
<1> SUFFICES ASSUME Inv, [Next]_vars PROVE Inv'
  OBVIOUS
<1>1. Plain' = Plain
  BY VerbsAreFixed DEF Plain
<1>2. ConversionHeld'
  BY ConversionKeeps DEF Inv
<1> QED  BY <1>1, <1>2, PlainKeeps, RetryKeeps, StepKeepsOrder DEF Inv

LEMMA Invariance ==
  Spec => []Inv
BY InitInv, NextInv, PTL DEF Spec

----------------------------------------------------------------------------
(* Types, and room for the automatic fetch                                 *)

HeldTypes ==
  /\ verbs \in Habits
  /\ user \in Users \cup {None} /\ started \in BOOLEAN
  /\ plan \in AnyPlan
  /\ lastHash \in {NotYet} \cup {Hash(p) : p \in Plans \cup {None}}
  /\ pending \in [from : Plans \cup {None}, to : Plans \cup {None}, owner : Users \cup {None}]
  /\ server \in [Users -> [handle : Plans \cup {None}, version : 1 .. MaxVersion]]

LoadTypes ==
  /\ token \in Users \cup {None}
  /\ retried \in BOOLEAN /\ due \in BOOLEAN
  /\ calls \in [Slots -> Call]
  /\ inFlight \in Slots \cup {None}

\* The automatic fetch has a slot, or there is one for it.
SlotKept ==
  /\ inFlight # None => Busy(inFlight)
  /\ inFlight = None => \E s \in Slots : ~Busy(s)

\* A fetch that awaits a token or an answer is for somebody.
AskedFor == \A s \in Slots : calls[s].phase \in {"minting", "asking"} => calls[s].who # None

\* The fetches of any app.
FetchInv == LoadTypes /\ SlotKept /\ AskedFor

LEMMA IdleType ==
  Idle \in Call /\ Idle.phase = "idle" /\ ~Idle.remint
BY ConstantsAssumption DEF Idle, Call, Phases, AnyPlan, NoPlan

LEMMA FreeSlotIsFree ==
  ASSUME \E s \in Slots : ~Busy(s)
  PROVE  FreeSlot \in Slots /\ ~Busy(FreeSlot)
<1>1. Free # {}
  BY DEF Free
<1>2. FreeSlot \in Free
  BY <1>1 DEF FreeSlot
<1> QED  BY <1>2 DEF Free

\* A fetch that a verb opens for the automatic one.
LEMMA AutoFetchFits ==
  ASSUME FetchInv, NEW u \in Users \cup {None}, NEW t \in Users \cup {None}, NEW count,
         AutoFetch(u, t, count), token' = t, retried' = retried, due' \in BOOLEAN
  PROVE  FetchInv'
<1> USE DEF FetchInv
<1>1. CASE HasMinter /\ inFlight = None /\ u # None
  <2>1. /\ FreeSlot \in Slots /\ calls' = [calls EXCEPT ![FreeSlot] = Opening(u, t)]
        /\ inFlight' = FreeSlot
    BY <1>1, FreeSlotIsFree DEF AutoFetch, SlotKept
  <2>2. /\ Opening(u, t) \in Call
        /\ Opening(u, t).phase # "idle" /\ Opening(u, t).who # None
    BY <1>1, OpeningType
  <2> HIDE DEF FetchInv
  <2>3. LoadTypes'
    BY <2>1, <2>2 DEF FetchInv, LoadTypes
  <2>4. \A s \in Slots : calls'[s] = IF s = FreeSlot THEN Opening(u, t) ELSE calls[s]
    BY <2>1 DEF FetchInv, LoadTypes
  <2>5. SlotKept' /\ AskedFor'
    BY <2>1, <2>2, <2>4, NoneIsNoOne DEF FetchInv, SlotKept, AskedFor, Busy
  <2> QED  BY <2>3, <2>5 DEF FetchInv
<1>2. CASE ~(HasMinter /\ inFlight = None /\ u # None)
  <2>1. UNCHANGED <<calls, inFlight>>
    BY <1>2 DEF AutoFetch
  <2> QED  BY <2>1 DEF LoadTypes, SlotKept, AskedFor, Busy
<1> QED  BY <1>1, <1>2

\* What leaves the fetches as they are.
LEMMA RestFits ==
  ASSUME FetchInv, UNCHANGED <<calls, inFlight>>, token' \in Users \cup {None},
         retried' \in BOOLEAN, due' \in BOOLEAN
  PROVE  FetchInv'
  BY DEF FetchInv, LoadTypes, SlotKept, AskedFor, Busy

LEMMA RemintFits ==
  ASSUME FetchInv, NEW u \in Users, Remint(u), UNCHANGED <<retried, due>>
  PROVE  FetchInv'
<1>1. token' \in Users \cup {None} /\ token \in Users \cup {None} /\ due \in BOOLEAN
  BY DEF Remint, FetchInv, LoadTypes
<1>2. CASE HasMinter /\ inFlight # None
  <2>1. /\ calls' = [calls EXCEPT ![inFlight].remint = TRUE]
        /\ inFlight' = inFlight /\ inFlight \in Slots
    BY <1>2 DEF Remint, FetchInv, LoadTypes
  <2> DEFINE c == [calls[inFlight] EXCEPT !.remint = TRUE]
  <2>2. /\ c \in Call /\ c.phase = calls[inFlight].phase /\ c.who = calls[inFlight].who
    BY <2>1 DEF FetchInv, LoadTypes, Call
  <2>3. calls' = [calls EXCEPT ![inFlight] = c]
    BY <2>1
  <2> HIDE DEF c
  <2>4. \A s \in Slots : calls'[s] = IF s = inFlight THEN c ELSE calls[s]
    BY <2>1, <2>3 DEF FetchInv, LoadTypes
  <2>5. LoadTypes'
    BY <1>1, <2>1, <2>2, <2>3 DEF FetchInv, LoadTypes
  <2>6. SlotKept' /\ AskedFor'
    BY <1>2, <2>1, <2>2, <2>4 DEF FetchInv, SlotKept, AskedFor, Busy
  <2> QED  BY <2>5, <2>6 DEF FetchInv
<1>3. CASE HasMinter /\ inFlight = None /\ ~started
  <2> DEFINE c == [Opening(u, token) EXCEPT !.remint = TRUE]
  <2>1. /\ FreeSlot \in Slots /\ calls' = [calls EXCEPT ![FreeSlot] = c]
        /\ inFlight' = FreeSlot
    BY <1>3, FreeSlotIsFree DEF Remint, FetchInv, SlotKept
  <2>2. /\ Opening(u, token) \in Call
        /\ Opening(u, token).phase # "idle" /\ Opening(u, token).who # None
    BY <1>1, NoneIsNoOne, OpeningType
  <2>3. c \in Call /\ c.phase # "idle" /\ c.who # None
    BY <2>2 DEF Call
  <2> HIDE DEF c
  <2>4. LoadTypes'
    BY <1>1, <2>1, <2>3 DEF FetchInv, LoadTypes
  <2>5. \A s \in Slots : calls'[s] = IF s = FreeSlot THEN c ELSE calls[s]
    BY <2>1 DEF FetchInv, LoadTypes
  <2>6. SlotKept' /\ AskedFor'
    BY <2>1, <2>3, <2>5, NoneIsNoOne DEF FetchInv, SlotKept, AskedFor, Busy
  <2> QED  BY <2>4, <2>6 DEF FetchInv
<1>4. CASE ~HasMinter \/ (inFlight = None /\ started)
  <2> DEFINE t == token'
  <2>1. t \in Users \cup {None} /\ AutoFetch(u, t, 0) /\ token' = t
    BY <1>1, <1>4 DEF Remint
  <2> HIDE DEF t
  <2> QED  BY <1>1, <2>1, AutoFetchFits
<1> QED  BY <1>2, <1>3, <1>4

\* A fetch beside the automatic one leaves a slot for that.
LEMMA FetchFits ==
  ASSUME FetchInv, Room, NEW u \in Users \cup {None}, NEW t \in Users \cup {None},
         Fetch(u, t), token' \in Users \cup {None}, UNCHANGED <<retried, inFlight, due>>
  PROVE  FetchInv'
<1>1. CASE ~MayOpen(u, t)
  BY <1>1, RestFits DEF Fetch, FetchInv, LoadTypes
<1>2. CASE MayOpen(u, t)
  <2>1. IsFiniteSet(Free) /\ Free \subseteq Slots /\ Cardinality(Free) \in Nat
    <3>1. Free \subseteq Slots
      BY DEF Free
    <3> QED  BY <3>1, ConstantsAssumption, FS_Subset, FS_CardinalityType
  <2>2. Free # {}
    BY <2>1, FS_EmptySet DEF Room
  <2>3. FreeSlot \in Slots /\ ~Busy(FreeSlot) /\ FreeSlot \in Free
    BY <2>2 DEF FreeSlot, Free
  <2>4. inFlight = None => \E s \in Slots : ~Busy(s) /\ s # FreeSlot
    <3>1. SUFFICES ASSUME inFlight = None PROVE \E s \in Free : s # FreeSlot
      BY DEF Free
    <3>2. Cardinality(Free) # 1
      BY <3>1 DEF Room
    <3>3. Free # {FreeSlot}
      BY <3>2, FS_Singleton
    <3> QED  BY <2>3, <3>3
  <2>5. u # None /\ calls' = [calls EXCEPT ![FreeSlot] = Opening(u, t)]
    BY <1>2 DEF Fetch, MayOpen
  <2>6. /\ Opening(u, t) \in Call
        /\ Opening(u, t).phase # "idle" /\ Opening(u, t).who # None
    BY <2>5, OpeningType
  <2>7. LoadTypes'
    BY <2>3, <2>5, <2>6 DEF FetchInv, LoadTypes
  <2>8. \A s \in Slots : calls'[s] = IF s = FreeSlot THEN Opening(u, t) ELSE calls[s]
    BY <2>3, <2>5 DEF FetchInv, LoadTypes
  <2>9. SlotKept'
    <3>1. CASE inFlight = None
      BY <2>4, <2>8, <3>1 DEF SlotKept, Busy
    <3>2. CASE inFlight # None
      <4>1. inFlight \in Slots
        BY <3>2 DEF FetchInv, LoadTypes
      <4> QED  BY <2>6, <2>8, <3>2, <4>1 DEF FetchInv, SlotKept, Busy
    <3> QED  BY <3>1, <3>2
  <2>10. AskedFor'
    BY <2>6, <2>8 DEF FetchInv, AskedFor
  <2> QED  BY <2>7, <2>9, <2>10 DEF FetchInv
<1> QED  BY <1>1, <1>2

\* The end of a fetch, which frees its slot.
LEMMA LandFits ==
  ASSUME FetchInv, NEW s \in Slots, NEW flag \in BOOLEAN, LandAs(s, flag),
         token' \in Users \cup {None}
  PROVE  FetchInv'
<1>1. /\ calls' = [calls EXCEPT ![s] = Idle] /\ retried' = flag
      /\ inFlight' = IF inFlight = s THEN None ELSE inFlight
      /\ due' = (due \/ calls[s].remint)
  BY DEF LandAs
<1>2. calls[s].remint \in BOOLEAN /\ due' \in BOOLEAN
  BY <1>1 DEF FetchInv, LoadTypes, Call
<1>3. LoadTypes'
  BY <1>1, <1>2, IdleType DEF FetchInv, LoadTypes
<1>4. \A r \in Slots : calls'[r] = IF r = s THEN Idle ELSE calls[r]
  BY <1>1 DEF FetchInv, LoadTypes
<1>5. SlotKept' /\ AskedFor'
  BY <1>1, <1>4, IdleType, NoneIsNoOne DEF FetchInv, LoadTypes, SlotKept, AskedFor, Busy
<1> QED  BY <1>3, <1>5 DEF FetchInv

\* A step of a fetch to its next await.
LEMMA AwaitFits ==
  ASSUME FetchInv, NEW s \in Slots, NEW c \in Call, calls' = [calls EXCEPT ![s] = c],
         c.phase # "idle", c.phase \in {"minting", "asking"} => c.who # None,
         token' \in Users \cup {None}, retried' \in BOOLEAN, UNCHANGED <<inFlight, due>>,
         Busy(s)
  PROVE  FetchInv'
<1>1. LoadTypes'
  BY DEF FetchInv, LoadTypes
<1>2. \A r \in Slots : calls'[r] = IF r = s THEN c ELSE calls[r]
  BY DEF FetchInv, LoadTypes
<1>3. SlotKept' /\ AskedFor'
  BY <1>2 DEF FetchInv, LoadTypes, SlotKept, AskedFor, Busy
<1> QED  BY <1>1, <1>3 DEF FetchInv

\* Each answer a fetch awaits.
LEMMA ProgressFits ==
  ASSUME FetchInv, HeldTypes, NEW s \in Slots, Progress(s)
  PROVE  FetchInv'
<1>1. calls[s] \in Call /\ retried \in BOOLEAN /\ token \in Users \cup {None}
  BY DEF FetchInv, LoadTypes
<1>2. AfterRetries(s) \in BOOLEAN
  BY <1>1 DEF AfterRetries, Call
<1>3. Land(s) /\ token' \in Users \cup {None} => FetchInv'
  BY <1>2, LandFits DEF Land
<1>4. CASE Minted(s)
  <2>1. calls[s].who \in Users
    BY <1>1, <1>4 DEF Minted, FetchInv, AskedFor, Call
  <2>2. CASE token' = None /\ Land(s)
    BY <1>3, <2>2
  <2>3. CASE /\ token' = calls[s].who
             /\ calls' = [calls EXCEPT ![s].phase = "asking"]
             /\ UNCHANGED <<retried, inFlight, due>>
    <3> DEFINE c == [calls[s] EXCEPT !.phase = "asking"]
    <3>1. c \in Call /\ c.phase = "asking" /\ c.who = calls[s].who
      BY <1>1 DEF Call, Phases
    <3>2. calls' = [calls EXCEPT ![s] = c] /\ Busy(s)
      BY <1>4, <2>3 DEF Minted, Busy
    <3> HIDE DEF c
    <3> QED  BY <1>1, <2>1, <2>3, <3>1, <3>2, NoneIsNoOne, AwaitFits
  <2> QED  BY <1>4, <2>2, <2>3 DEF Minted
<1>5. CASE Serve(s)
  <2> DEFINE w == calls[s].who
             got == [handle |-> server[w].handle, owner |-> w, version |-> server[w].version]
             c == [calls[s] EXCEPT !.phase = "answered", !.plan = got]
  <2>1. w \in Users
    BY <1>1, <1>5 DEF Serve, FetchInv, AskedFor, Call
  <2>2. got \in AnyPlan
    BY <2>1, ConstantsAssumption DEF HeldTypes, AnyPlan
  <2>3. c \in Call /\ c.phase = "answered"
    BY <1>1, <2>2 DEF Call, Phases
  <2>4. /\ calls' = [calls EXCEPT ![s] = c] /\ Busy(s)
        /\ UNCHANGED <<token, retried, inFlight, due>>
    BY <1>5 DEF Serve, Busy
  <2> HIDE DEF c
  <2> QED  BY <1>1, <2>3, <2>4, AwaitFits
<1>6. CASE Refuse(s)
  <2>1. CASE Land(s)
    BY <1>3, <1>6, <2>1 DEF Refuse
  <2>2. CASE /\ calls' = [calls EXCEPT ![s].phase = "reminting", ![s].who = user]
             /\ UNCHANGED <<retried, inFlight, due>>
    <3> DEFINE c == [calls[s] EXCEPT !.phase = "reminting", !.who = user]
    <3>1. c \in Call /\ c.phase = "reminting"
      BY <1>1 DEF Call, Phases, HeldTypes
    <3>2. calls' = [calls EXCEPT ![s] = c] /\ Busy(s) /\ token' = None
      BY <1>6, <2>2 DEF Refuse, Busy
    <3> HIDE DEF c
    <3> QED  BY <1>1, <2>2, <3>1, <3>2, AwaitFits
  <2> QED  BY <1>6, <2>1, <2>2 DEF Refuse
<1>7. CASE Fail(s)
  BY <1>1, <1>3, <1>7 DEF Fail
<1>8. CASE Reminted(s)
  <2>1. CASE Land(s) /\ UNCHANGED token
    BY <1>1, <1>3, <2>1
  <2>2. CASE LandAs(s, FALSE) /\ UNCHANGED token
    BY <1>1, <2>2, LandFits
  <2>3. CASE /\ calls[s].who # None /\ retried' = TRUE /\ token' = calls[s].who
             /\ calls' = [calls EXCEPT ![s].phase = "asking", ![s].retrying = TRUE]
             /\ UNCHANGED <<inFlight, due>>
    <3> DEFINE c == [calls[s] EXCEPT !.phase = "asking", !.retrying = TRUE]
    <3>1. c \in Call /\ c.phase = "asking" /\ c.who = calls[s].who
      BY <1>1 DEF Call, Phases
    <3>2. calls' = [calls EXCEPT ![s] = c] /\ Busy(s) /\ calls[s].who \in Users
      BY <1>1, <1>8, <2>3 DEF Reminted, Busy, Call
    <3> HIDE DEF c
    <3> QED  BY <2>3, <3>1, <3>2, AwaitFits
  <2> QED  BY <1>8, <2>1, <2>2, <2>3 DEF Reminted
<1>9. CASE Read(s)
  <2>1. CASE Land(s)
    BY <1>1, <1>3, <1>9, <2>1 DEF Read
  <2>2. ASSUME NEW patch \in Plans \cup {None},
               calls' = [calls EXCEPT ![s].phase = "hashing", ![s].plan.handle = patch],
               UNCHANGED <<retried, inFlight, due>>
        PROVE  FetchInv'
    <3> DEFINE c == [calls[s] EXCEPT !.phase = "hashing", !.plan.handle = patch]
    <3>1. [calls[s].plan EXCEPT !.handle = patch] \in AnyPlan
      BY <1>1 DEF Call, AnyPlan
    <3>2. c \in Call /\ c.phase = "hashing"
      BY <1>1, <3>1 DEF Call, Phases
    <3>3. calls' = [calls EXCEPT ![s] = c] /\ Busy(s) /\ token' = token
      BY <1>9, <2>2 DEF Read, Busy
    <3> HIDE DEF c
    <3> QED  BY <1>1, <2>2, <3>2, <3>3, AwaitFits
  <2>3. calls[s].plan.handle \in Plans \cup {None}
    BY <1>1 DEF Call, AnyPlan
  <2> QED  BY <1>9, <2>1, <2>2, <2>3 DEF Read
<1>10. CASE Apply(s)
  BY <1>1, <1>3, <1>10 DEF Apply
<1> QED  BY <1>4, <1>5, <1>6, <1>7, <1>8, <1>9, <1>10 DEF Progress

\* Every step leaves every fetch a fetch, and room for the automatic one.
LEMMA StepFits ==
  ASSUME FetchInv, HeldTypes, [Next]_vars
  PROVE  FetchInv'
<1>1. /\ user \in Users \cup {None} /\ token \in Users \cup {None}
      /\ retried \in BOOLEAN /\ due \in BOOLEAN
  BY DEF FetchInv, LoadTypes, HeldTypes
<1>2. ASSUME NEW u \in Users, NEW p, Identify(u, p) \/ SetUserContext(u, p) PROVE FetchInv'
  <2>1. UNCHANGED <<retried, due>>
    BY <1>2 DEF Identify, SetUserContext
  <2>2. CASE Remint(u)
    BY <2>1, <2>2, RemintFits
  <2>3. CASE token' = token /\ AutoFetch(u, token, Count(u))
    BY <1>1, <2>1, <2>3, AutoFetchFits
  <2>4. CASE token' = token /\ UNCHANGED <<calls, inFlight>>
    BY <1>1, <2>1, <2>4, RestFits
  <2> QED  BY <1>2, <2>2, <2>3, <2>4 DEF Identify, SetUserContext, Start
<1>3. ASSUME NEW p, Update(p) PROVE FetchInv'
  <2>1. UNCHANGED <<token, retried, due>>
    BY <1>3 DEF Update
  <2>2. CASE AutoFetch(user, token, mints)
    BY <1>1, <2>1, <2>2, AutoFetchFits
  <2>3. CASE UNCHANGED <<calls, inFlight>>
    BY <1>1, <2>1, <2>3, RestFits
  <2> QED  BY <1>3, <2>2, <2>3 DEF Update, Start
<1>4. ASSUME NEW p, Convert(p) PROVE FetchInv'
  BY <1>1, <1>4, FetchFits DEF Convert
<1>5. ASSUME NEW t \in {None, user}, FetchClientContext(t) PROVE FetchInv'
  <2> DEFINE held2 == token'
  <2>1. /\ held2 \in Users \cup {None} /\ token' = held2 /\ Room /\ Fetch(user, held2)
        /\ UNCHANGED <<retried, inFlight, due>>
    BY <1>1, <1>5 DEF FetchClientContext
  <2> HIDE DEF held2
  <2> QED  BY <1>1, <2>1, FetchFits
<1>6. CASE Continue
  <2>1. AutoFetch(user, None, mints) /\ token' = None /\ due' = FALSE /\ UNCHANGED retried
    BY <1>6 DEF Continue
  <2> QED  BY <1>1, <2>1, AutoFetchFits
<1>7. ASSUME NEW s \in Slots, Progress(s) PROVE FetchInv'
  BY <1>7, ProgressFits
<1>8. ASSUME UNCHANGED <<calls, inFlight, retried, due>>, token' \in {None, token} PROVE FetchInv'
  BY <1>1, <1>8, RestFits
<1> QED  BY <1>2, <1>3, <1>4, <1>5, <1>6, <1>7, <1>8
         DEF Next, HydrateFrom, Reset, ServerMoves, vars, loading

\* The state beside the fetches.
LEMMA HeldKeeps ==
  ASSUME FetchInv, HeldTypes, [Next]_vars
  PROVE  HeldTypes'
<1>1. /\ plan \in AnyPlan /\ user \in Users \cup {None}
      /\ plan.handle \in Plans \cup {None}
  BY DEF HeldTypes, AnyPlan
<1>2. /\ \A p \in Plans \cup {None}, u \in Users \cup {None} : AppPlan(p, u) \in AnyPlan
      /\ NoPlan \in AnyPlan
  BY ConstantsAssumption DEF AppPlan, NoPlan, AnyPlan
<1>3. /\ AppPlans \subseteq Plans
      /\ NoConversion \in [from : Plans \cup {None}, to : Plans \cup {None}, owner : Users \cup {None}]
  BY ConstantsAssumption DEF NoConversion
<1>4. \A u \in Users, p \in AppPlans \cup {None} : Merged(u, p) \in AnyPlan
  BY <1>1, <1>2, <1>3 DEF Merged
<1>5. ASSUME NEW u \in Users, NEW p \in AppPlans \cup {None},
             Identify(u, p) \/ SetUserContext(u, p)
      PROVE  HeldTypes'
  BY <1>3, <1>4, <1>5 DEF Identify, SetUserContext, HeldTypes
<1>6. ASSUME NEW p \in AppPlans, Update(p) PROVE HeldTypes'
  BY <1>1, <1>2, <1>3, <1>6 DEF Update, HeldTypes
<1>7. ASSUME NEW u \in Users, HydrateFrom(u) PROVE HeldTypes'
  BY <1>3, <1>4, <1>7 DEF HydrateFrom, HeldTypes
<1>8. CASE Reset
  BY <1>2, <1>3, <1>8 DEF Reset, HeldTypes
<1>9. ASSUME NEW p \in Plans \cup {None}, Convert(p) PROVE HeldTypes'
  BY <1>1, <1>2, <1>9 DEF Convert, HeldTypes
<1>10. ASSUME NEW s \in Slots, Progress(s) PROVE HeldTypes'
  <2>1. calls[s].plan \in AnyPlan /\ calls[s].plan.handle \in Plans \cup {None}
    BY DEF FetchInv, LoadTypes, Call, AnyPlan
  <2>2. CASE Read(s)
    <3>1. pending' \in {pending, NoConversion} /\ UNCHANGED <<verbs, user, started, plan, lastHash, server>>
      BY <2>2 DEF Read
    <3> QED  BY <1>3, <3>1 DEF HeldTypes
  <2>3. CASE Apply(s)
    <3>1. /\ plan' \in {plan, calls[s].plan} /\ lastHash' \in {lastHash, Hash(calls[s].plan.handle)}
          /\ UNCHANGED <<verbs, user, started, pending, server>>
      BY <2>3 DEF Apply
    <3> QED  BY <1>1, <2>1, <3>1 DEF HeldTypes
  <2>4. CASE ~Read(s) /\ ~Apply(s)
    <3>1. UNCHANGED <<verbs, held, lastHash, server>>
      BY <1>10, <2>4 DEF Progress, Minted, Serve, Refuse, Fail, Reminted
    <3> QED  BY <3>1 DEF held, HeldTypes
  <2> QED  BY <2>2, <2>3, <2>4
<1>11. ASSUME NEW u \in Users, NEW p \in Plans \cup {None}, ServerMoves(u, p) PROVE HeldTypes'
  <2>1. /\ server' = [server EXCEPT ![u] = [handle |-> p, version |-> server[u].version + 1]]
        /\ server[u].version < MaxVersion /\ UNCHANGED <<verbs, held, lastHash>>
    BY <1>11 DEF ServerMoves
  <2>2. server' \in [Users -> [handle : Plans \cup {None}, version : 1 .. MaxVersion]]
    BY <2>1, ConstantsAssumption DEF HeldTypes
  <2> QED  BY <2>1, <2>2 DEF held, HeldTypes
<1>12. ASSUME UNCHANGED <<verbs, held, lastHash, server>> PROVE HeldTypes'
  BY <1>12 DEF held, HeldTypes
<1> QED  BY <1>5, <1>6, <1>7, <1>8, <1>9, <1>10, <1>11, <1>12
         DEF Next, FetchClientContext, Continue, vars

\* An app starts with typed state, and with one fetch at most.
LEMMA StartFits ==
  ASSUME Init
  PROVE  HeldTypes /\ FetchInv
<1>1. PICK u \in Users \cup {None}, s \in Slots :
        /\ user = u /\ started = (u # None)
        /\ IF u # None /\ HasMinter
           THEN /\ calls = [t \in Slots |-> IF t = s THEN Opening(u, None) ELSE Idle]
                /\ inFlight = s /\ mints = Counted(1)
           ELSE calls = [t \in Slots |-> Idle] /\ inFlight = None /\ mints = 0
        /\ \E p \in AppPlans \cup {None} : plan = IF p = None THEN NoPlan ELSE AppPlan(p, u)
  BY DEF Init
<1>2. /\ verbs \in Habits /\ lastHash = NotYet /\ pending = NoConversion
      /\ token = None /\ retried = FALSE /\ due = FALSE
  BY DEF Init
<1>3. plan \in AnyPlan
  BY <1>1, AppPlanType
<1>4. server \in [Users -> [handle : Plans \cup {None}, version : 1 .. MaxVersion]]
  <2>1. PICK f \in ServerPlans : server = [v \in Users |-> [handle |-> f[v], version |-> 1]]
    BY DEF Init
  <2> QED  BY <2>1, ConstantsAssumption
<1>5. HeldTypes
  BY <1>1, <1>2, <1>3, <1>4 DEF HeldTypes, NoConversion
<1>6. CASE u # None /\ HasMinter
  <2>1. /\ Opening(u, None) \in Call
        /\ Opening(u, None).phase = "minting" /\ Opening(u, None).who = u
    BY <1>6, OpeningType
  <2>2. calls = [t \in Slots |-> IF t = s THEN Opening(u, None) ELSE Idle] /\ inFlight = s
    BY <1>1, <1>6
  <2>3. LoadTypes
    BY <1>2, <2>1, <2>2, IdleType DEF LoadTypes
  <2>4. SlotKept /\ AskedFor
    BY <1>6, <2>1, <2>2, IdleType, NoneIsNoOne DEF SlotKept, AskedFor, Busy
  <2> QED  BY <1>5, <2>3, <2>4 DEF FetchInv
<1>7. CASE ~(u # None /\ HasMinter)
  <2>1. calls = [t \in Slots |-> Idle] /\ inFlight = None
    BY <1>1, <1>7
  <2>2. LoadTypes
    BY <1>2, <2>1, IdleType DEF LoadTypes
  <2>3. SlotKept /\ AskedFor
    BY <2>1, IdleType DEF SlotKept, AskedFor, Busy
  <2> QED  BY <1>5, <2>2, <2>3 DEF FetchInv
<1> QED  BY <1>6, <1>7

\* The mints of an app that fetches by itself are not counted.
LEMMA NoneCounted ==
  ASSUME ~Plain, mints = 0, [Next]_vars
  PROVE  mints' = 0
<1>1. \A n : Counted(n) = 0
  BY DEF Counted
<1>2. ASSUME NEW u, NEW t, NEW count, AutoFetch(u, t, count), count = 0 PROVE mints' = 0
  BY <1>1, <1>2 DEF AutoFetch
<1>3. ASSUME NEW u, Remint(u) PROVE mints' = 0
  BY <1>1, <1>2, <1>3 DEF Remint
<1>4. \A u : Count(u) = 0
  BY DEF Count
<1>5. ASSUME NEW u, NEW count, Start(u, count), count = 0 PROVE mints' = 0
  BY <1>2, <1>5 DEF Start
<1>6. ASSUME NEW u, NEW p, Identify(u, p) \/ SetUserContext(u, p) PROVE mints' = 0
  BY <1>2, <1>3, <1>4, <1>5, <1>6 DEF Identify, SetUserContext
<1>7. ASSUME NEW u, NEW t, Fetch(u, t) PROVE mints' = 0
  BY <1>1, <1>7 DEF Fetch
<1>8. ASSUME NEW s, Progress(s) PROVE mints' = 0
  BY <1>1, <1>8 DEF Progress, Minted, Serve, Refuse, Fail, Reminted, Read, Apply, Lost
<1> QED  BY <1>2, <1>4, <1>5, <1>6, <1>7, <1>8
         DEF Next, Update, HydrateFrom, Reset, Convert, FetchClientContext, Continue,
             ServerMoves, vars

\* A lost mint is lost once: with a token, or a fetch to bring one, none is owed,
\* and a fetch that mints again holds no token.
Compensated ==
  /\ mints >= -1
  /\ token # None \/ inFlight # None => mints >= 0
  /\ \A s \in Slots : calls[s].phase = "reminting" => token = None

\* A verb that may open the automatic fetch.
LEMMA AutoFetchCompensates ==
  ASSUME Plain, PlainInv, Compensated,
         NEW u \in Users \cup {None}, NEW t \in Users \cup {None}, NEW count \in Int,
         AutoFetch(u, t, count) \/ (UNCHANGED <<calls, inFlight>> /\ mints' = count),
         token' = t, t \in {None, token},
         count >= -1, t # None \/ inFlight # None => count >= 0
  PROVE  Compensated'
<1>1. CASE AutoFetch(u, t, count) /\ HasMinter /\ inFlight = None /\ u # None
  <2>1. /\ FreeSlot \in Slots /\ calls' = [calls EXCEPT ![FreeSlot] = Opening(u, t)]
        /\ mints' = count + Minting(t)
    BY <1>1, SlotIsFree DEF AutoFetch, Counted, PlainInv
  <2>2. Opening(u, t).phase \in {"minting", "asking"}
    BY <1>1, OpeningType
  <2>3. \A s \in Slots : calls'[s] = IF s = FreeSlot THEN Opening(u, t) ELSE calls[s]
    BY <2>1 DEF PlainInv, PlainTypes
  <2>4. mints' \in Int /\ mints' >= 0
    BY <2>1 DEF Minting
  <2>5. \A s \in Slots : calls'[s].phase = "reminting" => token' = None
    BY <2>2, <2>3 DEF Compensated
  <2> QED  BY <2>4, <2>5 DEF Compensated
<1>2. CASE UNCHANGED <<calls, inFlight>> /\ mints' = count
  BY <1>2 DEF Compensated
<1> QED  BY <1>1, <1>2 DEF AutoFetch

LEMMA RemintCompensates ==
  ASSUME Plain, PlainInv, Compensated, NEW u \in Users, Switches(u), Remint(u)
  PROVE  Compensated'
<1>1. started /\ token \in Users \cup {None}
  BY DEF Switches, PlainInv, PlainTypes, NothingForNobody
<1>2. CASE HasMinter /\ inFlight # None
  <2>1. /\ inFlight \in Slots /\ calls' = [calls EXCEPT ![inFlight].remint = TRUE]
        /\ token' = None /\ mints' = 0
    BY <1>2 DEF Remint, PlainInv, PlainTypes
  <2> QED  BY <2>1 DEF Compensated
<1>3. CASE ~(HasMinter /\ inFlight # None)
  <2> DEFINE t == token'
  <2>1. t \in Users \cup {None} /\ t \in {None, token} /\ token' = t /\ AutoFetch(u, t, 0)
    BY <1>1, <1>3 DEF Remint
  <2> HIDE DEF t
  <2> QED  BY <2>1, AutoFetchCompensates
<1> QED  BY <1>2, <1>3

\* The fetch under way makes up for what it loses.
LEMMA ProgressCompensates ==
  ASSUME Plain, PlainInv, Compensated, NEW s \in Slots, Progress(s)
  PROVE  Compensated'
<1>1. /\ calls \in [Slots -> Call] /\ mints \in Int
      /\ inFlight = s /\ s # None
  BY NoneIsNoOne
  DEF PlainInv, PlainTypes, OneFetch, Busy, Progress, Minted, Serve, Refuse, Fail, Reminted,
      Read, Apply
<1>2. mints >= 0 /\ \A r \in Slots \ {s} : calls[r].phase = "idle"
  BY <1>1 DEF Compensated, PlainInv, OneFetch, Busy
<1>3. ASSUME Land(s) \/ LandAs(s, FALSE),
             mints' = mints \/ (mints' = mints - 1 /\ token' = None)
      PROVE  Compensated'
  <2>1. calls' = [calls EXCEPT ![s] = Idle] /\ inFlight' = None
    BY <1>1, <1>3 DEF Land, LandAs
  <2>2. \A r \in Slots : calls'[r].phase = "idle"
    BY <1>1, <1>2, <2>1, IdleType
  <2> QED  BY <1>1, <1>2, <1>3, <2>1, <2>2 DEF Compensated
<1>4. ASSUME NEW c, calls' = [calls EXCEPT ![s] = c],
             c.phase = "reminting" => token' = None, mints' = mints
      PROVE  Compensated'
  <2>1. \A r \in Slots : calls'[r].phase = "reminting" => token' = None
    BY <1>1, <1>2, <1>4
  <2> QED  BY <1>1, <1>2, <1>4, <2>1 DEF Compensated
<1>5. ASSUME NEW u, Lost(u) PROVE mints' = mints \/ mints' = mints - 1
  BY <1>5 DEF Lost, Counted
<1>6. CASE Minted(s)
  <2>1. CASE token' = None /\ Land(s) /\ Lost(calls[s].who)
    BY <1>3, <1>5, <2>1
  <2>2. CASE calls' = [calls EXCEPT ![s].phase = "asking"] /\ mints' = mints
    <3> DEFINE c == [calls[s] EXCEPT !.phase = "asking"]
    <3>1. calls' = [calls EXCEPT ![s] = c] /\ c.phase # "reminting"
      BY <1>1, <2>2 DEF Call
    <3> HIDE DEF c
    <3> QED  BY <1>4, <2>2, <3>1
  <2> QED  BY <1>6, <2>1, <2>2 DEF Minted
<1>7. CASE Serve(s)
  <2> DEFINE w == calls[s].who
             c == [calls[s] EXCEPT !.phase = "answered",
                     !.plan = [handle |-> server[w].handle, owner |-> w,
                               version |-> server[w].version]]
  <2>1. calls' = [calls EXCEPT ![s] = c] /\ c.phase # "reminting" /\ mints' = mints
    BY <1>1, <1>7 DEF Serve, Call
  <2> HIDE DEF c
  <2> QED  BY <1>4, <2>1
<1>8. CASE Refuse(s)
  <2>1. CASE Land(s) /\ Lost(calls[s].who)
    BY <1>3, <1>5, <1>8, <2>1 DEF Refuse
  <2>2. CASE calls' = [calls EXCEPT ![s].phase = "reminting", ![s].who = user] /\ mints' = mints
    <3> DEFINE c == [calls[s] EXCEPT !.phase = "reminting", !.who = user]
    <3>1. calls' = [calls EXCEPT ![s] = c]
      BY <2>2
    <3> HIDE DEF c
    <3> QED  BY <1>4, <1>8, <2>2, <3>1 DEF Refuse
  <2> QED  BY <1>8, <2>1, <2>2 DEF Refuse
<1>9. CASE Fail(s)
  BY <1>3, <1>9 DEF Fail
<1>10. CASE Reminted(s)
  <2>1. token = None
    BY <1>10 DEF Reminted, Compensated
  <2>2. CASE Land(s) /\ Lost(calls[s].who) /\ UNCHANGED token
    BY <1>3, <1>5, <2>1, <2>2
  <2>3. CASE LandAs(s, FALSE) /\ mints' = mints
    BY <1>3, <2>3
  <2>4. CASE calls' = [calls EXCEPT ![s].phase = "asking", ![s].retrying = TRUE] /\ mints' = mints
    <3> DEFINE c == [calls[s] EXCEPT !.phase = "asking", !.retrying = TRUE]
    <3>1. calls' = [calls EXCEPT ![s] = c] /\ c.phase # "reminting"
      BY <1>1, <2>4 DEF Call
    <3> HIDE DEF c
    <3> QED  BY <1>4, <2>4, <3>1
  <2> QED  BY <1>10, <2>2, <2>3, <2>4 DEF Reminted
<1>11. CASE Read(s)
  <2>1. mints' = mints
    BY <1>11 DEF Read
  <2>2. CASE Land(s)
    BY <1>3, <2>1, <2>2
  <2>3. ASSUME NEW patch,
               calls' = [calls EXCEPT ![s].phase = "hashing", ![s].plan.handle = patch]
        PROVE  Compensated'
    <3> DEFINE c == [calls[s] EXCEPT !.phase = "hashing", !.plan.handle = patch]
    <3>1. calls' = [calls EXCEPT ![s] = c] /\ c.phase # "reminting"
      BY <1>1, <2>3 DEF Call
    <3> HIDE DEF c
    <3> QED  BY <1>4, <2>1, <3>1
  <2> QED  BY <1>11, <2>2, <2>3 DEF Read
<1>12. CASE Apply(s)
  BY <1>3, <1>12 DEF Apply
<1> QED  BY <1>6, <1>7, <1>8, <1>9, <1>10, <1>11, <1>12 DEF Progress

\* Each step of an app that leaves the fetching to the SDK.
LEMMA StepCompensates ==
  ASSUME Plain, PlainInv, Compensated, [Next]_vars
  PROVE  Compensated'
<1>1. user \in Users \cup {None} /\ token \in Users \cup {None} /\ mints \in Int
  BY DEF PlainInv, PlainTypes
<1>2. \A u : /\ Count(u) \in Int /\ Count(u) >= -1
             /\ token # None \/ inFlight # None => Count(u) >= 0
  BY <1>1 DEF Count, Compensated
<1>3. ASSUME NEW u \in Users, NEW p, Identify(u, p) \/ SetUserContext(u, p) PROVE Compensated'
  <2>1. CASE Switches(u)
    BY <1>3, <2>1, RemintCompensates DEF Identify, SetUserContext
  <2>2. CASE ~Switches(u)
    <3>1. /\ token' = token
          /\ \/ AutoFetch(u, token, Count(u))
             \/ UNCHANGED <<calls, inFlight>> /\ mints' = Count(u)
      BY <1>3, <2>2 DEF Identify, SetUserContext, Start
    <3> QED  BY <1>1, <1>2, <3>1, AutoFetchCompensates
  <2> QED  BY <2>1, <2>2
<1>4. ASSUME NEW p, Update(p) PROVE Compensated'
  <2>1. /\ token' = token
        /\ AutoFetch(user, token, mints) \/ (UNCHANGED <<calls, inFlight>> /\ mints' = mints)
    BY <1>4 DEF Update, Start
  <2>2. mints >= -1 /\ (token # None \/ inFlight # None => mints >= 0)
    BY DEF Compensated
  <2> QED  BY <1>1, <2>1, <2>2, AutoFetchCompensates
<1>5. CASE Continue
  <2>1. token' = None /\ AutoFetch(user, None, mints)
    BY <1>5 DEF Continue
  <2>2. mints >= -1 /\ (inFlight # None => mints >= 0)
    BY DEF Compensated
  <2> QED  BY <1>1, <2>1, <2>2, AutoFetchCompensates
<1>6. ASSUME UNCHANGED <<token, calls, inFlight, mints>> PROVE Compensated'
  BY <1>6 DEF Compensated
<1>7. \A verb \in {"hydrate", "reset", "convert", "fetch"} : ~Uses(verb)
  BY DEF Plain, Uses
<1> QED  BY <1>3, <1>4, <1>5, <1>6, <1>7, ProgressCompensates
         DEF Next, HydrateFrom, Reset, Convert, FetchClientContext, ServerMoves, vars, loading

\* What every app's client keeps.
ClientInv ==
  /\ HeldTypes /\ FetchInv
  /\ IF Plain THEN PlainInv /\ RetryIsOwn /\ Compensated ELSE mints = 0

LEMMA ClientStarts ==
  ASSUME Init
  PROVE  ClientInv
<1>1. CASE Plain
  <2>1. mints \in {0, 1} /\ token = None
    BY <1>1 DEF Init, Counted
  <2>2. \A s \in Slots : calls[s].phase = "reminting" => token = None
    BY <2>1
  <2>3. Compensated
    BY <2>1, <2>2 DEF Compensated
  <2> QED  BY <1>1, <2>3, StartFits, PlainStarts, RetryStarts DEF ClientInv
<1>2. CASE ~Plain
  <2>1. mints = 0
    BY <1>2 DEF Init, Counted
  <2> QED  BY <1>2, <2>1, StartFits DEF ClientInv
<1> QED  BY <1>1, <1>2

LEMMA ClientKeeps ==
  ASSUME ClientInv, [Next]_vars
  PROVE  ClientInv'
<1>1. HeldTypes' /\ FetchInv'
  BY HeldKeeps, StepFits DEF ClientInv
<1>2. Plain' <=> Plain
  BY VerbsAreFixed DEF Plain
<1>3. CASE Plain
  BY <1>1, <1>2, <1>3, PlainKeeps, RetryKeeps, StepCompensates DEF ClientInv
<1>4. CASE ~Plain
  BY <1>1, <1>2, <1>4, NoneCounted DEF ClientInv
<1> QED  BY <1>3, <1>4

----------------------------------------------------------------------------
(* Theorems                                                                *)

\* The client's state and its fetches stay well-formed under any of the app's verbs
\* between any two awaits: the automatic fetch is one under way, finds a slot
\* whenever it is to start, and never owes or gains more than a mint.
THEOREM TypeCorrect ==
  Spec => []TypeOK
<1>1. ClientInv => TypeOK
  <2>1. (HeldTypes /\ FetchInv) => (mints \in -1 .. 2 => TypeOK)
    BY DEF HeldTypes, FetchInv, LoadTypes, SlotKept, AnyPlan, Call, TypeOK
  <2>2. ClientInv => mints \in -1 .. 2
    BY DEF ClientInv, PlainInv, PlainTypes, Compensated
  <2> QED  BY <2>1, <2>2 DEF ClientInv
<1>2. Init => ClientInv
  BY ClientStarts
<1>3. ClientInv /\ [Next]_vars => ClientInv'
  BY ClientKeeps
<1> QED  BY <1>1, <1>2, <1>3, PTL DEF Spec

\* The optimistic plan a conversion waits for is the held user's, whatever the
\* app does between its awaits.
THEOREM ConversionsAreOwn ==
  Spec => []ConversionIsOwn
<1>1. Inv => ConversionIsOwn
  BY DEF Inv, ConversionHeld, ConversionIsOwn
<1> QED  BY <1>1, Invariance, PTL

\* The client of an app that leaves the fetching to the SDK holds a token of
\* someone else's only while what replaces it is on its way.
THEOREM TokensAreReplaced ==
  Spec => []TokenIsOwnOrReplaced
<1>1. Inv => TokenIsOwnOrReplaced
  BY DEF Inv, PlainInv, TokenReplaced, Flagged, TokenIsOwnOrReplaced
<1> QED  BY <1>1, Invariance, PTL

\* Such an app mints once for each user, but for tokens that were lost.
THEOREM OneMint ==
  Spec => []OneMintPerUser
<1>1. Inv => OneMintPerUser
  BY DEF Inv, PlainInv, OneMintPerUser
<1> QED  BY <1>1, Invariance, PTL

\* Answers reach such an app in the order the server gave them: nobody whose plan
\* came from the server is put back on an older one.
THEOREM PlansArriveInOrder ==
  Spec => DeliveriesInOrder
<1>1. Inv /\ [Next]_vars
        => [Plain /\ plan'.version > 0 /\ plan'.owner = plan.owner
              => plan'.version >= plan.version]_vars
  BY StepKeepsOrder DEF Inv
<1> QED  BY <1>1, Invariance, PTL DEF Spec, DeliveriesInOrder

=============================================================================
