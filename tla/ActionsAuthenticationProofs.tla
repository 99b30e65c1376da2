--------------------- MODULE ActionsAuthenticationProofs ---------------------
(***************************************************************************)
(* Theorems of ActionsAuthentication, for every set of requests, refreshes,*)
(* tokens, keys, names and rows, and all time limits.                      *)
(***************************************************************************)
EXTENDS ActionsAuthentication, TLAPS

Request ==
  [pc : {"none", "keys", "load", "ask", "confirm", "consume",
         "authorized", "rejected", "unknown_key"},
   token : Tokens \cup {None}, now : 0 .. MaxTime,
   binding : Bindings \cup {None}, name : Names \cup {None},
   fetched : 0 .. MaxTime, agreed : BOOLEAN, confirmed : Bindings \cup {None}]

Row ==
  [state : RowStates, binding : Bindings, name : Names, verified : 0 .. MaxTime,
   etag : Repositories \cup {None}, reconciled : 0 .. MaxTime, restamped : BOOLEAN]

Refreshing ==
  [pc : {"none", "etag", "rows", "list", "write", "done"}, at : 0 .. MaxTime,
   installation : Installations \cup {None}, etag : Repositories \cup {None},
   cached : [name : Names, state : {"active", "disabled"}] \cup {None},
   answer : Repositories \cup {None}]

Verified == {"load", "ask", "confirm", "consume", "authorized"}
Loaded == {"ask", "confirm", "consume", "authorized"}
Answered == {"confirm", "consume", "authorized"}

(***************************************************************************)
(* What is known of a request at each of its steps.  The token says what   *)
(* GitHub says only if it has done so since the request began, and the     *)
(* name that will be stored is one GitHub had at that time or later.       *)
(***************************************************************************)
RowOK(row) ==
  /\ row.pc # "none" => row.token \in Tokens
  /\ row.now <= clock
  /\ row.token \in Tokens /\ Says(live, row.token) => row.agreed
  /\ row.pc \in Answered => row.agreed
  /\ row.pc \in {"consume", "authorized"} => row.confirmed = row.binding
  /\ row.pc \in Loaded => row.binding \in Bindings /\ row.binding.owner = row.token.owner
  /\ row.pc = "confirm" => row.name \in Names /\ seen[row.name] >= row.now
  /\ row.pc \in Verified => row.fetched + Lifetime > row.now
  /\ row.pc = "unknown_key" => row.fetched + Cooldown > row.now

RequestsOK == \A r \in Requests : RowOK(requests[r])

(***************************************************************************)
(* A refresh that is about to write has heard from GitHub after its start: *)
(* the name in the listing, or that the listing of its ETag still holds.   *)
(***************************************************************************)
RefreshOK(refresh) ==
  /\ refresh.at <= clock
  /\ refresh.pc \in {"etag", "rows", "list"} => refresh.answer = None
  /\ refresh.pc = "write" /\ refresh.answer # None => seen[refresh.answer.name] >= refresh.at
  /\ refresh.pc = "write" /\ refresh.answer = None =>
       refresh.etag # None /\ seen[refresh.etag.name] >= refresh.at

RefreshesOK == \A p \in Refreshes : RefreshOK(refreshes[p])

(***************************************************************************)
(* The cache promises its keys no longer than they may be used, and waits  *)
(* no longer than the cooldown, counted from the time of the fetch.        *)
(***************************************************************************)
CacheOK ==
  /\ jwks.expires <= jwks.fetched + Lifetime
  /\ jwks.cooling <= jwks.fetched + Cooldown

NamesSeen ==
  /\ seen[live.name] = clock
  /\ \A n \in Names : seen[n] <= clock

Inv == TypeOK /\ RequestsOK /\ RefreshesOK /\ CacheOK /\ NamesSeen

-----------------------------------------------------------------------------
LEMMA Bounds ==
  /\ Skew \in Nat /\ MaxTime \in Nat /\ MaxChanges \in Nat
  /\ Lifetime \in Nat /\ Lifetime > 0 /\ Cooldown \in Nat /\ Cooldown > 0
BY AuthenticationAssumption

LEMMA NoRequestTypes == NoRequest \in Request
BY Bounds DEF NoRequest, Request

LEMMA Typed ==
  ASSUME TypeOK
  PROVE  /\ requests \in [Requests -> Request]
         /\ scope \in Row
         /\ refreshes \in [Refreshes -> Refreshing]
BY DEF TypeOK, Request, Row, Refreshing

LEMMA NoneIsNoListing == None \notin Repositories
BY AuthenticationAssumption DEF Repositories

LEMMA NoRefreshTypes == NoRefresh \in Refreshing
BY Bounds DEF NoRefresh, Refreshing

(***************************************************************************)
(* Writing one request that is as it should be keeps all of them so.       *)
(***************************************************************************)
LEMMA Moved ==
  ASSUME Inv, NEW r \in Requests, NEW next \in Request, RowOK(next), Move(r, next),
         UNCHANGED <<clock, world>>
  PROVE  /\ requests' \in [Requests -> Request]
         /\ RequestsOK'
         /\ NamesSeen'
<1>1. requests' \in [Requests -> Request]
  BY Typed DEF Inv, Move
<1>2. \A s \in Requests : RowOK(requests'[s])
  BY Typed DEF Inv, Move, RequestsOK
<1>3. ASSUME NEW row, RowOK(row) PROVE RowOK(row)'
  BY <1>3 DEF world, RowOK, Says
<1>4. RequestsOK'
  BY <1>2 DEF world, RequestsOK, RowOK, Says
<1> QED
  BY <1>1, <1>4 DEF Inv, NamesSeen, world

(***************************************************************************)
(* Time and GitHub go on, and what a refresh has heard stays true.         *)
(***************************************************************************)
LEMMA RefreshesKept ==
  ASSUME Inv, refreshes' = refreshes, clock' \in Nat, clock' >= clock,
         \A n \in Names : seen'[n] \in Nat /\ seen'[n] >= seen[n]
  PROVE  RefreshesOK'
<1> SUFFICES ASSUME NEW p \in Refreshes PROVE RefreshOK(refreshes[p])'
  BY DEF RefreshesOK
<1>1. refreshes[p] \in Refreshing /\ RefreshOK(refreshes[p])
  BY Typed DEF Inv, RefreshesOK
<1>2. /\ clock \in Nat /\ refreshes[p].at \in Nat
      /\ \A n \in Names : seen[n] \in Nat
  BY <1>1, Bounds DEF Inv, TypeOK, Refreshing
<1>3. /\ refreshes[p].answer # None => refreshes[p].answer.name \in Names
      /\ refreshes[p].etag # None => refreshes[p].etag.name \in Names
  BY <1>1 DEF Refreshing, Repositories
<1> QED
  BY <1>1, <1>2, <1>3 DEF RefreshOK

LEMMA InvInit == Init => Inv
<1> SUFFICES ASSUME Init PROVE Inv
  OBVIOUS
<1>1. TypeOK
  <2>1. requests \in [Requests -> Request]
    BY NoRequestTypes DEF Init
  <2>2. scope \in Row
    <3>1. scope \in [state : {"active"}, binding : {b \in Bindings : b.owner = live.owner},
                     name : {live.name}, verified : {0},
                     etag : {l \in Repositories : l.usable /\ l.owner = live.owner} \cup {None},
                     reconciled : {0}, restamped : {FALSE}]
      BY DEF Init
    <3>2. live.name \in Names /\ 0 \in 0 .. MaxTime
      BY Bounds DEF Init, Repositories
    <3> QED
      BY <3>1, <3>2 DEF Row, RowStates
  <2>3. refreshes \in [Refreshes -> Refreshing]
    BY NoRefreshTypes DEF Init
  <2> QED
    BY <2>1, <2>2, <2>3, Bounds DEF Init, TypeOK, Request, Row, Refreshing, NoKeys
<1>2. RequestsOK
  BY AuthenticationAssumption DEF Init, RequestsOK, RowOK, NoRequest, Answered, Loaded, Verified
<1>3. CacheOK
  BY Bounds DEF Init, CacheOK, NoKeys
<1>4. NamesSeen
  BY DEF Init, NamesSeen, Repositories
<1>5. RefreshesOK
  BY DEF Init, RefreshesOK, RefreshOK, NoRefresh
<1> QED
  BY <1>1, <1>2, <1>3, <1>4, <1>5 DEF Inv

(***************************************************************************)
(* A step of a request that changes neither the clock nor the world nor    *)
(* the cached keys.                                                        *)
(***************************************************************************)
LEMMA InvMove ==
  ASSUME Inv, NEW r \in Requests, NEW next \in Request, RowOK(next), Move(r, next),
         UNCHANGED <<clock, world, jwks, refreshes>>,
         used' \subseteq Tokens,
         scope' \in Row
  PROVE  Inv'
<1>1. requests' \in [Requests -> Request] /\ RequestsOK' /\ NamesSeen'
  BY Moved
<1>2. CacheOK'
  BY DEF Inv, CacheOK
<1>3. TypeOK'
  BY <1>1 DEF Inv, TypeOK, Request, Row, world
<1>4. RefreshesOK'
  BY DEF Inv, RefreshesOK, RefreshOK, world
<1> QED
  BY <1>1, <1>2, <1>3, <1>4 DEF Inv

LEMMA InvHandle ==
  ASSUME Inv, NEW r \in Requests, Handle(r)
  PROVE  Inv'
<1> DEFINE row == requests[r]
<1>0. row \in Request /\ RowOK(row) /\ clock \in 0 .. MaxTime /\ clock \in Nat
  BY Typed, Bounds DEF Inv, RequestsOK, TypeOK
<1>s. scope \in Row /\ used \subseteq Tokens /\ live \in Repositories
  BY Typed DEF Inv, TypeOK
<1>r. /\ Goto(r, "rejected") \in Request
      /\ row.pc # "none" => RowOK(Goto(r, "rejected"))
  BY <1>0 DEF Goto, Request, RowOK, Answered, Loaded, Verified
<1>1. ASSUME NEW token \in Tokens, Receive(r, token) PROVE Inv'
  <2>1. ASSUME NEW b \in BOOLEAN
        PROVE  [NoRequest EXCEPT !.pc = "keys", !.token = token, !.now = clock, !.agreed = b] \in Request
    <3>1. 0 \in 0 .. MaxTime
      BY Bounds
    <3> QED
      BY <1>0, <3>1, NoRequestTypes DEF Request
  <2>2. Says(live, token) \in BOOLEAN
    BY DEF Says
  <2> DEFINE next == [NoRequest EXCEPT
                        !.pc = "keys", !.token = token, !.now = clock, !.agreed = Says(live, token)]
  <2>3. RowOK(next)
    BY <1>0 DEF RowOK, NoRequest, Answered, Loaded, Verified
  <2>4. next \in Request
    BY <2>1, <2>2
  <2> QED
    BY <1>1, <1>s, <2>3, <2>4, InvMove DEF Receive
<1>2. CASE KeysFromCache(r)
  <2> DEFINE next == Authenticated(r, jwks.keys, jwks.fetched)
  <2>1. jwks.expires \in Nat /\ jwks.cooling \in Nat /\ jwks.fetched \in 0 .. MaxTime /\ row.now \in Nat
    BY <1>0 DEF Inv, TypeOK, CacheOK, Request
  <2>2. jwks.fetched + Lifetime > row.now
    BY <1>2, <2>1, Bounds DEF KeysFromCache, CacheServes, Inv, CacheOK
  <2>3. row.token.kid \notin jwks.keys => jwks.fetched + Cooldown > row.now
    BY <1>2, <2>1, Bounds DEF KeysFromCache, CacheServes, Inv, CacheOK
  <2>4. next \in Request
    BY <1>0, <2>1 DEF Authenticated, Request
  <2>5. RowOK(next)
    BY <1>0, <1>2, <2>1, <2>2, <2>3
    DEF RowOK, Authenticated, KeysFromCache, Request, Answered, Loaded, Verified
  <2> QED
    BY <1>2, <1>s, <2>4, <2>5, InvMove DEF KeysFromCache
<1>3. CASE KeysFromGithub(r)
  <2> DEFINE next == Authenticated(r, published, clock)
  <2>1. row.now \in Nat /\ row.now <= clock
    BY <1>0, Bounds DEF RowOK, Request
  <2>2. clock + Lifetime > row.now /\ clock + Cooldown > row.now
    BY <1>0, <2>1, Bounds
  <2>3. next \in Request
    BY <1>0 DEF Authenticated, Request
  <2>4. RowOK(next)
    BY <1>0, <1>3, <2>2
    DEF RowOK, Authenticated, KeysFromGithub, Request, Answered, Loaded, Verified
  <2>5. CoolingUntil(row.now, row.token.kid) \in Nat
    BY <2>1, Bounds DEF CoolingUntil
  <2>6. CoolingUntil(row.now, row.token.kid) <= clock + Cooldown
    BY <1>0, <2>1, Bounds DEF CoolingUntil
  <2>7. CacheOK'
    BY <1>0, <1>3, <2>1, <2>6, Bounds DEF KeysFromGithub, CacheOK
  <2>8. requests' \in [Requests -> Request] /\ RequestsOK' /\ NamesSeen'
    BY <1>3, <2>3, <2>4, Moved DEF KeysFromGithub
  <2>9. jwks' \in [keys : SUBSET Keys, expires : Nat, fetched : 0 .. MaxTime, cooling : Nat]
    BY <1>0, <1>3, <2>1, <2>5, Bounds DEF KeysFromGithub, Inv, TypeOK
  <2>10. RefreshesOK'
    BY <1>3 DEF KeysFromGithub, Inv, RefreshesOK, RefreshOK, world
  <2> QED
    BY <1>3, <2>7, <2>8, <2>9, <2>10 DEF KeysFromGithub, Inv, TypeOK, Request, world
<1>4. CASE Load(r)
  <2> DEFINE next == [Goto(r, "ask") EXCEPT !.binding = scope.binding]
  <2>1. next \in Request
    BY <1>0, <1>s DEF Goto, Request, Row
  <2>2. RowOK(next)
    BY <1>0, <1>4, <1>s DEF RowOK, Load, Goto, Request, Row, Answered, Loaded, Verified
  <2> QED
    BY <1>4, <1>s, <2>1, <2>2, InvMove DEF Load
<1>5. CASE Ask(r)
  <2>1. CASE Says(live, row.token)
    <3> DEFINE next == [Goto(r, "confirm") EXCEPT !.name = live.name]
    <3>1. row.token \in Tokens
      BY <1>0, <1>5 DEF Ask, RowOK
    <3>2. next \in Request
      BY <1>0, <1>s DEF Goto, Request, Repositories
    <3>3. seen[live.name] >= row.now /\ live.name \in Names
      BY <1>0, <1>s, Bounds DEF Inv, NamesSeen, RowOK, Repositories, Request
    <3>4. RowOK(next)
      BY <1>0, <1>5, <2>1, <3>1, <3>3 DEF RowOK, Ask, Goto, Request, Answered, Loaded, Verified
    <3> QED
      BY <1>5, <1>s, <2>1, <3>2, <3>4, InvMove DEF Ask, Answer, SnapshotName
  <2>2. CASE ~Says(live, row.token)
    BY <1>5, <1>s, <2>2, <1>r, InvMove DEF Ask, Answer
  <2> QED
    BY <2>1, <2>2
<1>6. CASE Confirm(r)
  <2> DEFINE new == [scope EXCEPT !.name = row.name, !.verified = row.now, !.restamped = FALSE]
             next == [Goto(r, "consume") EXCEPT !.confirmed = scope.binding]
  <2>1. row.name \in Names /\ row.now \in 0 .. MaxTime
    BY <1>0, <1>6 DEF Confirm, RowOK, Request
  <2>2. new \in Row
    BY <1>s, <2>1 DEF Row
  <2>3. next \in Request /\ RowOK(next)
    BY <1>0, <1>6, <1>s DEF Confirm, Goto, Request, Row, RowOK, Answered, Loaded, Verified
  <2> QED
    BY <1>6, <1>s, <2>2, <2>3, InvMove DEF Confirm, VerifiedAt
<1>7. CASE Consume(r)
  <2>1. row.token \in Tokens
    BY <1>0, <1>7 DEF Consume, RowOK
  <2>2. Goto(r, "authorized") \in Request /\ RowOK(Goto(r, "authorized"))
    BY <1>0, <1>7 DEF Consume, Goto, Request, RowOK, Answered, Loaded, Verified
  <2> QED
    BY <1>7, <1>s, <2>1, <2>2, InvMove DEF Consume
<1>8. CASE LoadNothing(r) \/ ConfirmStale(r) \/ ConsumeReplayed(r) \/ Abandon(r)
  BY <1>8, <1>s, <1>r, InvMove DEF LoadNothing, ConfirmStale, ConsumeReplayed, Abandon
<1> QED
  BY <1>1, <1>2, <1>3, <1>4, <1>5, <1>6, <1>7, <1>8 DEF Handle

(***************************************************************************)
(* A request that is dropped stays as it should be.                        *)
(***************************************************************************)
LEMMA InvRestart == Inv /\ Restart => Inv'
<1> SUFFICES ASSUME Inv, Restart PROVE Inv'
  OBVIOUS
<1>1. ASSUME NEW r \in Requests
      PROVE  requests'[r] \in Request /\ RowOK(requests'[r])
  <2>1. requests[r] \in Request /\ RowOK(requests[r])
    BY Typed DEF Inv, RequestsOK
  <2>2. requests'[r] = requests[r] \/ (requests[r].pc # "none" /\ requests'[r] = Goto(r, "rejected"))
    BY DEF Restart
  <2> QED
    BY <2>1, <2>2 DEF Goto, Request, RowOK, Answered, Loaded, Verified
<1>2. requests' \in [Requests -> Request]
  <2>1. \E F : requests' = [r \in Requests |-> F[r]]
    BY DEF Restart
  <2> QED
    BY <1>1, <2>1
<1>3. RequestsOK'
  BY <1>1 DEF Restart, RequestsOK, RowOK, Says
<1>4. jwks' \in [keys : SUBSET Keys, expires : Nat, fetched : 0 .. MaxTime, cooling : Nat] /\ CacheOK'
  BY Bounds DEF Restart, NoKeys, CacheOK
<1>5. changes' \in 0 .. MaxChanges
  BY Bounds DEF Restart, Change, Inv, TypeOK
<1>6. RefreshesOK'
  BY DEF Restart, Inv, RefreshesOK, RefreshOK
<1> QED
  BY <1>2, <1>3, <1>4, <1>5, <1>6 DEF Restart, Inv, TypeOK, Request, NamesSeen

(***************************************************************************)
(* A step of a refresh that leaves the refresh and the row as they should  *)
(* be keeps everything so.                                                 *)
(***************************************************************************)
LEMMA RefreshMoved ==
  ASSUME Inv, NEW p \in Refreshes, NEW next \in Refreshing, RefreshTo(p, next), RefreshOK(next),
         changes' \in 0 .. MaxChanges, scope' \in Row
  PROVE  Inv'
<1>1. refreshes' \in [Refreshes -> Refreshing]
  BY Typed DEF Inv, RefreshTo
<1>2. \A q \in Refreshes : RefreshOK(refreshes'[q])
  BY Typed DEF Inv, RefreshTo, RefreshesOK
<1>3. UNCHANGED <<clock, published, live, seen, jwks, used, requests>>
  BY DEF RefreshTo
<1>4. RefreshesOK'
  BY <1>2, <1>3 DEF RefreshesOK, RefreshOK
<1> QED
  BY <1>1, <1>3, <1>4 DEF Inv, TypeOK, Row, Refreshing, RequestsOK, RowOK, Says, CacheOK, NamesSeen

(***************************************************************************)
(* What a refresh writes.                                                  *)
(***************************************************************************)
LEMMA NamedTypes ==
  ASSUME scope \in Row, NEW p \in Refreshes, refreshes[p] \in Refreshing,
         NEW name \in Names, NEW state \in RowStates
  PROVE  /\ Named(p, name, state) \in Row
         /\ Named(p, name, state).name = name
         /\ Named(p, name, state).verified = refreshes[p].at
         /\ Named(p, name, state).restamped =
              (refreshes[p].answer = None /\ name # refreshes[p].etag.name)
BY DEF Named, Row, Refreshing

LEMMA ProjectedTypes ==
  ASSUME Inv, NEW p \in Refreshes, refreshes[p].pc = "write", NEW row \in Projected(p)
  PROVE  /\ row \in Row
         /\ \/ row = [scope EXCEPT !.state = "removed"]
            \/ /\ row.verified = refreshes[p].at
               /\ ~row.restamped => seen[row.name] >= row.verified
<1> DEFINE refresh == refreshes[p]
<1>1. scope \in Row /\ refresh \in Refreshing /\ RefreshOK(refresh)
  BY Typed DEF Inv, RefreshesOK
<1>2. [scope EXCEPT !.state = "removed"] \in Row
  BY <1>1 DEF Row, RowStates
<1>3. CASE refresh.answer = None
  <2>1. CASE refresh.cached = None
    BY <1>2, <1>3, <2>1 DEF Projected
  <2>2. CASE refresh.cached # None
    <3>1. row = Named(p, refresh.cached.name, refresh.cached.state)
      BY <1>3, <2>2 DEF Projected
    <3>2. refresh.cached.name \in Names /\ refresh.cached.state \in RowStates
      BY <1>1, <2>2 DEF Refreshing, RowStates
    <3>3. seen[refresh.etag.name] >= refresh.at
      BY <1>1, <1>3 DEF RefreshOK
    <3>4. /\ row \in Row /\ row.name = refresh.cached.name /\ row.verified = refresh.at
          /\ row.restamped = (refresh.answer = None /\ row.name # refresh.etag.name)
      BY <1>1, <3>1, <3>2, NamedTypes
    <3> QED
      BY <1>3, <3>3, <3>4
  <2> QED
    BY <2>1, <2>2
<1>4. CASE refresh.answer # None
  <2>1. row = [scope EXCEPT !.state = "removed"]
          \/ \E state \in RowStates : row = Named(p, refresh.answer.name, state)
    <3>1. Projected(p) \subseteq
            {Named(p, refresh.answer.name, "active"), Named(p, refresh.answer.name, "disabled"),
             [scope EXCEPT !.state = "removed"]}
      BY <1>4 DEF Projected
    <3> QED
      BY <3>1 DEF RowStates
  <2>2. CASE row = [scope EXCEPT !.state = "removed"]
    BY <1>2, <2>2
  <2>3. ASSUME NEW state \in RowStates, row = Named(p, refresh.answer.name, state)
        PROVE  row \in Row /\ row.verified = refresh.at /\ seen[row.name] >= row.verified
    <3>1. refresh.answer.name \in Names
      BY <1>1, <1>4 DEF Refreshing, Repositories
    <3>2. row \in Row /\ row.name = refresh.answer.name /\ row.verified = refresh.at
      BY <1>1, <2>3, <3>1, NamedTypes
    <3> QED
      BY <1>1, <1>4, <3>2 DEF RefreshOK
  <2> QED
    BY <2>1, <2>2, <2>3
<1> QED
  BY <1>3, <1>4

LEMMA InvRefresh ==
  ASSUME Inv, NEW p \in Refreshes, Refresh(p)
  PROVE  Inv'
<1> DEFINE refresh == refreshes[p]
<1>0. /\ refresh \in Refreshing /\ RefreshOK(refresh) /\ scope \in Row
      /\ live \in Repositories /\ clock \in 0 .. MaxTime /\ clock \in Nat
      /\ changes \in 0 .. MaxChanges
      /\ seen[live.name] = clock
  BY Typed, Bounds DEF Inv, RefreshesOK, TypeOK, NamesSeen
<1>1. CASE StartRefresh(p)
  <2> DEFINE next == [NoRefresh EXCEPT !.pc = "etag", !.at = clock,
                                       !.installation = scope.binding.installation]
  <2>1. scope.binding.installation \in Installations
    BY <1>0 DEF Row, Installations
  <2>2. next \in Refreshing
    BY <1>0, <2>1, NoRefreshTypes DEF Refreshing
  <2>3. next.pc = "etag" /\ next.at = clock /\ next.answer = None
    BY NoRefreshTypes DEF NoRefresh, Refreshing
  <2>4. RefreshOK(next)
    BY <1>0, <2>3 DEF RefreshOK
  <2>5. changes' \in 0 .. MaxChanges
    BY <1>0, <1>1, Bounds DEF StartRefresh, Change
  <2> QED
    BY <1>0, <1>1, <2>2, <2>4, <2>5, RefreshMoved DEF StartRefresh
<1>2. CASE ReadETag(p)
  <2> DEFINE next == [refresh EXCEPT !.pc = "rows", !.etag = scope.etag]
  <2>1. next \in Refreshing /\ RefreshOK(next)
    BY <1>0, <1>2 DEF Refreshing, Row, RefreshOK, ReadETag
  <2> QED
    BY <1>0, <1>2, <2>1, RefreshMoved DEF ReadETag
<1>3. CASE ReadRow(p)
  <2> DEFINE cached == IF refresh.etag = None THEN None ELSE CachedRow
             next == [refresh EXCEPT !.pc = "list", !.cached = cached]
  <2>1. cached \in [name : Names, state : {"active", "disabled"}] \cup {None}
    BY <1>0 DEF CachedRow, Row
  <2>2. next \in Refreshing
    BY <1>0, <2>1 DEF Refreshing
  <2>3. next.pc = "list" /\ next.at = refresh.at /\ next.answer = refresh.answer
    BY <1>0 DEF Refreshing
  <2>4. RefreshOK(next)
    BY <1>0, <1>3, <2>3 DEF RefreshOK, ReadRow
  <2>5. RefreshTo(p, next) /\ UNCHANGED <<scope, changes>>
    BY <1>3 DEF ReadRow
  <2> QED
    BY <1>0, <2>2, <2>4, <2>5, RefreshMoved
<1>4. CASE ListFully(p)
  <2>1. PICK etag \in {live, None} :
          RefreshTo(p, [refresh EXCEPT !.pc = "write", !.answer = live, !.etag = etag,
                                       !.cached = None])
    BY <1>4 DEF ListFully
  <2> DEFINE next == [refresh EXCEPT !.pc = "write", !.answer = live, !.etag = etag, !.cached = None]
  <2>2. next \in Refreshing
    BY <1>0 DEF Refreshing
  <2>3. next.pc = "write" /\ next.answer = live /\ next.at = refresh.at
    BY <1>0 DEF Refreshing
  <2>4. RefreshOK(next)
    BY <1>0, <2>3, NoneIsNoListing DEF RefreshOK
  <2>5. UNCHANGED <<scope, changes>>
    BY <1>4 DEF ListFully
  <2> QED
    BY <1>0, <2>1, <2>2, <2>4, <2>5, RefreshMoved
<1>5. CASE ListNotModified(p)
  <2> DEFINE next == [refresh EXCEPT !.pc = "write"]
  <2>1. next \in Refreshing
    BY <1>0 DEF Refreshing
  <2>2. next.pc = "write" /\ next.answer = refresh.answer /\ next.at = refresh.at /\ next.etag = live
    BY <1>0, <1>5 DEF Refreshing, ListNotModified
  <2>3. next.answer = None
    BY <1>0, <1>5, <2>2 DEF RefreshOK, ListNotModified
  <2>4. RefreshOK(next)
    BY <1>0, <2>2, <2>3, NoneIsNoListing DEF RefreshOK
  <2> QED
    BY <1>0, <1>5, <2>1, <2>4, RefreshMoved DEF ListNotModified
<1>6. CASE WriteRefresh(p) \/ SkipRefresh(p)
  <2>1. NoRefresh.at = 0 /\ [NoRefresh EXCEPT !.pc = "done"] \in Refreshing
    BY NoRefreshTypes DEF NoRefresh, Refreshing
  <2>2. RefreshOK([NoRefresh EXCEPT !.pc = "done"])
    BY <1>0 DEF RefreshOK, NoRefresh
  <2>3. scope' \in Row
    <3>1. CASE SkipRefresh(p)
      BY <1>0, <3>1 DEF SkipRefresh
    <3>2. CASE WriteRefresh(p)
      <4>1. PICK row \in Projected(p), suspended \in BOOLEAN :
              scope' = [row EXCEPT
                !.state = IF suspended /\ @ = "active" THEN "disabled" ELSE @,
                !.etag = IF suspended THEN None ELSE refresh.etag,
                !.reconciled = refresh.at]
        BY <3>2 DEF WriteRefresh
      <4>2. row \in Row
        BY <3>2, ProjectedTypes DEF WriteRefresh
      <4> QED
        BY <1>0, <4>1, <4>2 DEF Row, RowStates, Refreshing
    <3> QED
      BY <1>6, <3>1, <3>2
  <2> QED
    BY <1>0, <1>6, <2>1, <2>2, <2>3, RefreshMoved DEF WriteRefresh, SkipRefresh
<1> QED
  BY <1>1, <1>2, <1>3, <1>4, <1>5, <1>6 DEF Refresh

(***************************************************************************)
(* Steps of the rest of the service and of GitHub.                         *)
(***************************************************************************)
LEMMA InvEnvironment == Inv /\ Environment => Inv'
<1> SUFFICES ASSUME Inv, Environment PROVE Inv'
  OBVIOUS
<1>0. /\ clock \in Nat /\ clock \in 0 .. MaxTime /\ live \in Repositories
      /\ requests \in [Requests -> Request]
      /\ seen \in [Names -> 0 .. MaxTime]
      /\ \A r \in Requests : requests[r].now \in Nat
  BY Typed, Bounds DEF Inv, TypeOK, Request
<1>1. Change => changes' \in 0 .. MaxChanges
  BY Bounds DEF Change, Inv, TypeOK
<1>2. CASE Deactivate \/ DeleteProject \/ \E binding \in Bindings : Rebind(binding)
  <2>0. scope \in Row
    BY Typed DEF Inv
  <2>1. scope' \in Row
    <3>1. CASE Deactivate
      <4>1. PICK state \in {"disabled", "removed"}, at \in scope.reconciled .. clock :
              scope' = [scope EXCEPT !.state = IF @ = "removed" THEN @ ELSE state,
                                     !.etag = None, !.reconciled = at]
        BY <3>1 DEF Deactivate
      <4>2. at \in 0 .. MaxTime
        BY <1>0, <2>0, Bounds DEF Row
      <4> QED
        BY <2>0, <4>1, <4>2 DEF Row, RowStates
    <3>2. CASE DeleteProject
      BY <2>0, <3>2 DEF DeleteProject, Row, RowStates
    <3>3. ASSUME NEW binding \in Bindings, Rebind(binding) PROVE scope' \in Row
      BY <1>0, <3>3 DEF Rebind, Repositories, Row, RowStates
    <3> QED
      BY <1>2, <3>1, <3>2, <3>3
  <2>2. UNCHANGED <<clock, published, live, seen, jwks, refreshes, used, requests>>
        /\ changes' \in 0 .. MaxChanges
    BY <1>1, <1>2 DEF Deactivate, DeleteProject, Rebind
  <2> QED
    BY <2>1, <2>2
    DEF Inv, TypeOK, Row, RequestsOK, RowOK, RefreshesOK, RefreshOK, Says, CacheOK, NamesSeen
<1>3. CASE \E k \in Keys : RotateKey(k)
  <2>1. UNCHANGED <<clock, live, seen, jwks, scope, refreshes, used, requests>>
    BY <1>3 DEF RotateKey
  <2>2. published' \in SUBSET Keys /\ changes' \in 0 .. MaxChanges
    BY <1>1, <1>3 DEF RotateKey
  <2> QED
    BY <2>1, <2>2
    DEF Inv, TypeOK, RequestsOK, RowOK, RefreshesOK, RefreshOK, Says, CacheOK, NamesSeen
<1>4. ASSUME NEW repository \in Repositories, GithubChanges(repository) PROVE Inv'
  <2>1. seen' \in [Names -> 0 .. MaxTime] /\ \A n \in Names : seen'[n] >= seen[n] /\ seen'[n] <= clock
    BY <1>0, <1>4 DEF GithubChanges, Inv, NamesSeen, Repositories
  <2>2. NamesSeen'
    BY <1>0, <1>4, <2>1 DEF GithubChanges, Repositories, NamesSeen
  <2>3. ASSUME NEW r \in Requests
        PROVE  requests'[r] \in Request /\ RowOK(requests[r])'
    <3>0. requests[r] \in Request /\ RowOK(requests[r])
      BY <1>0 DEF Inv, RequestsOK
    <3>1. CASE requests[r].token = None
      <4>1. requests'[r] = requests[r] /\ requests[r].token \notin Tokens
        BY <1>4, <3>1, AuthenticationAssumption DEF GithubChanges
      <4> QED
        BY <1>4, <2>1, <3>0, <4>1 DEF GithubChanges, RowOK, Answered, Loaded, Verified
    <3>2. CASE requests[r].token # None
      <4> DEFINE b == requests[r].agreed \/ Says(repository, requests[r].token)
      <4>1. requests'[r] = [requests[r] EXCEPT !.agreed = b]
        BY <1>4, <3>2 DEF GithubChanges
      <4>2. b \in BOOLEAN
        OBVIOUS
      <4>3. live' = repository /\ clock' = clock
        BY <1>4 DEF GithubChanges
      <4>4. requests[r].agreed => b
        OBVIOUS
      <4>5. Says(live, requests[r].token)' => b
        BY <4>1, <4>3, <3>0 DEF Says, Request
      <4> HIDE DEF b
      <4>6. requests'[r] \in Request
        BY <3>0, <4>1, <4>2 DEF Request
      <4>7. UNCHANGED clock /\ \A n \in Names : seen'[n] \in Nat /\ seen[n] \in Nat
        BY <1>0, <1>4, <2>1, Bounds DEF GithubChanges
      <4>8. RowOK(requests[r])'
        BY <1>0, <2>1, <3>0, <4>1, <4>2, <4>4, <4>5, <4>7 DEF RowOK, Request, Answered, Loaded, Verified
      <4> QED
        BY <4>6, <4>8
    <3> QED
      BY <3>1, <3>2
  <2>4. requests' \in [Requests -> Request]
    <3>1. requests' = [r \in Requests |-> requests'[r]]
      BY <1>4 DEF GithubChanges
    <3> QED
      BY <2>3, <3>1
  <2>5. changes' \in 0 .. MaxChanges /\ live' \in Repositories
    BY <1>1, <1>4 DEF GithubChanges
  <2>6. RefreshesOK'
    <3>1. \A n \in Names : seen'[n] \in Nat /\ seen'[n] >= seen[n]
      BY <2>1, Bounds
    <3>2. refreshes' = refreshes /\ clock' = clock
      BY <1>4 DEF GithubChanges
    <3> QED
      BY <1>0, <3>1, <3>2, RefreshesKept
  <2> QED
    BY <1>4, <2>1, <2>2, <2>3, <2>4, <2>5, <2>6
    DEF GithubChanges, Inv, TypeOK, Request, RequestsOK, CacheOK
<1>5. CASE Tick
  <2>1. clock' \in 0 .. MaxTime /\ clock' = clock + 1
    BY <1>0, <1>5, Bounds DEF Tick
  <2>2. seen' \in [Names -> 0 .. MaxTime] /\ \A n \in Names : seen'[n] >= seen[n] /\ seen'[n] <= clock'
    BY <1>0, <1>5, <2>1, Bounds DEF Tick, Inv, NamesSeen, Repositories
  <2>3. NamesSeen'
    BY <1>0, <1>5, <2>1, <2>2 DEF Tick, Repositories, NamesSeen
  <2>4. ASSUME NEW r \in Requests PROVE RowOK(requests[r])'
    <3>1. UNCHANGED <<live, requests>> /\ \A n \in Names : seen'[n] \in Nat /\ seen[n] \in Nat
      BY <1>0, <1>5, <2>2, Bounds DEF Tick
    <3> QED
      BY <1>0, <2>1, <2>2, <3>1 DEF Inv, RequestsOK, RowOK, Says, Request
  <2>5. RefreshesOK'
    <3>1. \A n \in Names : seen'[n] \in Nat /\ seen'[n] >= seen[n]
      BY <2>2, Bounds
    <3>2. refreshes' = refreshes /\ clock' \in Nat /\ clock' >= clock
      BY <1>0, <1>5, <2>1 DEF Tick
    <3> QED
      BY <3>1, <3>2, RefreshesKept
  <2> QED
    BY <1>5, <2>1, <2>2, <2>3, <2>4, <2>5 DEF Tick, Inv, TypeOK, RequestsOK, CacheOK
<1> QED
  BY <1>2, <1>3, <1>4, <1>5 DEF Environment

LEMMA InvNext == Inv /\ [Next]_vars => Inv'
<1>1. ASSUME Inv, UNCHANGED vars PROVE Inv'
  BY <1>1 DEF vars, world, Inv, TypeOK, RequestsOK, RowOK, RefreshesOK, RefreshOK, Says, CacheOK,
              NamesSeen
<1> QED
  BY <1>1, InvHandle, InvRefresh, InvRestart, InvEnvironment DEF Next

LEMMA InvAlways == Spec => []Inv
BY InvInit, InvNext, PTL DEF Spec

-----------------------------------------------------------------------------
(***************************************************************************)
(* Type correctness.                                                       *)
(***************************************************************************)
THEOREM TypeCorrect == Spec => []TypeOK
<1>1. Inv => TypeOK
  BY DEF Inv
<1> QED
  BY <1>1, InvAlways, PTL

(***************************************************************************)
(* An upload is authorized only if GitHub has said what its token says     *)
(* since the request began: Ask is the only way on, and a step of GitHub   *)
(* that makes the token true is noted in every request under way.          *)
(***************************************************************************)
THEOREM GithubVouches == Spec => []AuthorizedByGithub
<1>1. Inv => AuthorizedByGithub
  BY DEF Inv, RequestsOK, RowOK, AuthorizedByGithub, Answered, Loaded
<1> QED
  BY <1>1, InvAlways, PTL

(***************************************************************************)
(* The stored name was GitHub's at the time stored with it or later: the   *)
(* answer is taken after the time of the request or the refresh, and       *)
(* nothing that happens between the answer and the commit can make that    *)
(* untrue.  An ETag that still holds speaks for the name in its listing.   *)
(***************************************************************************)
StoredNameSeen == Inv /\ MetadataWasTrueWhenVerified

LEMMA StoredNameSeenInit == Init => StoredNameSeen
<1> SUFFICES ASSUME Init PROVE StoredNameSeen
  OBVIOUS
<1>1. Inv
  BY InvInit
<1>2. scope.name = live.name /\ scope.verified = 0 /\ clock = 0
  BY DEF Init
<1>3. MetadataWasTrueWhenVerified
  BY <1>1, <1>2 DEF Inv, NamesSeen, MetadataWasTrueWhenVerified
<1> QED
  BY <1>1, <1>3 DEF StoredNameSeen

LEMMA StoredNameSeenNext == StoredNameSeen /\ [Next]_vars => StoredNameSeen'
<1> SUFFICES ASSUME Inv, MetadataWasTrueWhenVerified, [Next]_vars
             PROVE  MetadataWasTrueWhenVerified'
  BY InvNext DEF StoredNameSeen
<1>r. scope \in Row
  BY Typed DEF Inv
<1>0. /\ scope.name \in Names /\ scope.verified \in Nat
      /\ live.name \in Names /\ clock \in Nat
      /\ ~scope.restamped => seen[scope.name] >= scope.verified
      /\ \A n \in Names : seen[n] \in Nat /\ seen[n] <= clock
  BY Bounds DEF Inv, TypeOK, Repositories, NamesSeen, MetadataWasTrueWhenVerified
<1>1. CASE UNCHANGED <<scope, seen>>
  BY <1>0, <1>1 DEF MetadataWasTrueWhenVerified
<1>2. ASSUME NEW r \in Requests, Confirm(r) PROVE MetadataWasTrueWhenVerified'
  <2>1. requests[r].pc = "confirm" => seen[requests[r].name] >= requests[r].now
    BY DEF Inv, RequestsOK, RowOK
  <2>2. scope'.name = requests[r].name /\ scope'.verified = requests[r].now
    BY <1>2 DEF Confirm, VerifiedAt, Inv, TypeOK
  <2> QED
    BY <1>2, <2>1, <2>2 DEF Confirm, world, MetadataWasTrueWhenVerified
<1>3. ASSUME NEW p \in Refreshes, WriteRefresh(p) PROVE MetadataWasTrueWhenVerified'
  <2>1. PICK row \in Projected(p), suspended \in BOOLEAN :
          scope' = [row EXCEPT
            !.state = IF suspended /\ @ = "active" THEN "disabled" ELSE @,
            !.etag = IF suspended THEN None ELSE refreshes[p].etag,
            !.reconciled = refreshes[p].at]
    BY <1>3 DEF WriteRefresh
  <2>2. /\ row \in Row
        /\ \/ row = [scope EXCEPT !.state = "removed"]
           \/ ~row.restamped => seen[row.name] >= row.verified
    BY <1>3, ProjectedTypes DEF WriteRefresh
  <2>3. ~row.restamped => seen[row.name] >= row.verified
    BY <1>r, <2>2 DEF Row, MetadataWasTrueWhenVerified
  <2>4. scope'.name = row.name /\ scope'.verified = row.verified /\ scope'.restamped = row.restamped
    BY <2>1, <2>2 DEF Row
  <2> QED
    BY <1>3, <2>3, <2>4 DEF WriteRefresh, RefreshTo, MetadataWasTrueWhenVerified
<1>4. CASE Deactivate \/ DeleteProject \/ \E binding \in Bindings : Rebind(binding)
  <2>1. CASE Deactivate \/ DeleteProject
    <3>1. UNCHANGED seen
      BY <2>1 DEF Deactivate, DeleteProject
    <3>2. \/ scope'.restamped = scope.restamped /\ scope'.name = scope.name
                /\ scope'.verified = scope.verified
      BY <1>r, <2>1 DEF Deactivate, DeleteProject, Row
    <3> QED
      BY <3>1, <3>2 DEF MetadataWasTrueWhenVerified
  <2>2. ASSUME NEW binding \in Bindings, Rebind(binding) PROVE MetadataWasTrueWhenVerified'
    <3>1. scope'.name = live.name /\ scope'.verified = clock /\ seen' = seen
      BY <2>2 DEF Rebind
    <3> QED
      BY <1>0, <3>1 DEF Inv, NamesSeen, MetadataWasTrueWhenVerified
  <2> QED
    BY <1>4, <2>1, <2>2
<1>5. ASSUME NEW repository \in Repositories, GithubChanges(repository)
      PROVE  MetadataWasTrueWhenVerified'
  <2>1. seen'[scope.name] >= seen[scope.name] /\ seen'[scope.name] \in Nat
    BY <1>0, <1>5 DEF GithubChanges, Inv, TypeOK, Repositories
  <2> QED
    BY <1>0, <1>5, <2>1 DEF GithubChanges, MetadataWasTrueWhenVerified
<1>6. CASE Tick
  <2>1. seen'[scope.name] >= seen[scope.name] /\ seen'[scope.name] \in Nat
    BY <1>0, <1>6 DEF Tick, Inv, TypeOK
  <2> QED
    BY <1>0, <1>6, <2>1 DEF Tick, MetadataWasTrueWhenVerified
<1>7. ASSUME NEW r \in Requests, Handle(r), ~Confirm(r) PROVE UNCHANGED <<scope, seen>>
  BY <1>7 DEF Handle, Receive, KeysFromCache, KeysFromGithub, Load, LoadNothing, Ask, ConfirmStale,
              Consume, ConsumeReplayed, Abandon, world
<1>8. ASSUME NEW p \in Refreshes, Refresh(p), ~WriteRefresh(p) PROVE UNCHANGED <<scope, seen>>
  BY <1>8 DEF Refresh, StartRefresh, ReadETag, ReadRow, ListFully, ListNotModified, SkipRefresh, RefreshTo
<1>9. CASE Restart \/ (\E k \in Keys : RotateKey(k)) \/ UNCHANGED vars
  BY <1>1, <1>9 DEF Restart, RotateKey, vars, world
<1> QED
  BY <1>1, <1>2, <1>3, <1>4, <1>5, <1>6, <1>7, <1>8, <1>9 DEF Next, Environment

(***************************************************************************)
(* GitHub has had the name in the row at the time it was verified or       *)
(* later, unless a refresh that was answered with 304 wrote another name   *)
(* than the one in the listing of its ETag.                                *)
(***************************************************************************)
THEOREM StoredNameWasTrue == Spec => []MetadataWasTrueWhenVerified
<1>1. StoredNameSeen => MetadataWasTrueWhenVerified
  BY DEF StoredNameSeen
<1> QED
  BY <1>1, StoredNameSeenInit, StoredNameSeenNext, PTL DEF Spec

(***************************************************************************)
(* No token is accepted with keys older than their lifetime.               *)
(***************************************************************************)
THEOREM AcceptedKeysAreRecent == Spec => []KeysAreRecent
<1>1. Inv => KeysAreRecent
  BY DEF Inv, RequestsOK, RowOK, KeysAreRecent, Verified
<1> QED
  BY <1>1, InvAlways, PTL

(***************************************************************************)
(* A key is called unknown only after a lookup, made in the request's own  *)
(* time or within the cooldown before it.                                  *)
(***************************************************************************)
THEOREM UnknownKeysAreLookedUp == Spec => []UnknownKeyWasLookedUp
<1>1. Inv => UnknownKeyWasLookedUp
  BY DEF Inv, RequestsOK, RowOK, UnknownKeyWasLookedUp
<1> QED
  BY <1>1, InvAlways, PTL

-----------------------------------------------------------------------------
(***************************************************************************)
(* A token authorizes one request at most: the one that inserted its       *)
(* digest.  Restarts and all other steps leave the table as it is.         *)
(***************************************************************************)
LEMMA OnceInit == Init => TokenAuthorizesOnce
BY DEF Init, NoRequest, TokenAuthorizesOnce

LEMMA OnceNext == Inv /\ TokenAuthorizesOnce /\ [Next]_vars => TokenAuthorizesOnce'
<1> SUFFICES ASSUME Inv, TokenAuthorizesOnce, [Next]_vars PROVE TokenAuthorizesOnce'
  OBVIOUS
<1>0. requests \in [Requests -> Request]
  BY Typed DEF Inv
<1> DEFINE Gained(r) == requests'[r].pc = "authorized" /\ requests[r].pc # "authorized"
           Kept == \A r \in Requests : requests'[r].pc = "authorized" =>
                      requests[r].pc = "authorized" /\ requests'[r].token = requests[r].token
<1>1. ASSUME Kept, used' = used PROVE TokenAuthorizesOnce'
  BY <1>1 DEF TokenAuthorizesOnce
<1>2. ASSUME NEW r \in Requests, NEW next, Move(r, next), next.pc # "authorized" PROVE Kept
  BY <1>0, <1>2 DEF Move
<1>3. ASSUME NEW r \in Requests, Handle(r), ~Consume(r) PROVE Kept /\ used' = used
  <2>1. used' = used
    BY <1>3 DEF Handle, Receive, KeysFromCache, KeysFromGithub, Load, LoadNothing, Ask, Confirm,
                ConfirmStale, ConsumeReplayed, Abandon
  <2>2. \E next : Move(r, next) /\ next.pc # "authorized"
    <3>1. \A pc : Goto(r, pc).pc = pc
      BY <1>0 DEF Goto, Request
    <3>2. \A keys, fetched : Authenticated(r, keys, fetched).pc # "authorized"
      BY <1>0 DEF Authenticated, Request
    <3>3. ASSUME NEW token \in Tokens, Receive(r, token)
          PROVE  \E next : Move(r, next) /\ next.pc # "authorized"
      <4> DEFINE next == [NoRequest EXCEPT !.pc = "keys", !.token = token, !.now = clock,
                                           !.agreed = Says(live, token)]
      <4>1. next.pc = "keys" /\ Move(r, next)
        BY <3>3, NoRequestTypes DEF Receive, Request
      <4> QED
        BY <4>1
    <3>4. CASE Load(r)
      <4> DEFINE next == [Goto(r, "ask") EXCEPT !.binding = scope.binding]
      <4>1. next.pc = "ask"
        BY <1>0 DEF Goto, Request
      <4>2. Move(r, next)
        BY <3>4 DEF Load
      <4> QED
        BY <4>1, <4>2
    <3>5. CASE Ask(r)
      <4> DEFINE next == [Goto(r, "confirm") EXCEPT !.name = SnapshotName(Answer)]
      <4>1. next.pc = "confirm"
        BY <1>0 DEF Goto, Request
      <4>2. Move(r, next) \/ Move(r, Goto(r, "rejected"))
        BY <3>5 DEF Ask
      <4> QED
        BY <3>1, <4>1, <4>2
    <3>6. CASE KeysFromCache(r) \/ KeysFromGithub(r)
      BY <3>2, <3>6 DEF KeysFromCache, KeysFromGithub
    <3>7. CASE LoadNothing(r) \/ Confirm(r) \/ ConfirmStale(r) \/ ConsumeReplayed(r) \/ Abandon(r)
      <4> DEFINE next == [Goto(r, "consume") EXCEPT !.confirmed = scope.binding]
      <4>1. next.pc = "consume"
        BY <1>0 DEF Goto, Request
      <4>2. Confirm(r) => Move(r, next)
        BY DEF Confirm
      <4> QED
        BY <3>1, <3>7, <4>1, <4>2 DEF LoadNothing, ConfirmStale, ConsumeReplayed, Abandon
    <3> QED
      BY <1>3, <3>3, <3>4, <3>5, <3>6, <3>7 DEF Handle
  <2> QED
    BY <1>2, <2>1, <2>2
<1>4. ASSUME NEW r \in Requests, Consume(r) PROVE TokenAuthorizesOnce'
  <2>1. used' = used \cup {requests[r].token} /\ requests[r].token \notin used
    BY <1>4 DEF Consume, Unused
  <2>2. \A s \in Requests : /\ requests'[s].token = requests[s].token
                            /\ s # r => requests'[s].pc = requests[s].pc
    BY <1>0, <1>4 DEF Consume, Move, Goto, Request
  <2> QED
    BY <2>1, <2>2 DEF TokenAuthorizesOnce
<1>5. CASE Restart
  <2>1. \A r \in Requests : requests'[r].pc = "authorized" => requests'[r] = requests[r]
    BY <1>0, <1>5 DEF Restart, Goto, Request
  <2> QED
    BY <1>1, <1>5, <2>1 DEF Restart
<1>6. CASE Environment
  <2>1. used' = used
    BY <1>6 DEF Environment, Deactivate, DeleteProject, Rebind, GithubChanges, RotateKey, Tick
  <2>2. \A r \in Requests : requests'[r].pc = requests[r].pc /\ requests'[r].token = requests[r].token
    <3>1. ASSUME NEW repository \in Repositories, GithubChanges(repository), NEW r \in Requests
          PROVE  requests'[r].pc = requests[r].pc /\ requests'[r].token = requests[r].token
      BY <1>0, <3>1 DEF GithubChanges, Request
    <3>2. requests' = requests \/ \E repository \in Repositories : GithubChanges(repository)
      BY <1>6 DEF Environment, Deactivate, DeleteProject, Rebind, RotateKey, Tick
    <3> QED
      BY <3>1, <3>2
  <2> QED
    BY <1>1, <2>1, <2>2
<1>7. CASE \E p \in Refreshes : Refresh(p)
  <2>1. UNCHANGED <<used, requests>>
    BY <1>7 DEF Refresh, StartRefresh, ReadETag, ReadRow, ListFully, ListNotModified, WriteRefresh,
                SkipRefresh, RefreshTo
  <2> QED
    BY <1>1, <2>1
<1>8. CASE UNCHANGED vars
  BY <1>1, <1>8 DEF vars
<1> QED
  BY <1>1, <1>3, <1>4, <1>5, <1>6, <1>7, <1>8 DEF Next

(***************************************************************************)
(* Of all requests that carry a token one at most is authorized: a token is  *)
(* used up when it authorizes, for good.                                   *)
(***************************************************************************)
THEOREM TokensAuthorizeOnce == Spec => []TokenAuthorizesOnce
BY OnceInit, OnceNext, InvAlways, PTL DEF Spec
=============================================================================
