---------------------- MODULE CoordinationStoreProofs ----------------------
(***************************************************************************)
(* Machine-checked proofs about the coordination store: CoordinationStore, *)
(* for any set of owners, resources and checkers, any TTLs and any bounds, *)
(* and StoreFile, for any processes, any number of statements in the       *)
(* schema, of copies kept, of rows, days and faults.                       *)
(*                                                                         *)
(* The invariants of CoordinationStore are about a table that is rewritten *)
(* row by row, so the proofs go through one predicate on tables, GoodRows, *)
(* and one lemma for each of the four updates saying that it keeps         *)
(* GoodRows and what becomes of a given row.  The checkers' local          *)
(* variables are tied to the table by CheckInv.  Their conjunction IInv is *)
(* inductive.                                                              *)
(*                                                                         *)
(* In StoreFile, that a fault costs one copy is not inductive as it        *)
(* stands: it has to be said of the first j copies for every j, and of the *)
(* rotation at every point of it.                                          *)
(***************************************************************************)
EXTENDS CoordinationStore, StoreFile, FiniteSetTheorems, TLAPS

(* A table the store can be in at time `now`: tokens are 1..n, one row per *)
(* token, an active row has token n, and expired rows are past.            *)
GoodRows(table, now) ==
  /\ table \subseteq Row
  /\ \E n \in Nat : /\ TokensIn(table) = 1 .. n
                    /\ \A row \in Active(table) : row.token = n
  /\ \A a, b \in table : a.token = b.token => a = b
  /\ \A row \in table : row.state = "expired" => row.expires_at <= now

(* What rewriting rows into new rows keeps: no token comes or goes, a row  *)
(* that is not active is not touched, an active one keeps owner and token. *)
Rewrites(table, new) ==
  /\ \A row \in table : \E now \in new : now.token = row.token /\ now.owner = row.owner
  /\ \A now \in new : \E row \in table : now.token = row.token /\ now.owner = row.owner
  /\ \A row \in table : row.state # "active" => row \in new
  /\ \A now \in Active(new) : \E row \in Active(table) : now.token = row.token

(* The number CurrentToken returns on a table whose tokens are 1..n is n.  *)
LEMMA CurrentTokenIs ==
  ASSUME NEW table, NEW n \in Nat, TokensIn(table) = 1 .. n
  PROVE  CurrentToken(table) = n
<1>1. CASE n = 0
  <2>1. table = {}
    <3>1. TokensIn(table) = {}
      BY <1>1
    <3>. QED  BY <3>1 DEF TokensIn
  <2>. QED  BY <1>1, <2>1 DEF CurrentToken
<1>2. CASE n > 0
  <2>1. n \in TokensIn(table) /\ \A u \in TokensIn(table) : u <= n
    BY <1>2
  <2>2. table # {}
    BY <2>1 DEF TokensIn
  <2>3. \A t \in TokensIn(table) : (\A u \in TokensIn(table) : u <= t) => t = n
    BY <2>1
  <2>. QED  BY <2>1, <2>2, <2>3 DEF CurrentToken
<1>. QED  BY <1>1, <1>2

(* On a good table the tokens are 1..CurrentToken, the active row has the  *)
(* current token, and there is one row per token.                          *)
LEMMA GoodRowsFacts ==
  ASSUME NEW table, NEW now, GoodRows(table, now)
  PROVE  /\ CurrentToken(table) \in Nat
         /\ TokensIn(table) = 1 .. CurrentToken(table)
         /\ \A row \in Active(table) : row.token = CurrentToken(table)
         /\ \A row \in table : row.token <= CurrentToken(table)
         /\ \A a, b \in Active(table) : a = b
<1>1. PICK n \in Nat : TokensIn(table) = 1 .. n /\ \A row \in Active(table) : row.token = n
  BY DEF GoodRows
<1>2. CurrentToken(table) = n
  BY <1>1, CurrentTokenIs
<1>3. \A row \in table : row.token \in 1 .. n
  BY <1>1 DEF TokensIn
<1>4. \A a, b \in Active(table) : a = b
  BY <1>1 DEF Active, GoodRows
<1>. QED  BY <1>1, <1>2, <1>3, <1>4

(* A table obtained by rewriting a good one, whose new expired rows are    *)
(* past, is good and has the same current token.                           *)
LEMMA RewriteKeepsGood ==
  ASSUME NEW table, NEW new, NEW now, GoodRows(table, now), Rewrites(table, new),
         new \subseteq Row,
         \A a, b \in new : a.token = b.token => a = b,
         \A row \in new : row.state = "expired" => row.expires_at <= now
  PROVE  GoodRows(new, now) /\ CurrentToken(new) = CurrentToken(table)
<1>1. PICK n \in Nat : TokensIn(table) = 1 .. n /\ \A row \in Active(table) : row.token = n
  BY DEF GoodRows
<1>2. TokensIn(new) = 1 .. n
  BY <1>1 DEF Rewrites, TokensIn
<1>3. \A row \in Active(new) : row.token = n
  BY <1>1 DEF Rewrites
<1>4. CurrentToken(new) = n /\ CurrentToken(table) = n
  BY <1>1, <1>2, CurrentTokenIs
<1>. QED  BY <1>2, <1>3, <1>4 DEF GoodRows

(* Expiring the lapsed row of a good table.                                *)
LEMMA ExpireGood ==
  ASSUME NEW table, NEW now \in Nat, GoodRows(table, now)
  PROVE  /\ GoodRows(Expire(table, now), now)
         /\ Rewrites(table, Expire(table, now))
         /\ CurrentToken(Expire(table, now)) = CurrentToken(table)
         /\ \A row \in Active(table) : row.expires_at > now => row \in Expire(table, now)
         /\ Active(Expire(table, now)) = {row \in Active(table) : row.expires_at > now}
<1>. DEFINE F(row) == IF row.state = "active" /\ row.expires_at <= now
                       THEN [row EXCEPT !.state = "expired"] ELSE row
            new == Expire(table, now)
<1>1. new = {F(row) : row \in table}
  BY DEF Expire
<1>2. table \subseteq Row
  BY DEF GoodRows
<1>3. \A row \in Row : /\ F(row) \in Row
                       /\ F(row).token = row.token /\ F(row).owner = row.owner
                       /\ F(row).expires_at = row.expires_at
                       /\ F(row).state = "active" => F(row) = row /\ row.expires_at > now
                       /\ row.state # "active" => F(row) = row
                       /\ row.expires_at > now => F(row) = row
                       /\ F(row).state = "expired" =>
                            row.expires_at <= now \/ row.state = "expired"
  BY DEF Row
<1>. HIDE DEF F
<1>4. new \subseteq Row
  BY <1>1, <1>2, <1>3
<1>5. Rewrites(table, new)
  BY <1>1, <1>2, <1>3 DEF Rewrites, Active
<1>6. \A a, b \in new : a.token = b.token => a = b
  BY <1>1, <1>2, <1>3 DEF GoodRows
<1>7. \A row \in new : row.state = "expired" => row.expires_at <= now
  BY <1>1, <1>2, <1>3 DEF GoodRows
<1>8. GoodRows(new, now) /\ CurrentToken(new) = CurrentToken(table)
  BY <1>4, <1>5, <1>6, <1>7, RewriteKeepsGood
<1>9. Active(new) = {row \in Active(table) : row.expires_at > now}
  BY <1>1, <1>2, <1>3 DEF Active
<1>10. \A row \in Active(table) : row.expires_at > now => row \in new
  BY <1>1, <1>2, <1>3 DEF Active
<1>. QED  BY <1>5, <1>8, <1>9, <1>10

(* Moving the expiry of the active row of a good table.                    *)
LEMMA RenewGood ==
  ASSUME NEW table, NEW now \in Nat, NEW until \in Nat, GoodRows(table, now)
  PROVE  /\ GoodRows(Renew(table, until), now)
         /\ Rewrites(table, Renew(table, until))
         /\ CurrentToken(Renew(table, until)) = CurrentToken(table)
         /\ \A row \in Active(table) : [row EXCEPT !.expires_at = until] \in Renew(table, until)
<1>. DEFINE F(row) == IF row.state = "active" THEN [row EXCEPT !.expires_at = until] ELSE row
            new == Renew(table, until)
<1>1. new = {F(row) : row \in table}
  BY DEF Renew
<1>2. table \subseteq Row
  BY DEF GoodRows
<1>3. \A row \in Row : /\ F(row) \in Row
                       /\ F(row).token = row.token /\ F(row).owner = row.owner
                       /\ F(row).state = row.state
                       /\ row.state # "active" => F(row) = row
                       /\ row.state = "active" => F(row) = [row EXCEPT !.expires_at = until]
  BY DEF Row
<1>. HIDE DEF F
<1>4. new \subseteq Row
  BY <1>1, <1>2, <1>3
<1>5. Rewrites(table, new)
  BY <1>1, <1>2, <1>3 DEF Rewrites, Active
<1>6. \A a, b \in new : a.token = b.token => a = b
  BY <1>1, <1>2, <1>3 DEF GoodRows
<1>7. \A row \in new : row.state = "expired" => row.expires_at <= now
  BY <1>1, <1>2, <1>3 DEF GoodRows
<1>8. GoodRows(new, now) /\ CurrentToken(new) = CurrentToken(table)
  BY <1>4, <1>5, <1>6, <1>7, RewriteKeepsGood
<1>9. \A row \in Active(table) : [row EXCEPT !.expires_at = until] \in new
  BY <1>1, <1>2, <1>3 DEF Active
<1>. QED  BY <1>5, <1>8, <1>9

(* Releasing the active row of a good table.                               *)
LEMMA ReleaseGood ==
  ASSUME NEW table, NEW now \in Nat, GoodRows(table, now)
  PROVE  /\ GoodRows(Release(table), now)
         /\ Rewrites(table, Release(table))
         /\ CurrentToken(Release(table)) = CurrentToken(table)
         /\ Active(Release(table)) = {}
         /\ \A row \in Active(table) : [row EXCEPT !.state = "released"] \in Release(table)
<1>. DEFINE F(row) == IF row.state = "active" THEN [row EXCEPT !.state = "released"] ELSE row
            new == Release(table)
<1>1. new = {F(row) : row \in table}
  BY DEF Release
<1>2. table \subseteq Row
  BY DEF GoodRows
<1>3. \A row \in Row : /\ F(row) \in Row
                       /\ F(row).token = row.token /\ F(row).owner = row.owner
                       /\ F(row).state # "active"
                       /\ row.state # "active" => F(row) = row
                       /\ row.state = "active" => F(row) = [row EXCEPT !.state = "released"]
                       /\ F(row).state = "expired" => F(row) = row
  BY DEF Row
<1>. HIDE DEF F
<1>4. new \subseteq Row
  BY <1>1, <1>2, <1>3
<1>5. Rewrites(table, new)
  BY <1>1, <1>2, <1>3 DEF Rewrites, Active
<1>6. \A a, b \in new : a.token = b.token => a = b
  BY <1>1, <1>2, <1>3 DEF GoodRows
<1>7. \A row \in new : row.state = "expired" => row.expires_at <= now
  BY <1>1, <1>2, <1>3 DEF GoodRows
<1>8. GoodRows(new, now) /\ CurrentToken(new) = CurrentToken(table)
  BY <1>4, <1>5, <1>6, <1>7, RewriteKeepsGood
<1>9. Active(new) = {} /\ \A row \in Active(table) : [row EXCEPT !.state = "released"] \in new
  BY <1>1, <1>2, <1>3 DEF Active
<1>. QED  BY <1>5, <1>8, <1>9

(* Inserting into a good table that has no active row.                     *)
LEMMA InsertGood ==
  ASSUME NEW table, NEW now \in Nat, NEW until \in Nat, NEW o \in Owners,
         GoodRows(table, now), Active(table) = {}
  PROVE  /\ GoodRows(Insert(table, o, until), now)
         /\ table \subseteq Insert(table, o, until)
         /\ CurrentToken(Insert(table, o, until)) = CurrentToken(table) + 1
<1>. DEFINE n == CurrentToken(table)
            row0 == [owner |-> o, token |-> n + 1, state |-> "active", expires_at |-> until]
            new == Insert(table, o, until)
<1>1. n \in Nat /\ TokensIn(table) = 1 .. n /\ table \subseteq Row
  BY GoodRowsFacts DEF GoodRows
<1>2. new = table \cup {row0} /\ row0 \in Row
  BY <1>1 DEF Insert, Row
<1>3. row0.token = n + 1 /\ row0.state = "active"
  OBVIOUS
<1>. HIDE DEF row0, n
<1>4. TokensIn(new) = 1 .. (n + 1)
  BY <1>1, <1>2, <1>3 DEF TokensIn
<1>5. CurrentToken(new) = n + 1
  BY <1>1, <1>4, CurrentTokenIs
<1>6. \A row \in table : row.token # n + 1
  BY <1>1 DEF TokensIn
<1>7. \A a, b \in new : a.token = b.token => a = b
  BY <1>2, <1>3, <1>6 DEF GoodRows
<1>8. \A row \in Active(new) : row.token = n + 1
  BY <1>2, <1>3 DEF Active
<1>9. \A row \in new : row.state = "expired" => row.expires_at <= now
  BY <1>2, <1>3 DEF GoodRows
<1>10. GoodRows(new, now)
  <2>1. new \subseteq Row
    BY <1>1, <1>2
  <2>2. \E m \in Nat : TokensIn(new) = 1 .. m /\ \A row \in Active(new) : row.token = m
    <3>1. n + 1 \in Nat
      BY <1>1
    <3>. QED  BY <3>1, <1>4, <1>8
  <2>. HIDE DEF new
  <2>. QED  BY <1>7, <1>9, <2>1, <2>2 DEF GoodRows
<1>. QED  BY <1>2, <1>5, <1>10 DEF n

----------------------------------------------------------------------------
(* How the table of one resource may change in a step taken at time `now`. *)
Evolves(table, new, now) ==
  /\ CurrentToken(table) <= CurrentToken(new)
  /\ \A row \in table : \E succ \in new : succ.token = row.token /\ succ.owner = row.owner
  /\ \A row \in table : row.state # "active" => row \in new
  /\ \A row \in Active(table) : row.expires_at > now =>
       \E succ \in new : /\ succ.token = row.token
                         /\ succ.owner = row.owner
                         /\ succ.state \in {"active", "released"}

(* The inductive invariant.                                                *)
TablesGood == \A r \in Resources : GoodRows(claims[r], clock)

CheckInv(p) ==
  LET table == claims[checkArg[p].resource]
  IN  /\ verdict[p] => latest[p] = checkArg[p].token
      /\ checkPc[p] \in {"latest", "active"} => checkArg[p].token <= latest[p]
      /\ checkPc[p] = "latest" => latest[p] <= CurrentToken(table)
      /\ checkPc[p] = "active" =>
           \A seen \in active[p] :
             /\ latest[p] <= seen.token
             /\ \E row \in table : row.token = seen.token /\ row.owner = seen.owner

IInv == TypeOK /\ TablesGood /\ \A p \in Checkers : CheckInv(p)

(* A table that does not change evolves.                                   *)
LEMMA SameEvolves ==
  ASSUME NEW table, NEW now \in Nat, GoodRows(table, now)
  PROVE  Evolves(table, table, now)
<1>1. CurrentToken(table) <= CurrentToken(table)
  BY GoodRowsFacts
<1>. QED  BY <1>1 DEF Evolves, Active

(* A claim by the owner of the unexpired active row leaves a good table,   *)
(* in which that row is the only active one.                               *)
LEMMA ClaimAgainTable ==
  ASSUME NEW table, NEW now \in Nat, NEW until \in Nat, NEW o, GoodRows(table, now),
         \E row \in Active(Expire(table, now)) : row.owner = o
  PROVE  LET new == Renew(Expire(table, now), until)
         IN  /\ GoodRows(new, now)
             /\ Evolves(table, new, now)
             /\ CurrentToken(new) = CurrentToken(table)
             /\ \A row \in Active(table) : row.owner = o
             /\ \A row \in Active(new) : row.owner = o
             /\ Active(table) # {} /\ Active(new) # {}
<1>. DEFINE mid == Expire(table, now)
            new == Renew(mid, until)
<1>1. /\ GoodRows(mid, now) /\ Rewrites(table, mid)
      /\ CurrentToken(mid) = CurrentToken(table)
      /\ \A row \in Active(table) : row.expires_at > now => row \in mid
      /\ Active(mid) = {row \in Active(table) : row.expires_at > now}
  BY ExpireGood
<1>. HIDE DEF mid
<1>2. /\ GoodRows(new, now) /\ Rewrites(mid, new)
      /\ CurrentToken(new) = CurrentToken(mid)
      /\ \A row \in Active(mid) : [row EXCEPT !.expires_at = until] \in new
  BY <1>1, RenewGood
<1>. HIDE DEF new
<1>3. PICK held \in Active(mid) : held.owner = o
  BY DEF mid
<1>4. held \in Active(table) /\ held \in mid /\ held \in Row
  BY <1>1, <1>3 DEF Active, GoodRows
<1>5. \A row \in Active(table) : row = held
  BY <1>4, GoodRowsFacts
<1>. DEFINE moved == [held EXCEPT !.expires_at = until]
<1>6. /\ moved \in Active(new) /\ moved.token = held.token
      /\ moved.owner = o /\ moved.state = "active"
  BY <1>2, <1>3, <1>4 DEF Active, Row
<1>. HIDE DEF moved
<1>7. \A row \in Active(new) : row = moved
  BY <1>2, <1>6, GoodRowsFacts
<1>8. Evolves(table, new, now)
  <2>1. CurrentToken(table) <= CurrentToken(new)
    BY <1>1, <1>2, GoodRowsFacts
  <2>2. \A row \in table : \E succ \in new : succ.token = row.token /\ succ.owner = row.owner
    BY <1>1, <1>2 DEF Rewrites
  <2>3. \A row \in table : row.state # "active" => row \in new
    BY <1>1, <1>2 DEF Rewrites
  <2>4. \A row \in Active(table) : \E succ \in new :
          /\ succ.token = row.token /\ succ.owner = row.owner
          /\ succ.state \in {"active", "released"}
    BY <1>3, <1>5, <1>6 DEF Active
  <2>. QED  BY <2>1, <2>2, <2>3, <2>4 DEF Evolves
<1>9. CurrentToken(new) = CurrentToken(table)
  BY <1>1, <1>2
<1>. QED  BY <1>2, <1>3, <1>4, <1>5, <1>6, <1>7, <1>8, <1>9 DEF new, mid

(* A claim on a resource that nobody holds any longer leaves a good table, *)
(* in which the only active row is the new one, under the next token.      *)
LEMMA ClaimFreshTable ==
  ASSUME NEW table, NEW now \in Nat, NEW until \in Nat, NEW o \in Owners,
         GoodRows(table, now), Active(Expire(table, now)) = {}
  PROVE  LET new == Insert(Expire(table, now), o, until)
         IN  /\ GoodRows(new, now)
             /\ Evolves(table, new, now)
             /\ CurrentToken(new) = CurrentToken(table) + 1
             /\ \A row \in Active(new) : row.owner = o
             /\ Active(new) # {}
<1>. DEFINE mid == Expire(table, now)
            new == Insert(mid, o, until)
<1>1. /\ GoodRows(mid, now) /\ Rewrites(table, mid)
      /\ CurrentToken(mid) = CurrentToken(table)
      /\ Active(mid) = {row \in Active(table) : row.expires_at > now}
  BY ExpireGood
<1>2. Active(mid) = {}
  OBVIOUS
<1>. DEFINE row0 == [owner |-> o, token |-> CurrentToken(mid) + 1,
                     state |-> "active", expires_at |-> until]
<1>3. new = mid \cup {row0}
  BY DEF Insert
<1>. HIDE DEF mid
<1>4. row0.owner = o /\ row0.state = "active"
  OBVIOUS
<1>5. Active(new) = {row0}
  <2>. HIDE DEF row0, new
  <2>. QED  BY <1>2, <1>3, <1>4 DEF Active
<1>6. /\ GoodRows(new, now) /\ mid \subseteq new
      /\ CurrentToken(new) = CurrentToken(mid) + 1
  BY <1>1, <1>2, <1>3, InsertGood
<1>. HIDE DEF new
<1>7. Evolves(table, new, now)
  <2>1. CurrentToken(table) <= CurrentToken(new)
    BY <1>1, <1>6, GoodRowsFacts
  <2>2. \A row \in table : \E succ \in new : succ.token = row.token /\ succ.owner = row.owner
    BY <1>1, <1>6 DEF Rewrites
  <2>3. \A row \in table : row.state # "active" => row \in new
    BY <1>1, <1>6 DEF Rewrites
  <2>4. \A row \in Active(table) : ~(row.expires_at > now)
    BY <1>1 DEF mid
  <2>. QED  BY <2>1, <2>2, <2>3, <2>4 DEF Evolves
<1>. QED  BY <1>1, <1>6, <1>7, <1>4, <1>5 DEF new, mid

(* A release leaves a good table with no active row.                       *)
LEMMA ReleaseTable ==
  ASSUME NEW table, NEW now \in Nat, GoodRows(table, now)
  PROVE  /\ GoodRows(Release(table), now)
         /\ Evolves(table, Release(table), now)
         /\ CurrentToken(Release(table)) = CurrentToken(table)
         /\ Active(Release(table)) = {}
<1>1. /\ GoodRows(Release(table), now) /\ Rewrites(table, Release(table))
      /\ CurrentToken(Release(table)) = CurrentToken(table)
      /\ Active(Release(table)) = {}
      /\ \A row \in Active(table) : [row EXCEPT !.state = "released"] \in Release(table)
  BY ReleaseGood
<1>2. \A row \in Active(table) :
        LET succ == [row EXCEPT !.state = "released"]
        IN  succ.token = row.token /\ succ.owner = row.owner /\ succ.state = "released"
  BY DEF Active, GoodRows, Row
<1>3. Evolves(table, Release(table), now)
  <2>1. \A row \in Active(table) : \E succ \in Release(table) :
          /\ succ.token = row.token /\ succ.owner = row.owner
          /\ succ.state \in {"active", "released"}
    BY <1>1, <1>2
  <2>. QED  BY <1>1, <2>1, GoodRowsFacts DEF Evolves, Rewrites
<1>. QED  BY <1>1, <1>3

----------------------------------------------------------------------------
(* Initially every table is empty and every checker is idle.               *)
LEMMA InitIInv == Init => IInv
<1>. SUFFICES ASSUME Init PROVE IInv
  OBVIOUS
<1>1. TypeOK
  BY DEF Init, TypeOK, Arg
<1>2. TablesGood
  <2>1. TokensIn({}) = 1 .. 0 /\ Active({}) = {}
    BY DEF TokensIn, Active
  <2>. QED  BY <2>1 DEF Init, TablesGood, GoodRows
<1>3. \A p \in Checkers : CheckInv(p)
  BY DEF Init, CheckInv
<1>. QED  BY <1>1, <1>2, <1>3 DEF IInv

(* Every step keeps the tables good and lets each of them only evolve.     *)
LEMMA StepTables ==
  ASSUME IInv, [Next]_vars
  PROVE  /\ clock' \in Nat /\ clock <= clock'
         /\ claims' \in [Resources -> SUBSET Row]
         /\ TablesGood'
         /\ \A r \in Resources : Evolves(claims[r], claims'[r], clock)
<1>. USE DEF IInv, TypeOK
<1>1. ASSUME UNCHANGED claims, clock' \in Nat, clock <= clock'
      PROVE  /\ claims' \in [Resources -> SUBSET Row]
             /\ TablesGood'
             /\ \A r \in Resources : Evolves(claims[r], claims'[r], clock)
  <2>1. ASSUME NEW r \in Resources
        PROVE  GoodRows(claims[r], clock')
    <3>1. GoodRows(claims[r], clock)
      BY DEF TablesGood
    <3>2. \A row \in claims[r] : row.expires_at \in Nat
      BY <3>1 DEF GoodRows, Row
    <3>. QED  BY <1>1, <3>1, <3>2 DEF GoodRows
  <2>2. \A r \in Resources : Evolves(claims[r], claims[r], clock)
    BY SameEvolves DEF TablesGood
  <2>. QED  BY <1>1, <2>1, <2>2 DEF TablesGood
<1>2. ASSUME NEW r \in Resources, NEW new,
             claims' = [claims EXCEPT ![r] = new], UNCHANGED clock,
             GoodRows(new, clock), Evolves(claims[r], new, clock)
      PROVE  /\ claims' \in [Resources -> SUBSET Row]
             /\ TablesGood'
             /\ \A q \in Resources : Evolves(claims[q], claims'[q], clock)
  <2>1. new \subseteq Row
    BY <1>2 DEF GoodRows
  <2>2. \A q \in Resources : claims'[q] = IF q = r THEN new ELSE claims[q]
    BY <1>2
  <2>3. \A q \in Resources : Evolves(claims[q], claims[q], clock)
    BY SameEvolves DEF TablesGood
  <2>. QED  BY <1>2, <2>1, <2>2, <2>3 DEF TablesGood
<1>3. CASE Tick
  BY <1>1, <1>3 DEF Tick
<1>4. ASSUME NEW o \in Owners, NEW r \in Resources, NEW ttl \in Ttls, ClaimAgain(o, r, ttl)
      PROVE  /\ UNCHANGED clock
             /\ claims' \in [Resources -> SUBSET Row]
             /\ TablesGood'
             /\ \A q \in Resources : Evolves(claims[q], claims'[q], clock)
  <2>. DEFINE new == Renew(Expire(claims[r], clock), clock + ttl)
  <2>1. clock + ttl \in Nat
    BY TtlsAssumption
  <2>2. GoodRows(claims[r], clock)
    BY DEF TablesGood
  <2>3. \E row \in Active(Expire(claims[r], clock)) : row.owner = o
    BY <1>4 DEF ClaimAgain
  <2>4. GoodRows(new, clock) /\ Evolves(claims[r], new, clock)
    BY <2>1, <2>2, <2>3, ClaimAgainTable
  <2>5. claims' = [claims EXCEPT ![r] = new] /\ UNCHANGED clock
    BY <1>4 DEF ClaimAgain
  <2>. HIDE DEF new
  <2>. QED  BY <1>2, <2>4, <2>5
<1>5. ASSUME NEW o \in Owners, NEW r \in Resources, NEW ttl \in Ttls, ClaimFresh(o, r, ttl)
      PROVE  /\ UNCHANGED clock
             /\ claims' \in [Resources -> SUBSET Row]
             /\ TablesGood'
             /\ \A q \in Resources : Evolves(claims[q], claims'[q], clock)
  <2>. DEFINE new == Insert(Expire(claims[r], clock), o, clock + ttl)
  <2>1. clock + ttl \in Nat
    BY TtlsAssumption
  <2>2. GoodRows(claims[r], clock)
    BY DEF TablesGood
  <2>3. Active(Expire(claims[r], clock)) = {}
    BY <1>5 DEF ClaimFresh
  <2>4. GoodRows(new, clock) /\ Evolves(claims[r], new, clock)
    BY <2>1, <2>2, <2>3, ClaimFreshTable
  <2>5. claims' = [claims EXCEPT ![r] = new] /\ UNCHANGED clock
    BY <1>5 DEF ClaimFresh
  <2>. HIDE DEF new
  <2>. QED  BY <1>2, <2>4, <2>5
<1>6. ASSUME NEW o \in Owners, NEW r \in Resources, NEW token, ReleaseResource(o, r, token)
      PROVE  /\ UNCHANGED clock
             /\ claims' \in [Resources -> SUBSET Row]
             /\ TablesGood'
             /\ \A q \in Resources : Evolves(claims[q], claims'[q], clock)
  <2>1. GoodRows(claims[r], clock)
    BY DEF TablesGood
  <2>2. GoodRows(Release(claims[r]), clock) /\ Evolves(claims[r], Release(claims[r]), clock)
    BY <2>1, ReleaseTable
  <2>3. claims' = [claims EXCEPT ![r] = Release(claims[r])] /\ UNCHANGED clock
    BY <1>6 DEF ReleaseResource
  <2>. QED  BY <1>2, <2>2, <2>3
<1>7. ASSUME NEW p \in Checkers, Check(p)
      PROVE  UNCHANGED <<clock, claims>>
  BY <1>7 DEF Check, CheckLatest, CheckActive, CheckVerdict
<1>8. CASE UNCHANGED vars
  BY <1>1, <1>8 DEF vars
<1>. QED
  BY <1>1, <1>3, <1>4, <1>5, <1>6, <1>7, <1>8 DEF Next, Claim

(* Type correctness is preserved, the tables' part being StepTables.       *)
LEMMA StepTypeOK == IInv /\ [Next]_vars => TypeOK'
<1>. SUFFICES ASSUME IInv, [Next]_vars PROVE TypeOK'
  OBVIOUS
<1>. USE DEF IInv, TypeOK
<1>1. clock' \in Nat /\ claims' \in [Resources -> SUBSET Row]
  BY StepTables
<1>2. CASE UNCHANGED <<checkPc, checkArg, latest, active, verdict>>
  BY <1>1, <1>2
<1>3. ASSUME NEW p \in Checkers, NEW o \in Owners, NEW r \in Resources,
             NEW token \in TokensIn(claims[r]) \cup {0}, CheckLatest(p, o, r, token)
      PROVE  TypeOK'
  <2>1. token \in Nat
    BY DEF TokensIn, Row
  <2>2. CurrentToken(claims[r]) \in Nat
    BY GoodRowsFacts DEF TablesGood
  <2>. QED  BY <1>1, <1>3, <2>1, <2>2 DEF CheckLatest, Arg
<1>4. ASSUME NEW p \in Checkers, CheckActive(p)
      PROVE  TypeOK'
  <2>1. Active(claims[checkArg[p].resource]) \subseteq Row
    BY DEF Active, Arg
  <2>. QED  BY <1>1, <1>4, <2>1 DEF CheckActive
<1>5. ASSUME NEW p \in Checkers, CheckVerdict(p)
      PROVE  TypeOK'
  BY <1>1, <1>5 DEF CheckVerdict, Passes
<1>. QED
  BY <1>2, <1>3, <1>4, <1>5
     DEF Next, vars, Tick, Claim, ClaimAgain, ClaimFresh, ReleaseResource, Check

(* A checker that does not move stays tied to the tables as they evolve.   *)
LEMMA CheckInvEvolves ==
  ASSUME IInv, [Next]_vars, NEW p \in Checkers,
         UNCHANGED <<checkPc[p], checkArg[p], latest[p], active[p], verdict[p]>>
  PROVE  CheckInv(p)'
<1>. DEFINE r == checkArg[p].resource
<1>1. r \in Resources /\ CheckInv(p)
  BY DEF IInv, TypeOK, Arg
<1>2. Evolves(claims[r], claims'[r], clock)
  BY <1>1, StepTables
<1>3. CurrentToken(claims[r]) <= CurrentToken(claims'[r])
  BY <1>2 DEF Evolves
<1>4. CurrentToken(claims[r]) \in Nat /\ CurrentToken(claims'[r]) \in Nat
  BY <1>1, StepTables, GoodRowsFacts DEF IInv, TablesGood
<1>5. checkPc[p] = "latest" => latest[p] <= CurrentToken(claims'[r])
  BY <1>1, <1>3, <1>4 DEF CheckInv, IInv, TypeOK
<1>6. \A row \in claims[r] : \E succ \in claims'[r] :
        succ.token = row.token /\ succ.owner = row.owner
  BY <1>2 DEF Evolves
<1>7. checkPc[p] = "active" => \A seen \in active[p] :
        /\ latest[p] <= seen.token
        /\ \E row \in claims'[r] : row.token = seen.token /\ row.owner = seen.owner
  BY <1>1, <1>6 DEF CheckInv
<1>. QED  BY <1>1, <1>5, <1>7 DEF CheckInv

(* Every step keeps every checker tied to the tables.                      *)
LEMMA StepCheckInv ==
  ASSUME IInv, [Next]_vars, NEW p \in Checkers
  PROVE  CheckInv(p)'
<1>. USE DEF IInv, TypeOK
<1>1. CASE UNCHANGED <<checkPc, checkArg, latest, active, verdict>>
  BY <1>1, CheckInvEvolves
<1>2. ASSUME NEW q \in Checkers, Check(q), q # p
      PROVE  CheckInv(p)'
  <2>1. UNCHANGED <<checkPc[p], checkArg[p], latest[p], active[p], verdict[p]>>
    BY <1>2 DEF Check, CheckLatest, CheckActive, CheckVerdict
  <2>. QED  BY <2>1, CheckInvEvolves
<1>3. ASSUME NEW o \in Owners, NEW r \in Resources,
             NEW token \in TokensIn(claims[r]) \cup {0}, CheckLatest(p, o, r, token)
      PROVE  CheckInv(p)'
  <2>1. /\ checkPc'[p] = "latest" /\ checkArg'[p].token = token
        /\ checkArg'[p].resource = r /\ ~verdict'[p]
        /\ latest'[p] = CurrentToken(claims[r]) /\ UNCHANGED claims
    BY <1>3 DEF CheckLatest
  <2>2. /\ CurrentToken(claims[r]) \in Nat
        /\ TokensIn(claims[r]) = 1 .. CurrentToken(claims[r])
    BY GoodRowsFacts DEF TablesGood
  <2>3. token <= CurrentToken(claims[r])
    BY <2>2
  <2>. QED  BY <2>1, <2>2, <2>3 DEF CheckInv
<1>4. CASE CheckActive(p)
  <2>. DEFINE r == checkArg[p].resource
  <2>1. r \in Resources /\ CheckInv(p)
    BY DEF Arg
  <2>2. /\ checkPc[p] = "latest" /\ checkPc'[p] = "active"
        /\ active'[p] = Active(claims[r])
        /\ UNCHANGED <<claims, checkArg, latest, verdict>>
    BY <1>4 DEF CheckActive
  <2>3. \A row \in Active(claims[r]) : latest[p] <= row.token
    BY <2>1, <2>2, GoodRowsFacts DEF TablesGood, CheckInv
  <2>4. Active(claims[r]) \subseteq claims[r]
    BY DEF Active
  <2>. QED  BY <2>1, <2>2, <2>3, <2>4 DEF CheckInv
<1>5. CASE CheckVerdict(p)
  <2>. DEFINE r == checkArg[p].resource
  <2>1. CheckInv(p) /\ active[p] \subseteq Row
    OBVIOUS
  <2>2. /\ checkPc[p] = "active" /\ checkPc'[p] = "idle"
        /\ verdict'[p] = Passes(active[p], checkArg[p], clock)
        /\ UNCHANGED <<claims, checkArg, latest>>
    BY <1>5 DEF CheckVerdict
  <2>3. verdict'[p] => latest[p] = checkArg[p].token
    <3>1. SUFFICES ASSUME verdict'[p] PROVE latest[p] = checkArg[p].token
      OBVIOUS
    <3>2. PICK row \in active[p] : row.token = checkArg[p].token
      BY <2>2, <3>1 DEF Passes
    <3>3. checkArg[p].token <= latest[p] /\ latest[p] <= row.token
      BY <2>1, <2>2, <3>2 DEF CheckInv
    <3>4. checkArg[p].token \in Nat /\ latest[p] \in Nat
      BY DEF Arg
    <3>. QED  BY <3>2, <3>3, <3>4
  <2>. QED  BY <2>2, <2>3 DEF CheckInv
<1>. QED
  BY <1>1, <1>2, <1>3, <1>4, <1>5
     DEF Next, vars, Tick, Claim, ClaimAgain, ClaimFresh, ReleaseResource, Check

(* IInv is an invariant of the store.                                      *)
THEOREM Inductive == Spec => []IInv
<1>1. IInv /\ [Next]_vars => IInv'
  <2>. SUFFICES ASSUME IInv, [Next]_vars PROVE IInv'
    OBVIOUS
  <2>1. TypeOK'
    BY StepTypeOK
  <2>2. TablesGood'
    BY StepTables
  <2>3. \A p \in Checkers : CheckInv(p)'
    BY StepCheckInv
  <2>. QED  BY <2>1, <2>2, <2>3 DEF IInv
<1>. QED  BY InitIInv, <1>1, PTL DEF Spec

----------------------------------------------------------------------------
(* Every variable keeps its type (all of coordination_store.py's claims    *)
(* code, and the local variables of check_fencing).                        *)
THEOREM TypeCorrect == Spec => []TypeOK
<1>1. IInv => TypeOK
  BY DEF IInv
<1>. QED  BY <1>1, Inductive, PTL

(* The two UNIQUE constraints of the claims schema are never what makes a  *)
(* claim_resource fail, whatever history the table has.                    *)
THEOREM ConstraintsHold == Spec => []ConstraintsNeverBite
<1>1. IInv => ConstraintsNeverBite
  <2>. SUFFICES ASSUME IInv, NEW r \in Resources, NEW a \in claims[r], NEW b \in claims[r],
                       a.token = b.token \/ {a.state, b.state} = {"active"}
                PROVE  a = b
    BY DEF ConstraintsNeverBite
  <2>1. GoodRows(claims[r], clock)
    BY DEF IInv, TablesGood
  <2>2. CASE a.token = b.token
    BY <2>1, <2>2 DEF GoodRows
  <2>3. CASE {a.state, b.state} = {"active"}
    <3>1. a.state = "active" /\ b.state = "active"
      BY <2>3
    <3>2. a \in Active(claims[r]) /\ b \in Active(claims[r])
      BY <3>1 DEF Active
    <3>. QED  BY <2>1, <3>2, GoodRowsFacts
  <2>. QED  BY <2>2, <2>3
<1>. QED  BY <1>1, Inductive, PTL

(* The active claim always carries the newest token and no token was       *)
(* skipped: a superseded token can never be the active one again.          *)
THEOREM NewestIsActive == Spec => []ActiveIsNewest
<1>1. IInv => ActiveIsNewest
  BY GoodRowsFacts DEF IInv, TablesGood, ActiveIsNewest
<1>. QED  BY <1>1, Inductive, PTL

(* A passing verdict of check_fencing reports the token it passed.         *)
THEOREM OkVerdictReportsCurrent == Spec => []OkReportsCurrent
<1>1. IInv => OkReportsCurrent
  BY DEF IInv, CheckInv, OkReportsCurrent
<1>. QED  BY <1>1, Inductive, PTL

(* No step of any other agent takes an unexpired claim from its owner.     *)
THEOREM LiveClaimsAreSafe == Spec => LiveClaimIsSafe
<1>. DEFINE Safe == \A r \in Resources : \A row \in Active(claims[r]) :
       row.expires_at > clock =>
         \E now \in claims'[r] : /\ now.token = row.token
                                 /\ now.owner = row.owner
                                 /\ now.state \in {"active", "released"}
<1>1. IInv /\ [Next]_vars => [Safe]_vars
  BY StepTables DEF Evolves
<1>2. LiveClaimIsSafe <=> [][Safe]_vars
  BY DEF LiveClaimIsSafe
<1>. HIDE DEF Safe
<1>. QED  BY <1>1, <1>2, Inductive, PTL DEF Spec

(* A retired token stays retired, with the owner it had.                   *)
THEOREM FencingIsFinal == Spec => RetiredForGood
<1>. DEFINE Final == \A r \in Resources : \A row \in claims[r] :
                       row.state # "active" => row \in claims'[r]
<1>1. IInv /\ [Next]_vars => [Final]_vars
  BY StepTables DEF Evolves
<1>2. RetiredForGood <=> [][Final]_vars
  BY DEF RetiredForGood
<1>. HIDE DEF Final
<1>. QED  BY <1>1, <1>2, Inductive, PTL DEF Spec

(* The race inside check_fencing harms nobody else: a verdict that passes  *)
(* names a claim that still stands, or one its own owner has just ended.   *)
THEOREM OkVerdictsAreJustified == Spec => OkVerdictIsJustified
<1>. DEFINE Justified(p) ==
       \E row \in claims[checkArg[p].resource] :
         /\ row.token = checkArg[p].token
         /\ row.owner = checkArg[p].owner
         /\ \/ row.state = "active" /\ row.expires_at > clock
            \/ row.state = "released"
            \/ \E seen \in active[p] : row.expires_at < seen.expires_at
     All == \A p \in Checkers : verdict'[p] /\ ~verdict[p] => Justified(p)
<1>1. ASSUME IInv, NEW p \in Checkers, CheckVerdict(p), verdict'[p]
      PROVE  Justified(p)
  <2>. DEFINE r == checkArg[p].resource
  <2>1. r \in Resources /\ CheckInv(p) /\ GoodRows(claims[r], clock) /\ active[p] \subseteq Row
    BY <1>1 DEF IInv, TypeOK, TablesGood, Arg
  <2>2. checkPc[p] = "active" /\ Passes(active[p], checkArg[p], clock)
    BY <1>1 DEF CheckVerdict, IInv, TypeOK
  <2>3. PICK seen \in active[p] : /\ seen.expires_at > clock
                                  /\ seen.owner = checkArg[p].owner
                                  /\ seen.token = checkArg[p].token
    BY <2>2 DEF Passes
  <2>4. PICK row \in claims[r] : row.token = seen.token /\ row.owner = seen.owner
    BY <2>1, <2>2, <2>3 DEF CheckInv
  <2>5. row \in Row /\ seen \in Row /\ clock \in Nat
    BY <1>1, <2>1, <2>4 DEF GoodRows, IInv, TypeOK
  <2>6. row.expires_at \in Nat /\ seen.expires_at \in Nat
    BY <2>5 DEF Row
  <2>7. CASE row.state = "released"
    BY <2>3, <2>4, <2>7
  <2>8. CASE row.state = "active" /\ row.expires_at > clock
    BY <2>3, <2>4, <2>8
  <2>9. CASE row.expires_at <= clock
    <3>1. row.expires_at < seen.expires_at
      BY <2>3, <2>5, <2>6, <2>9
    <3>. QED  BY <2>3, <2>4, <3>1
  <2>10. row.state = "expired" => row.expires_at <= clock
    BY <2>1 DEF GoodRows
  <2>11. row.state \in {"active", "expired", "released"}
    BY <2>5 DEF Row
  <2>12. row.expires_at <= clock \/ row.expires_at > clock
    BY <2>5, <2>6
  <2>. QED  BY <2>7, <2>8, <2>9, <2>10, <2>11, <2>12
<1>. HIDE DEF Justified
<1>2. IInv /\ [Next]_vars => [All]_vars
  <2>. SUFFICES ASSUME IInv, Next, NEW p \in Checkers, verdict'[p], ~verdict[p]
                PROVE  Justified(p)
    BY DEF All
  <2>1. CASE UNCHANGED verdict
    BY <2>1
  <2>2. ASSUME NEW q \in Checkers, Check(q)
        PROVE  Justified(p)
    <3>1. CASE CheckVerdict(q)
      <4>1. q = p
        BY <3>1 DEF CheckVerdict, IInv, TypeOK
      <4>. QED  BY <1>1, <3>1, <4>1
    <3>2. CASE ~CheckVerdict(q)
      BY <2>2, <3>2 DEF Check, CheckLatest, CheckActive, IInv, TypeOK
    <3>. QED  BY <3>1, <3>2
  <2>. QED  BY <2>1, <2>2 DEF Next, Tick, Claim, ClaimAgain, ClaimFresh, ReleaseResource
<1>3. OkVerdictIsJustified <=> [][All]_vars
  BY DEF OkVerdictIsJustified, Justified
<1>. HIDE DEF All
<1>. QED  BY <1>2, <1>3, Inductive, PTL DEF Spec

----------------------------------------------------------------------------
(* The holder the refinement mapping reads off a good table.               *)
LEMMA HolderOfFacts ==
  ASSUME NEW table, NEW now, GoodRows(table, now)
  PROVE  /\ Active(table) = {} => HolderOf(table) = Nobody
         /\ \A row \in Active(table) : HolderOf(table) = row.owner
         /\ HolderOf(table) \in Owners \cup {Nobody}
<1>1. Active(table) = {} => HolderOf(table) = Nobody
  BY DEF HolderOf
<1>2. ASSUME NEW row \in Active(table)
      PROVE  HolderOf(table) = row.owner /\ row.owner \in Owners
  <2>1. \A a \in table : a.state = "active" <=> a = row
    BY GoodRowsFacts DEF Active
  <2>2. (CHOOSE a \in table : a.state = "active") = row
    BY <2>1 DEF Active
  <2>3. row.owner \in Owners
    BY DEF Active, GoodRows, Row
  <2>. QED  BY <2>2, <2>3 DEF HolderOf
<1>. QED  BY <1>1, <1>2

(* The claims table implements the abstract fencing lock: seen through the *)
(* active row and MAX(token), every step of the store is a grant under the *)
(* next number, a giving-up, or no step at all.                            *)
THEOREM ImplementsFencedLock == Spec => KeepsFencedLock
<1>. USE DEF IInv, TypeOK, TablesGood
<1>1. Init => Lock!LockInit
  <2>. SUFFICES ASSUME Init PROVE Lock!LockInit
    OBVIOUS
  <2>1. HolderOf({}) = Nobody /\ CurrentToken({}) = 0
    BY DEF HolderOf, Active, CurrentToken
  <2>. QED  BY <2>1 DEF Init, Lock!LockInit
<1>2. ASSUME IInv, NEW o \in Owners, NEW r \in Resources, NEW ttl \in Ttls, ClaimAgain(o, r, ttl)
      PROVE  UNCHANGED Lock!lockVars
  <2>. DEFINE new == Renew(Expire(claims[r], clock), clock + ttl)
  <2>1. clock + ttl \in Nat /\ GoodRows(claims[r], clock)
    BY <1>2, TtlsAssumption
  <2>2. /\ claims' = [claims EXCEPT ![r] = new]
        /\ \E row \in Active(Expire(claims[r], clock)) : row.owner = o
        /\ clock \in Nat
    BY <1>2 DEF ClaimAgain
  <2>3. /\ GoodRows(new, clock) /\ CurrentToken(new) = CurrentToken(claims[r])
        /\ \A row \in Active(claims[r]) : row.owner = o
        /\ \A row \in Active(new) : row.owner = o
        /\ Active(claims[r]) # {} /\ Active(new) # {}
    BY <2>1, <2>2, ClaimAgainTable
  <2>. HIDE DEF new
  <2>4. HolderOf(claims[r]) = o /\ HolderOf(new) = o
    BY <2>1, <2>3, HolderOfFacts
  <2>5. \A q \in Resources : claims'[q] = IF q = r THEN new ELSE claims[q]
    BY <1>2, <2>2
  <2>. QED  BY <2>3, <2>4, <2>5 DEF Lock!lockVars
<1>3. ASSUME IInv, NEW o \in Owners, NEW r \in Resources, NEW ttl \in Ttls, ClaimFresh(o, r, ttl)
      PROVE  Lock!Grant(r, o)
  <2>. DEFINE new == Insert(Expire(claims[r], clock), o, clock + ttl)
  <2>1. clock + ttl \in Nat /\ GoodRows(claims[r], clock)
    BY <1>3, TtlsAssumption
  <2>2. /\ claims' = [claims EXCEPT ![r] = new]
        /\ Active(Expire(claims[r], clock)) = {}
        /\ clock \in Nat
    BY <1>3 DEF ClaimFresh
  <2>3. /\ GoodRows(new, clock) /\ CurrentToken(new) = CurrentToken(claims[r]) + 1
        /\ \A row \in Active(new) : row.owner = o
        /\ Active(new) # {}
    BY <2>1, <2>2, ClaimFreshTable
  <2>. HIDE DEF new
  <2>4. HolderOf(new) = o
    BY <2>3, HolderOfFacts
  <2>5. \A q \in Resources : claims'[q] = IF q = r THEN new ELSE claims[q]
    BY <1>3, <2>2
  <2>. QED  BY <2>3, <2>4, <2>5 DEF Lock!Grant
<1>4. ASSUME IInv, NEW o \in Owners, NEW r \in Resources, NEW token, ReleaseResource(o, r, token)
      PROVE  Lock!GiveUp(r)
  <2>. DEFINE new == Release(claims[r])
  <2>1. GoodRows(claims[r], clock) /\ clock \in Nat
    BY <1>4
  <2>2. claims' = [claims EXCEPT ![r] = new] /\ \E row \in Active(claims[r]) : row.owner = o
    BY <1>4 DEF ReleaseResource
  <2>3. /\ GoodRows(new, clock) /\ CurrentToken(new) = CurrentToken(claims[r])
        /\ Active(new) = {}
    BY <2>1, ReleaseTable
  <2>. HIDE DEF new
  <2>4. HolderOf(claims[r]) # Nobody /\ HolderOf(new) = Nobody
    BY <2>1, <2>2, <2>3, HolderOfFacts, NobodyAssumption
  <2>5. \A q \in Resources : claims'[q] = IF q = r THEN new ELSE claims[q]
    BY <1>4, <2>2
  <2>. QED  BY <2>3, <2>4, <2>5 DEF Lock!GiveUp
<1>5. ASSUME UNCHANGED claims PROVE UNCHANGED Lock!lockVars
  BY <1>5 DEF Lock!lockVars
<1>6. IInv /\ [Next]_vars => [Lock!LockNext]_(Lock!lockVars)
  BY <1>2, <1>3, <1>4, <1>5
     DEF Next, vars, Lock!LockNext, Tick, Claim, Check, CheckLatest, CheckActive,
         CheckVerdict, Lock!lockVars
<1>. QED  BY <1>1, <1>6, Inductive, PTL DEF Spec, KeepsFencedLock, Lock!LockSpec

-----------------------------------------------------------------------------
(* The file of the store (StoreFile).                                      *)
(* Who is between the lock and its release holds it, and nobody else.      *)
LockedIn == \A p \in Procs : pc[p] \in Backing <=> lock = p

(* The loop counters: none before the loops, a statement of the schema     *)
(* within the migration, a copy's slot within the rotation.                *)
CountersFit ==
  \A p \in Procs :
    /\ pc[p] \in {"idle", "connect", "version"} => step[p] = 0
    /\ pc[p] = "ddl" => step[p] <= Tables /\ step[p] <= tables
    /\ pc[p] = "rotate" => step[p] < Keep

Vouched == version = 1 => tables = Tables

(* The last backup that was stamped is there, or another one is at work.   *)
StampGood ==
  /\ stamped /\ ~AtWork /\ ~spoiled => Whole(1)
  /\ \A p \in Procs : pc[p] = "stamp" => Whole(1)

(* The whole ones among the first j copies, and how many there are.        *)
WholeIn(b, j) == {i \in 1..j : b[i] \notin {Missing, Partial}}
Copies(b, j) == Cardinality(WholeIn(b, j))

(* The first j copies have given up a place to the backup at work: while   *)
(* slot i is moved to i + 1, those from i + 1 on.                          *)
Moved(j) ==
  /\ lock # NoOne
  /\ \/ pc[lock] = "rotate" /\ step[lock] < Keep - 1 /\ step[lock] < j
     \/ pc[lock] \in {"copy", "copying"} /\ 0 < j
Least(a, b) == IF a <= b THEN a ELSE b

(* Of the first j copies at most one is lost for each fault: those that    *)
(* were finished last are there, from the first on.                        *)
PrefixGood ==
  \A j \in 0..Keep :
    Copies(bak, j) + faults >= Least(copied, IF Moved(j) THEN j - 1 ELSE j)

(* The slot that the rotation has just moved is free.                      *)
SlotFree ==
  \A p \in Procs :
    /\ pc[p] = "rotate" /\ step[p] < Keep - 1 => bak[step[p] + 1] = Missing
    /\ pc[p] = "copy" /\ Keep > 1 => bak[1] = Missing
    /\ pc[p] = "copying" => bak[1] = Partial

FileIInv == /\ FileTypeOK /\ LockedIn /\ CountersFit /\ Vouched
        /\ StampGood /\ PrefixGood /\ SlotFree

-----------------------------------------------------------------------------
LEMMA MaxOfTwo ==
  ASSUME NEW a \in Int, NEW b \in Int
  PROVE  Max({a, b}) = IF a >= b THEN a ELSE b
<1>1. CASE a >= b
  BY <1>1 DEF Max
<1>2. CASE ~(a >= b)
  BY <1>2 DEF Max
<1>. QED  BY <1>1, <1>2

LEMMA MinOfTwo ==
  ASSUME NEW a \in Int, NEW b \in Int
  PROVE  Min({a, b}) = IF a <= b THEN a ELSE b
<1>1. CASE a <= b
  BY <1>1 DEF Min
<1>2. CASE ~(a <= b)
  BY <1>2 DEF Min
<1>. QED  BY <1>1, <1>2

Bak == [Slots -> Copy \cup {Missing, Partial}]

(* The copies are counted from the first on.                               *)
LEMMA CopiesType ==
  ASSUME NEW b, NEW j \in Nat
  PROVE  IsFiniteSet(WholeIn(b, j)) /\ Copies(b, j) \in Nat
<1>1. IsFiniteSet(1..j)
  BY FS_Interval
<1>2. IsFiniteSet(WholeIn(b, j))
  BY <1>1, FS_Subset DEF WholeIn
<1>. QED  BY <1>2, FS_CardinalityType DEF Copies

LEMMA CopiesNext ==
  ASSUME NEW b, NEW j \in Nat \ {0}
  PROVE  Copies(b, j) =
           Copies(b, j - 1) + (IF b[j] \in {Missing, Partial} THEN 0 ELSE 1)
<1>1. IsFiniteSet(WholeIn(b, j - 1)) /\ Copies(b, j - 1) \in Nat
  BY CopiesType
<1>2. j \notin WholeIn(b, j - 1)
  BY DEF WholeIn
<1>3. CASE b[j] \in {Missing, Partial}
  <2>1. WholeIn(b, j) = WholeIn(b, j - 1)
    BY <1>3 DEF WholeIn
  <2>. QED  BY <1>1, <1>3, <2>1 DEF Copies
<1>4. CASE b[j] \notin {Missing, Partial}
  <2>1. WholeIn(b, j) = WholeIn(b, j - 1) \cup {j}
    BY <1>4 DEF WholeIn
  <2>. QED  BY <1>1, <1>2, <1>4, <2>1, FS_AddElement DEF Copies
<1>. QED  BY <1>3, <1>4

(* Copies that agree up to j are counted alike.                            *)
LEMMA CopiesAgree ==
  ASSUME NEW b, NEW c, NEW j \in Nat, \A i \in 1..j : b[i] = c[i]
  PROVE  Copies(b, j) = Copies(c, j)
<1>1. WholeIn(b, j) = WholeIn(c, j)
  BY DEF WholeIn
<1>. QED  BY <1>1 DEF Copies

(* Filling the first slot adds one copy to every count.                    *)
LEMMA CopiesFirst ==
  ASSUME NEW b \in Bak, NEW x \in Copy, b[1] \in {Missing, Partial},
         NEW j \in 1..Keep
  PROVE  Copies([b EXCEPT ![1] = x], j) = Copies(b, j) + 1
<1>. DEFINE c == [b EXCEPT ![1] = x]
<1>1. 1 \in Slots /\ 1..j \subseteq Slots
  BY StoreFileAssumption DEF Slots
<1>2. c[1] = x /\ x \notin {Missing, Partial}
  BY <1>1, StoreFileAssumption DEF Bak
<1>3. \A i \in Slots : i # 1 => c[i] = b[i]
  BY DEF Bak
<1>. HIDE DEF c
<1>4. WholeIn(c, j) = WholeIn(b, j) \cup {1} /\ 1 \notin WholeIn(b, j)
  BY <1>1, <1>2, <1>3 DEF WholeIn
<1>5. IsFiniteSet(WholeIn(b, j))
  BY StoreFileAssumption, CopiesType
<1>6. Copies(c, j) = Copies(b, j) + 1
  BY <1>4, <1>5, FS_AddElement DEF Copies
<1>. QED  BY <1>6 DEF c

Shifted(b, k) == [b EXCEPT ![k + 1] = b[k], ![k] = Missing]

(* Moving copy k to the next slot: the counts below k stay, the one up to  *)
(* k is that up to k - 1, the one up to k + 1 that up to k; and            *)
(* where the next slot was free, the counts beyond stay.                   *)
LEMMA CopiesShift ==
  ASSUME NEW b \in Bak, NEW k \in 1..Keep - 1, b[k] # Missing, NEW j \in 0..Keep,
         NEW c, c = Shifted(b, k)
  PROVE  /\ c \in Bak /\ c[k] = Missing
         /\ j < k => Copies(c, j) = Copies(b, j)
         /\ j = k => Copies(c, j) = Copies(b, j - 1)
         /\ j = k + 1 => Copies(c, j) = Copies(b, j - 1)
         /\ b[k + 1] = Missing /\ j > k => Copies(c, j) = Copies(b, j)
<1>1. k \in Slots /\ k + 1 \in Slots /\ k \in Nat /\ j \in Nat
  BY StoreFileAssumption DEF Slots
<1>2. c \in Bak /\ c[k] = Missing /\ c[k + 1] = b[k]
  BY <1>1 DEF Bak, Shifted
<1>3. \A i \in Slots : i \notin {k, k + 1} => c[i] = b[i]
  BY <1>1 DEF Bak, Shifted
<1>4. \A n \in 0..Keep : n < k => Copies(c, n) = Copies(b, n)
  <2>. SUFFICES ASSUME NEW n \in 0..Keep, n < k PROVE Copies(c, n) = Copies(b, n)
    OBVIOUS
  <2>1. \A i \in 1..n : c[i] = b[i]
    BY <1>1, <1>3, StoreFileAssumption DEF Slots
  <2>. QED  BY <2>1, CopiesAgree
<1>5. Copies(c, k) = Copies(b, k - 1)
  <2>1. Copies(c, k) = Copies(c, k - 1)
    BY <1>1, <1>2, CopiesNext, CopiesType
  <2>2. Copies(c, k - 1) = Copies(b, k - 1)
    BY <1>1, <1>4, StoreFileAssumption
  <2>. QED  BY <2>1, <2>2
<1>6. Copies(c, k + 1) = Copies(b, k)
  <2>1. Copies(c, k + 1) = Copies(c, k) + (IF b[k] \in {Missing, Partial} THEN 0 ELSE 1)
    <3>1. (k + 1) - 1 = k /\ k + 1 \in Nat \ {0}
      BY <1>1
    <3>2. Copies(c, k + 1) = Copies(c, (k + 1) - 1)
                              + (IF c[k + 1] \in {Missing, Partial} THEN 0 ELSE 1)
      BY <3>1, CopiesNext
    <3>. QED  BY <3>1, <3>2, <1>2
  <2>2. Copies(b, k) = Copies(b, k - 1) + (IF b[k] \in {Missing, Partial} THEN 0 ELSE 1)
    BY <1>1, CopiesNext
  <2>. QED  BY <1>5, <2>1, <2>2
<1>7. ASSUME b[k + 1] = Missing, j > k PROVE Copies(c, j) = Copies(b, j)
  <2>1. 1..j \subseteq Slots /\ k \in 1..j /\ k + 1 \in 1..j
    BY <1>1, <1>7, StoreFileAssumption DEF Slots
  <2>2. CASE b[k] = Partial
    <3>1. WholeIn(c, j) = WholeIn(b, j)
      BY <1>2, <1>3, <1>7, <2>1, <2>2 DEF WholeIn
    <3>. QED  BY <3>1 DEF Copies
  <2>3. CASE b[k] # Partial
    <3>1. WholeIn(c, j) = (WholeIn(b, j) \ {k}) \cup {k + 1}
      BY <1>2, <1>3, <1>7, <2>1, <2>3 DEF WholeIn
    <3>2. k \in WholeIn(b, j) /\ k + 1 \notin WholeIn(b, j)
      BY <1>7, <2>1, <2>3 DEF WholeIn
    <3>3. IsFiniteSet(WholeIn(b, j) \ {k})
          /\ Cardinality(WholeIn(b, j) \ {k}) = Copies(b, j) - 1
      BY <3>2, CopiesType, FS_RemoveElement DEF Copies
    <3>4. Cardinality((WholeIn(b, j) \ {k}) \cup {k + 1}) = Copies(b, j) - 1 + 1
      BY <3>2, <3>3, FS_AddElement
    <3>. QED  BY <3>1, <3>4, CopiesType DEF Copies
  <2>. QED  BY <2>2, <2>3
<1>8. j < k => Copies(c, j) = Copies(b, j)
  BY <1>4
<1>9. j = k => Copies(c, j) = Copies(b, j - 1)
  BY <1>5
<1>10. j = k + 1 => Copies(c, j) = Copies(b, j - 1)
  <2>1. (k + 1) - 1 = k
    BY <1>1
  <2>. QED  BY <1>6, <2>1
<1>. QED  BY <1>2, <1>7, <1>8, <1>9, <1>10

-----------------------------------------------------------------------------
Basics == FileTypeOK /\ LockedIn /\ CountersFit /\ Vouched

LEMMA InitBasics == FileInit => Basics
<1>. SUFFICES ASSUME FileInit PROVE Basics
  OBVIOUS
<1>1. /\ {MaxRows, MaxDays, MaxForced, MaxFaults, Tables, Keep, Tables + Keep} \subseteq Nat
      /\ NoOne \notin Procs
  BY StoreFileAssumption
<1>2. FileTypeOK
  <2>1. /\ tables \in 0..Tables /\ rows \in 0..MaxRows /\ version \in 0..1
        /\ copied \in 0..Keep /\ days \in 0..MaxDays
        /\ forced \in 0..MaxForced /\ faults \in 0..MaxFaults /\ 0 \in 0..Tables + Keep
    BY <1>1 DEF FileInit
  <2>2. /\ bak \in [Slots -> Copy \cup {Missing, Partial}]
        /\ pc \in [Procs -> Steps] /\ call \in [Procs -> {"claim", "ready", "backup"}]
        /\ fresh \in [Procs -> BOOLEAN] /\ step \in [Procs -> 0..Tables + Keep]
    BY <2>1 DEF FileInit, Steps
  <2>. QED  BY <2>1, <2>2 DEF FileInit, FileTypeOK
<1>3. LockedIn /\ CountersFit /\ Vouched
  BY <1>1 DEF FileInit, LockedIn, CountersFit, Vouched, Backing
<1>. QED  BY <1>2, <1>3 DEF Basics

(* What a step of process p leaves to the other ones.                      *)
Only(p) ==
  \A q \in Procs \ {p} : pc'[q] = pc[q] /\ step'[q] = step[q]

(* A step that changes at most the process's own control keeps the types   *)
(* of the processes' variables.                                            *)
LEMMA EndTypes ==
  ASSUME FileTypeOK, NEW p \in Procs, End(p)
  PROVE  /\ pc' \in [Procs -> Steps] /\ call' \in [Procs -> {"claim", "ready", "backup"}]
         /\ fresh' \in [Procs -> BOOLEAN] /\ step' \in [Procs -> 0..Tables + Keep]
         /\ pc'[p] = "idle" /\ step'[p] = 0 /\ Only(p)
BY StoreFileAssumption DEF FileTypeOK, End, Goto, Set, Only, Steps

LEMMA AfterTypes ==
  ASSUME FileTypeOK, NEW p \in Procs, AfterBackup(p)
  PROVE  /\ pc' \in [Procs -> Steps] /\ call' \in [Procs -> {"claim", "ready", "backup"}]
         /\ fresh' \in [Procs -> BOOLEAN] /\ step' \in [Procs -> 0..Tables + Keep]
         /\ pc'[p] \in {"idle", "operate"} /\ step'[p] = 0 /\ Only(p)
<1>1. CASE call[p] = "backup"
  BY <1>1, EndTypes DEF AfterBackup
<1>2. CASE call[p] # "backup"
  BY <1>2, StoreFileAssumption DEF AfterBackup, FileTypeOK, Goto, Set, Only, Steps
<1>. QED  BY <1>1, <1>2

LEMMA BeginBasics ==
  ASSUME Basics, NEW p \in Procs, NEW c \in {"claim", "ready", "backup"}, Begin(p, c),
         forced' \in 0..MaxForced
  PROVE  Basics'
<1>1. FileTypeOK'
  BY DEF Basics, FileTypeOK, Begin, Goto, db, backups, Steps
<1>2. LockedIn' /\ CountersFit' /\ Vouched'
  BY DEF Basics, FileTypeOK, LockedIn, CountersFit, Vouched, Begin, Goto, db, backups, Backing
<1>. QED  BY <1>1, <1>2 DEF Basics

LEMMA NextBasics == Basics /\ [FileNext]_fileVars => Basics'
<1>. SUFFICES ASSUME Basics, [FileNext]_fileVars PROVE Basics'
  OBVIOUS
<1>. USE DEF Basics
<1>0. Agents \subseteq Procs /\ Cron \in Procs /\ NoOne \notin Procs
  BY StoreFileAssumption DEF Procs
<1>1. ASSUME NEW p \in Agents, ClaimCall(p) PROVE Basics'
  BY <1>0, <1>1, BeginBasics DEF ClaimCall, FileTypeOK
<1>2. CASE EnsureReady
  BY <1>0, <1>2, BeginBasics DEF EnsureReady, FileTypeOK
<1>3. CASE ForceBackup
  <2>1. forced' \in 0..MaxForced
    BY <1>3, StoreFileAssumption DEF ForceBackup, FileTypeOK
  <2>. QED  BY <1>0, <1>3, <2>1, BeginBasics DEF ForceBackup
<1>4. ASSUME NEW p \in Procs, Connect(p) PROVE Basics'
  <2>1. FileTypeOK'
    BY <1>4 DEF Connect, FileTypeOK, Goto, backups, counters, Steps, Backing
  <2>2. LockedIn' /\ CountersFit' /\ Vouched'
    BY <1>4 DEF Connect, FileTypeOK, LockedIn, CountersFit, Vouched, Goto, backups, Backing
  <2>. QED  BY <2>1, <2>2
<1>5. ASSUME NEW p \in Procs, ReadVersion(p) PROVE Basics'
  <2>1. FileTypeOK'
    BY <1>5 DEF ReadVersion, FileTypeOK, Goto, db, backups, counters, Steps, Backing
  <2>2. LockedIn' /\ CountersFit' /\ Vouched'
    BY <1>5, StoreFileAssumption
       DEF ReadVersion, FileTypeOK, LockedIn, CountersFit, Vouched, Goto, db, backups, Backing
  <2>. QED  BY <2>1, <2>2
<1>6. ASSUME NEW p \in Procs, Migrate(p) PROVE Basics'
  <2>1. pc[p] = "ddl" /\ step[p] \in 0..Tables /\ step[p] <= tables
    BY <1>6 DEF Migrate, FileTypeOK, CountersFit
  <2>2. CASE Migrated(p)
    <3>1. tables = Tables
      BY <2>1, <2>2 DEF Migrated, FileTypeOK
    <3>2. FileTypeOK'
      BY <1>6, <2>2, StoreFileAssumption
         DEF Migrate, Target, FileTypeOK, Goto, Set, backups, counters, Steps, Backing
    <3>3. LockedIn' /\ CountersFit' /\ Vouched'
      BY <1>6, <2>2, <3>1
         DEF Migrate, FileTypeOK, LockedIn, CountersFit, Vouched, Goto, Set, backups, Backing
    <3>. QED  BY <3>2, <3>3
  <2>3. CASE ~Migrated(p)
    <3>1. /\ step[p] + 1 \in 1..Tables
          /\ tables' = IF tables >= step[p] + 1 THEN tables ELSE step[p] + 1
      <4>1. step[p] + 1 \in 1..Tables /\ step[p] + 1 \in Int /\ tables \in Int
        BY <2>1, <2>3, StoreFileAssumption DEF Migrated, FileTypeOK
      <4>2. tables' = Max({tables, step[p] + 1})
        BY <1>6, <2>3 DEF Migrate
      <4>. QED  BY <4>1, <4>2, MaxOfTwo
    <3>2. /\ tables' \in 0..Tables /\ tables <= tables' /\ step[p] + 1 <= tables'
      BY <3>1 DEF FileTypeOK
    <3>3. step' = [step EXCEPT ![p] = step[p] + 1] /\ step[p] + 1 \in 0..Tables + Keep
      BY <1>6, <2>3, <3>1, StoreFileAssumption DEF Migrate, Set
    <3>4. FileTypeOK'
      BY <1>6, <2>3, <3>2, <3>3 DEF Migrate, FileTypeOK, backups, counters
    <3>5. LockedIn' /\ Vouched'
      BY <1>6, <2>3, <3>2, StoreFileAssumption DEF Migrate, FileTypeOK, LockedIn, Vouched, backups
    <3>6. CountersFit'
      BY <1>6, <2>1, <2>3, <3>1, <3>2, <3>3, StoreFileAssumption DEF Migrate, FileTypeOK, CountersFit
    <3>. QED  BY <3>4, <3>5, <3>6
  <2>. QED  BY <2>2, <2>3
<1>7. ASSUME NEW p \in Procs, LockBackup(p) PROVE Basics'
  <2>1. FileTypeOK'
    BY <1>7 DEF LockBackup, FileTypeOK, Goto, db, counters, Steps, Backing
  <2>2. LockedIn' /\ CountersFit' /\ Vouched'
    BY <1>0, <1>7 DEF LockBackup, FileTypeOK, LockedIn, CountersFit, Vouched, Goto, db, Backing
  <2>. QED  BY <2>1, <2>2
<1>8. ASSUME NEW p \in Procs, Age(p) PROVE Basics'
  <2>1. CASE stamped /\ call[p] # "backup"
    <3>1. lock' = NoOne /\ AfterBackup(p)
      BY <1>8, <2>1 DEF Age
    <3>2. FileTypeOK'
      BY <1>8, <3>1, AfterTypes DEF Age, FileTypeOK, db, counters
    <3>3. LockedIn' /\ CountersFit' /\ Vouched'
      BY <1>0, <1>8, <3>1, AfterTypes
         DEF Age, Only, LockedIn, CountersFit, Vouched, db, Backing
    <3>. QED  BY <3>2, <3>3
  <2>2. CASE ~(stamped /\ call[p] # "backup")
    <3>1. FileTypeOK'
      BY <1>8, <2>2, StoreFileAssumption
         DEF Age, FileTypeOK, Goto, Set, db, counters, Steps, Backing
    <3>2. LockedIn' /\ CountersFit' /\ Vouched'
      BY <1>8, <2>2, StoreFileAssumption
         DEF Age, FileTypeOK, LockedIn, CountersFit, Vouched, Goto, Set, db, Backing
    <3>. QED  BY <3>1, <3>2
  <2>. QED  BY <2>1, <2>2
<1>9. ASSUME NEW p \in Procs, Rotate(p) PROVE Basics'
  <2>1. step[p] \in 0..Keep - 1
    BY <1>9, StoreFileAssumption DEF Rotate, FileTypeOK, CountersFit
  <2>2. bak' \in [Slots -> Copy \cup {Missing, Partial}]
    <3>1. step[p] # 0 => step[p] \in Slots /\ step[p] + 1 \in Slots
      BY <2>1, StoreFileAssumption DEF Slots
    <3>. QED  BY <1>9, <3>1 DEF Rotate, Slot, FileTypeOK
  <2>3. FileTypeOK'
    BY <1>9, <2>1, <2>2, StoreFileAssumption
       DEF Rotate, FileTypeOK, Goto, Set, db, counters, Steps, Backing
  <2>4. LockedIn' /\ Vouched'
    BY <1>9 DEF Rotate, FileTypeOK, LockedIn, Vouched, Goto, db, Backing
  <2>5. CountersFit'
    BY <1>9, <2>1, StoreFileAssumption DEF Rotate, FileTypeOK, CountersFit, Goto, Set, db
  <2>. QED  BY <2>3, <2>4, <2>5
<1>10. ASSUME NEW p \in Procs, CopyBegin(p) PROVE Basics'
  <2>1. FileTypeOK'
    BY <1>10 DEF CopyBegin, FileTypeOK, Goto, db, counters, Steps, Backing
  <2>2. LockedIn' /\ CountersFit' /\ Vouched'
    BY <1>10 DEF CopyBegin, FileTypeOK, LockedIn, CountersFit, Vouched, Goto, db, Backing
  <2>. QED  BY <2>1, <2>2
<1>11. ASSUME NEW p \in Procs, CopyEnd(p) PROVE Basics'
  <2>1. copied' \in 0..Keep
    BY <1>11, MinOfTwo, StoreFileAssumption DEF CopyEnd, FileTypeOK
  <2>2. [rows |-> rows, tables |-> tables] \in Copy
    BY DEF FileTypeOK, Copy
  <2>3. FileTypeOK'
    BY <1>11, <2>1, <2>2 DEF CopyEnd, FileTypeOK, Goto, db, counters, Steps, Backing
  <2>4. LockedIn' /\ CountersFit' /\ Vouched'
    BY <1>11 DEF CopyEnd, FileTypeOK, LockedIn, CountersFit, Vouched, Goto, db, Backing
  <2>. QED  BY <2>3, <2>4
<1>12. ASSUME NEW p \in Procs, Stamp(p) PROVE Basics'
  <2>1. FileTypeOK'
    BY <1>12 DEF Stamp, FileTypeOK, Goto, db, counters, Steps, Backing
  <2>2. LockedIn' /\ CountersFit' /\ Vouched'
    BY <1>12 DEF Stamp, FileTypeOK, LockedIn, CountersFit, Vouched, Goto, db, Backing
  <2>. QED  BY <2>1, <2>2
<1>13. ASSUME NEW p \in Procs, Event(p) PROVE Basics'
  <2>1. FileTypeOK'
    BY <1>13, AfterTypes DEF Event, FileTypeOK, db, counters
  <2>2. LockedIn' /\ CountersFit' /\ Vouched'
    BY <1>0, <1>13, AfterTypes DEF Event, Only, LockedIn, CountersFit, Vouched, db, Backing
  <2>. QED  BY <2>1, <2>2
<1>14. ASSUME NEW p \in Procs, Operate(p) PROVE Basics'
  <2>1. CASE call[p] = "claim"
    <3>1. rows' \in 0..MaxRows
      BY <1>14, <2>1, MinOfTwo, StoreFileAssumption DEF Operate, FileTypeOK
    <3>2. FileTypeOK'
      BY <1>14, <2>1, <3>1, EndTypes DEF Operate, FileTypeOK, backups, counters
    <3>3. LockedIn' /\ CountersFit' /\ Vouched'
      BY <1>0, <1>14, <2>1, EndTypes
         DEF Operate, Only, LockedIn, CountersFit, Vouched, backups, Backing
    <3>. QED  BY <3>2, <3>3
  <2>2. CASE call[p] # "claim"
    <3>1. tables' = Tables /\ version' = 1
      BY <1>14, <2>2 DEF Operate, Ready
    <3>2. FileTypeOK'
      BY <1>14, <2>2, <3>1, EndTypes, StoreFileAssumption DEF Operate, FileTypeOK, backups, counters
    <3>3. LockedIn' /\ CountersFit' /\ Vouched'
      BY <1>0, <1>14, <2>2, <3>1, EndTypes
         DEF Operate, Only, LockedIn, CountersFit, Vouched, backups, Backing
    <3>. QED  BY <3>2, <3>3
  <2>. QED  BY <2>1, <2>2
<1>15. ASSUME NEW p \in Procs, BackupFails(p) PROVE Basics'
  <2>1. faults' \in 0..MaxFaults
    BY <1>15, StoreFileAssumption DEF BackupFails, FileTypeOK
  <2>2. FileTypeOK'
    BY <1>15, <2>1, AfterTypes DEF BackupFails, GiveUp, FileTypeOK, db
  <2>3. LockedIn' /\ CountersFit' /\ Vouched'
    BY <1>0, <1>15, AfterTypes
       DEF BackupFails, GiveUp, Only, LockedIn, CountersFit, Vouched, db, Backing
  <2>. QED  BY <2>2, <2>3
<1>16. ASSUME NEW p \in Agents, Killed(p) PROVE Basics'
  <2>1. faults' \in 0..MaxFaults /\ spoiled' \in BOOLEAN /\ lock' \in Procs \cup {NoOne}
    BY <1>16, StoreFileAssumption DEF Killed, FileTypeOK
  <2>2. FileTypeOK'
    BY <1>0, <1>16, <2>1, EndTypes DEF Killed, FileTypeOK, db
  <2>3. LockedIn' /\ CountersFit' /\ Vouched'
    BY <1>0, <1>16, EndTypes DEF Killed, Only, LockedIn, CountersFit, Vouched, db, Backing
  <2>. QED  BY <2>2, <2>3
<1>17. CASE Day
  <2>1. days' \in 0..MaxDays
    BY <1>17, StoreFileAssumption DEF Day, FileTypeOK
  <2>3. FileTypeOK'
    BY <1>17, <2>1 DEF Day, FileTypeOK, db
  <2>2. LockedIn' /\ CountersFit' /\ Vouched'
    BY <1>17 DEF Day, LockedIn, CountersFit, Vouched, db
  <2>. QED  BY <2>2, <2>3
<1>18. CASE UNCHANGED fileVars
  BY <1>18 DEF fileVars, db, backups, counters, FileTypeOK, LockedIn, CountersFit, Vouched
<1>. QED
  BY <1>1, <1>2, <1>3, <1>4, <1>5, <1>6, <1>7, <1>8, <1>9, <1>10, <1>11, <1>12, <1>13,
     <1>14, <1>15, <1>16, <1>17, <1>18 DEF FileNext, Proceed

-----------------------------------------------------------------------------
Upkeep == StampGood /\ PrefixGood /\ SlotFree

LEMMA InitUpkeep == FileInit => Upkeep
<1>. SUFFICES ASSUME FileInit PROVE Upkeep
  OBVIOUS
<1>1. StampGood /\ SlotFree
  BY DEF FileInit, StampGood, SlotFree
<1>2. ASSUME NEW j \in 0..Keep
      PROVE  Copies(bak, j) + faults >= Least(copied, IF Moved(j) THEN j - 1 ELSE j)
  <2>1. ~Moved(j) /\ copied = 0 /\ faults = 0
    BY DEF FileInit, Moved
  <2>2. Copies(bak, j) \in Nat
    BY CopiesType, StoreFileAssumption
  <2>. QED  BY <2>1, <2>2, StoreFileAssumption DEF Least
<1>. QED  BY <1>1, <1>2 DEF Upkeep, PrefixGood

LEMMA CopiesNat == \A b : \A j \in 0..Keep : Copies(b, j) \in Nat
BY CopiesType, StoreFileAssumption

(* Steps of a process that does not hold the lock.                         *)
LEMMA QuietStep ==
  ASSUME Basics, Upkeep, NEW p \in Procs, Only(p), faults' = faults \/ faults' = faults + 1,
         UNCHANGED <<bak, stamped, lock, copied, spoiled>>,
         pc[p] \notin Backing, pc'[p] \notin Backing
  PROVE  Upkeep'
<1>1. lock # p /\ lock \in Procs \cup {NoOne}
  BY DEF Basics, LockedIn, FileTypeOK
<1>2. lock # NoOne => pc'[lock] = pc[lock] /\ step'[lock] = step[lock]
  BY <1>1 DEF Only
<1>3. AtWork' <=> AtWork
  BY <1>2 DEF AtWork
<1>4. \A j \in 0..Keep : Moved(j)' <=> Moved(j)
  BY <1>2 DEF Moved
<1>5. StampGood'
  BY <1>3 DEF Upkeep, StampGood, Whole, Only, Backing
<1>6. SlotFree'
  BY DEF Upkeep, SlotFree, Only, Backing
<1>7. PrefixGood'
  BY <1>4, CopiesNat, StoreFileAssumption DEF Upkeep, PrefixGood, Least, Basics, FileTypeOK
<1>. QED  BY <1>5, <1>6, <1>7 DEF Upkeep

(* The lock is given back: a backup that was cut off counts as a fault.    *)
LEMMA Released ==
  ASSUME Basics, Upkeep, NEW p \in Procs, lock = p, lock' = NoOne, Only(p),
         pc'[p] \notin Backing, UNCHANGED <<bak, stamped, copied>>,
         \/ ~AtWork /\ spoiled' = spoiled /\ faults' = faults
         \/ spoiled' = TRUE /\ faults' = faults + 1
  PROVE  Upkeep'
<1>1. ~AtWork' /\ \A j \in 0..Keep : ~Moved(j)'
  BY DEF AtWork, Moved
<1>2. \A q \in Procs : pc'[q] \notin Backing
  BY DEF Basics, LockedIn, Only
<1>3. StampGood'
  BY <1>1, <1>2 DEF Upkeep, StampGood, Whole, Backing
<1>4. SlotFree'
  BY <1>2 DEF SlotFree, Backing
<1>5. CASE ~AtWork /\ faults' = faults
  <2>1. \A j \in 0..Keep : ~Moved(j)
    BY <1>5 DEF AtWork, Moved
  <2>2. PrefixGood'
    BY <1>1, <1>5, <2>1 DEF Upkeep, PrefixGood
  <2>. QED  BY <1>3, <1>4, <2>2 DEF Upkeep
<1>6. CASE faults' = faults + 1
  <2>1. PrefixGood'
    BY <1>1, <1>6, CopiesNat, StoreFileAssumption
       DEF Upkeep, PrefixGood, Least, Basics, FileTypeOK
  <2>. QED  BY <1>3, <1>4, <2>1 DEF Upkeep
<1>. QED  BY <1>5, <1>6

LEMMA RotateUpkeep ==
  ASSUME Basics, Upkeep, NEW p \in Procs, Rotate(p)
  PROVE  Upkeep'
<1>1. /\ lock = p /\ lock' = p /\ lock # NoOne /\ pc[p] = "rotate"
      /\ step[p] \in 0..Keep - 1
      /\ UNCHANGED <<stamped, copied, spoiled, faults>>
      /\ copied \in Nat /\ faults \in Nat /\ Keep \in Nat
  BY StoreFileAssumption
     DEF Rotate, Basics, LockedIn, CountersFit, FileTypeOK, Backing, counters
<1>2. \A q \in Procs \ {p} : pc[q] \notin Backing
  BY <1>1 DEF Basics, LockedIn
<1>3. bak \in Bak
  BY DEF Bak, Basics, FileTypeOK
<1>4. CASE step[p] = 0
  <2>1. /\ pc' = [pc EXCEPT ![p] = "copy"] /\ pc'[p] = "copy" /\ UNCHANGED <<bak, step>>
    BY <1>4, <1>1 DEF Rotate, Goto, Basics, FileTypeOK
  <2>2. \A q \in Procs \ {p} : pc'[q] = pc[q]
    BY <2>1 DEF Basics, FileTypeOK
  <2>3. StampGood' /\ SlotFree'
    BY <1>1, <1>2, <1>4, <2>1, <2>2
       DEF Upkeep, StampGood, SlotFree, AtWork, Whole, Backing
  <2>4. \A j \in 0..Keep : Moved(j) => Moved(j)'
    BY <1>1, <1>4, <2>1 DEF Moved
  <2>5. PrefixGood'
    BY <1>1, <2>1, <2>4, CopiesNat DEF Upkeep, PrefixGood, Least
  <2>. QED  BY <2>3, <2>5 DEF Upkeep
<1>5. CASE step[p] # 0
  <2>. DEFINE k == step[p]
  <2>1. /\ k \in 1..Keep - 1 /\ k \in Nat
        /\ bak' = IF bak[k] = Missing THEN bak
                  ELSE Shifted(bak, k)
        /\ step' = [step EXCEPT ![p] = k - 1] /\ step'[p] = k - 1
        /\ pc' = pc
    BY <1>1, <1>5 DEF Rotate, Slot, Set, Shifted, Basics, FileTypeOK
  <2>2. bak'[k] = Missing
    <3>1. CASE bak[k] = Missing
      BY <2>1, <3>1
    <3>2. CASE bak[k] # Missing
      <4>1. 0 \in 0..Keep
        BY <1>1
      <4>. HIDE DEF k
      <4>. QED  BY <1>3, <2>1, <3>2, <4>1, CopiesShift
    <3>. QED  BY <3>1, <3>2
  <2>3. StampGood' /\ SlotFree'
    <3>1. AtWork'
      BY <1>1, <2>1 DEF AtWork
    <3>2. (k - 1) + 1 = k
      BY <2>1
    <3>. QED  BY <1>1, <1>2, <2>1, <2>2, <3>1, <3>2 DEF StampGood, SlotFree, Backing
  <2>. HIDE DEF k
  <2>4. \A j \in 0..Keep : Moved(j)' <=> k <= j
    BY <1>1, <2>1 DEF Moved
  <2>5. \A j \in 0..Keep : Moved(j) <=> k < Keep - 1 /\ k < j
    BY <1>1 DEF Moved, k
  <2>6. ASSUME NEW j \in 0..Keep
        PROVE  Copies(bak', j) + faults >= Least(copied, IF Moved(j)' THEN j - 1 ELSE j)
    <3>1. /\ j < k => Copies(bak', j) = Copies(bak, j)
          /\ j = k => Copies(bak', j) >= Copies(bak, j - 1)
          /\ j = k + 1 => Copies(bak', j) >= Copies(bak, j - 1)
          /\ k < Keep - 1 /\ j > k => Copies(bak', j) = Copies(bak, j)
      <4>1. CASE bak[k] = Missing
        <5>1. bak' = bak
          BY <2>1, <4>1
        <5>2. j > 0 => Copies(bak, j) >= Copies(bak, j - 1)
          BY CopiesNext, CopiesNat, StoreFileAssumption
        <5>3. Copies(bak, j) \in Nat
          BY CopiesNat
        <5>. QED  BY <2>1, <5>1, <5>2, <5>3
      <4>2. CASE bak[k] # Missing
        <5>1. k < Keep - 1 => bak[k + 1] = Missing
          BY <1>1 DEF Upkeep, SlotFree, k
        <5>2. j > 0 => Copies(bak, j - 1) \in Nat
          BY CopiesNat, <1>1
        <5>. QED  BY <1>3, <2>1, <4>2, <5>1, <5>2, CopiesShift
      <4>. QED  BY <4>1, <4>2
    <3>2. Copies(bak', j) \in Nat /\ Copies(bak, j) \in Nat
      BY CopiesNat
    <3>6. Copies(bak, j) + faults >= Least(copied, IF Moved(j) THEN j - 1 ELSE j)
      BY DEF Upkeep, PrefixGood
    <3>7. j \in Nat /\ k \in Nat
      BY <1>1, <2>1
    <3>3. CASE j < k
      <4>1. ~Moved(j) /\ ~Moved(j)'
        BY <2>4, <2>5, <3>3, <3>7
      <4>. QED  BY <3>1, <3>3, <3>6, <4>1
    <3>4. CASE j >= k /\ (j = k \/ (j = k + 1 /\ ~(k < Keep - 1)))
      <4>1. j - 1 \in 0..Keep /\ ~Moved(j - 1)
        BY <1>1, <2>1, <2>5, <3>4
      <4>2. Copies(bak, j - 1) + faults >= Least(copied, j - 1)
        BY <4>1 DEF Upkeep, PrefixGood
      <4>3. Copies(bak, j - 1) \in Nat
        BY <4>1, CopiesNat
      <4>. QED  BY <1>1, <2>1, <2>4, <3>1, <3>2, <3>4, <4>2, <4>3 DEF Least
    <3>5. CASE j > k /\ k < Keep - 1
      <4>1. Moved(j) /\ Moved(j)'
        BY <2>4, <2>5, <3>5, <3>7
      <4>. QED  BY <3>1, <3>5, <3>6, <4>1
    <3>. QED  BY <1>1, <2>1, <3>3, <3>4, <3>5
  <2>7. PrefixGood'
    BY <1>1, <2>6 DEF PrefixGood
  <2>. QED  BY <2>3, <2>7 DEF Upkeep
<1>. QED  BY <1>4, <1>5

LEMMA CopyUpkeep ==
  ASSUME Basics, Upkeep, NEW p \in Procs, CopyBegin(p) \/ CopyEnd(p)
  PROVE  Upkeep'
<1>1. /\ lock = p /\ lock' = p /\ lock # NoOne /\ pc[p] \in {"copy", "copying"}
      /\ UNCHANGED <<stamped, spoiled, faults>>
      /\ copied \in 0..Keep /\ faults \in Nat /\ Keep \in Nat \ {0} /\ 1 \in Slots
      /\ bak \in Bak /\ Only(p)
  BY StoreFileAssumption
     DEF CopyBegin, CopyEnd, Basics, LockedIn, FileTypeOK, Backing, counters, Bak, Slots, Only, Goto
<1>2. \A q \in Procs \ {p} : pc[q] \notin Backing /\ pc'[q] \notin Backing
  BY <1>1 DEF Basics, LockedIn, Only
<1>3. \A j \in 0..Keep : Moved(j) <=> 0 < j
  BY <1>1 DEF Moved
<1>4. ASSUME NEW j \in 0..Keep
      PROVE  /\ Copies(bak, j) \in Nat /\ Copies(bak', j) \in Nat
             /\ Copies(bak, j) + faults >= Least(copied, IF 0 < j THEN j - 1 ELSE j)
  BY <1>3, CopiesNat DEF Upkeep, PrefixGood
<1>5. CASE CopyBegin(p)
  <2>1. /\ bak' = [bak EXCEPT ![1] = Partial] /\ bak'[1] = Partial
        /\ pc' = [pc EXCEPT ![p] = "copying"] /\ pc'[p] = "copying" /\ pc[p] = "copy"
        /\ copied' = copied /\ step' = step
    BY <1>1, <1>5 DEF CopyBegin, Goto, Bak, Basics, FileTypeOK
  <2>2. AtWork' /\ \A j \in 0..Keep : Moved(j)' <=> 0 < j
    BY <1>1, <2>1 DEF AtWork, Moved
  <2>3. StampGood' /\ SlotFree'
    BY <1>1, <1>2, <2>1, <2>2 DEF StampGood, SlotFree, Backing
  <2>4. ASSUME NEW j \in 0..Keep
        PROVE  Copies(bak', j) + faults >= Least(copied, IF 0 < j THEN j - 1 ELSE j)
    <3>1. CASE Keep = 1
      BY <1>1, <1>4, <3>1 DEF Least
    <3>2. CASE Keep # 1
      <4>1. bak[1] = Missing
        BY <1>1, <2>1, <3>2 DEF Upkeep, SlotFree
      <4>2. WholeIn(bak', j) = WholeIn(bak, j)
        BY <1>1, <2>1, <4>1 DEF WholeIn, Bak, Slots
      <4>. QED  BY <1>4, <4>2 DEF Copies
    <3>. QED  BY <3>1, <3>2
  <2>5. PrefixGood'
    BY <1>1, <2>1, <2>2, <2>4 DEF PrefixGood
  <2>. QED  BY <2>3, <2>5 DEF Upkeep
<1>6. CASE CopyEnd(p)
  <2>. DEFINE x == [rows |-> rows, tables |-> tables]
  <2>1. /\ bak' = [bak EXCEPT ![1] = x] /\ bak'[1] = x /\ x \in Copy
        /\ pc' = [pc EXCEPT ![p] = "stamp"] /\ pc'[p] = "stamp" /\ pc[p] = "copying"
        /\ step' = step /\ bak[1] = Partial
    BY <1>1, <1>6 DEF CopyEnd, Goto, Bak, Copy, Basics, FileTypeOK, Upkeep, SlotFree
  <2>. HIDE DEF x
  <2>2. copied' = IF copied + 1 <= Keep THEN copied + 1 ELSE Keep
    BY <1>1, <1>6, MinOfTwo DEF CopyEnd
  <2>3. \A j \in 0..Keep : ~Moved(j)'
    BY <1>1, <2>1 DEF Moved
  <2>4. Whole(1)'
    BY <2>1, StoreFileAssumption DEF Whole
  <2>5. StampGood' /\ SlotFree'
    BY <1>1, <1>2, <2>1, <2>4 DEF StampGood, SlotFree, Backing
  <2>6. ASSUME NEW j \in 0..Keep
        PROVE  Copies(bak', j) + faults >= Least(copied', j)
    <3>1. CASE j = 0
      BY <1>1, <1>4, <2>2, <3>1 DEF Least
    <3>2. CASE j # 0
      <4>1. Copies(bak', j) = Copies(bak, j) + 1
        <5>1. j \in 1..Keep /\ bak[1] \in {Missing, Partial}
          BY <1>1, <2>1, <3>2
        <5>2. Copies([bak EXCEPT ![1] = x], j) = Copies(bak, j) + 1
          BY <1>1, <2>1, <5>1, CopiesFirst
        <5>. QED  BY <2>1, <5>2
      <4>2. Copies(bak, j) + faults >= Least(copied, j - 1)
        BY <1>1, <1>4, <3>2
      <4>. QED  BY <1>1, <1>4, <2>2, <3>2, <4>1, <4>2 DEF Least
    <3>. QED  BY <3>1, <3>2
  <2>7. PrefixGood'
    BY <1>1, <2>3, <2>6 DEF PrefixGood
  <2>. QED  BY <2>5, <2>7 DEF Upkeep
<1>. QED  BY <1>5, <1>6

(* Steps of the lock's holder, and of time, that leave the copies alone.   *)
LEMMA KeepsCopies ==
  ASSUME Basics, Upkeep, ~AtWork, UNCHANGED <<bak, copied, faults>>,
         \A j \in 0..Keep : ~Moved(j)'
  PROVE  PrefixGood'
<1>1. \A j \in 0..Keep : ~Moved(j)
  BY DEF AtWork, Moved
<1>. QED  BY <1>1 DEF Upkeep, PrefixGood

LEMMA NextUpkeep == Basics /\ Upkeep /\ [FileNext]_fileVars => Upkeep'
<1>. SUFFICES ASSUME Basics, Upkeep, [FileNext]_fileVars PROVE Upkeep'
  OBVIOUS
<1>0. /\ Agents \subseteq Procs /\ Cron \in Procs /\ NoOne \notin Procs /\ Keep \in Nat \ {0}
      /\ pc \in [Procs -> Steps] /\ step \in [Procs -> 0..Tables + Keep]
      /\ faults \in Nat
  BY StoreFileAssumption DEF Procs, Basics, FileTypeOK
<1>1. ASSUME NEW p \in Procs, NEW c, Begin(p, c) PROVE Upkeep'
  BY <1>0, <1>1, QuietStep DEF Begin, Goto, backups, Only, Backing
<1>2. ASSUME NEW p \in Procs, Connect(p) PROVE Upkeep'
  BY <1>0, <1>2, QuietStep DEF Connect, Goto, backups, counters, Only, Backing
<1>3. ASSUME NEW p \in Procs, ReadVersion(p) PROVE Upkeep'
  BY <1>0, <1>3, QuietStep DEF ReadVersion, Goto, backups, counters, Only, Backing
<1>4. ASSUME NEW p \in Procs, Migrate(p) PROVE Upkeep'
  <2>1. Only(p) /\ pc'[p] \notin Backing
    BY <1>0, <1>4 DEF Migrate, Goto, Set, Only, Backing
  <2>. QED  BY <1>4, <2>1, QuietStep DEF Migrate, backups, counters, Backing
<1>5. ASSUME NEW p \in Procs, LockBackup(p) PROVE Upkeep'
  <2>1. /\ lock = NoOne /\ lock' = p /\ pc' = [pc EXCEPT ![p] = "age"] /\ pc'[p] = "age"
        /\ UNCHANGED <<bak, stamped, spoiled, copied, faults, step>>
    BY <1>0, <1>5 DEF LockBackup, Goto, counters
  <2>2. \A q \in Procs \ {p} : pc'[q] \notin Backing
    BY <1>0, <2>1 DEF Basics, LockedIn
  <2>3. ~AtWork /\ \A j \in 0..Keep : ~Moved(j)'
    BY <2>1 DEF AtWork, Moved
  <2>4. StampGood' /\ SlotFree'
    BY <2>1, <2>2, <2>3 DEF Upkeep, StampGood, SlotFree, Whole, Backing
  <2>. QED  BY <2>1, <2>3, <2>4, KeepsCopies DEF Upkeep
<1>6. ASSUME NEW p \in Procs, Age(p) PROVE Upkeep'
  <2>1. lock = p /\ ~AtWork /\ UNCHANGED <<bak, stamped, copied, spoiled, faults>>
    BY <1>6 DEF Age, AtWork, Basics, LockedIn, Backing, counters
  <2>2. CASE stamped /\ call[p] # "backup"
    <3>1. lock' = NoOne /\ AfterBackup(p)
      BY <1>6, <2>2 DEF Age
    <3>. QED  BY <2>1, <3>1, AfterTypes, Released DEF Basics, Backing
  <2>3. CASE ~(stamped /\ call[p] # "backup")
    <3>1. /\ lock' = lock /\ pc'[p] = "rotate" /\ step'[p] = Keep - 1
          /\ \A q \in Procs \ {p} : pc'[q] = pc[q]
      BY <1>0, <1>6, <2>3, StoreFileAssumption DEF Age, Goto, Set
    <3>2. \A q \in Procs \ {p} : pc'[q] \notin Backing
      BY <2>1, <3>1 DEF Basics, LockedIn
    <3>3. AtWork' /\ \A j \in 0..Keep : ~Moved(j)'
      BY <1>0, <2>1, <3>1 DEF AtWork, Moved
    <3>4. StampGood' /\ SlotFree'
      BY <1>0, <2>1, <3>1, <3>2, <3>3 DEF StampGood, SlotFree, Backing
    <3>. QED  BY <2>1, <3>3, <3>4, KeepsCopies DEF Upkeep
  <2>. QED  BY <2>2, <2>3
<1>7. ASSUME NEW p \in Procs, Stamp(p) PROVE Upkeep'
  <2>1. /\ lock = p /\ lock' = p /\ pc' = [pc EXCEPT ![p] = "event"] /\ pc'[p] = "event"
        /\ ~AtWork /\ Whole(1) /\ UNCHANGED <<bak, copied, faults, step>>
    BY <1>0, <1>7
       DEF Stamp, Goto, counters, AtWork, Basics, LockedIn, Backing, Upkeep, StampGood
  <2>2. \A q \in Procs \ {p} : pc'[q] \notin Backing
    BY <1>0, <2>1 DEF Basics, LockedIn
  <2>3. \A j \in 0..Keep : ~Moved(j)'
    BY <2>1 DEF Moved
  <2>4. StampGood' /\ SlotFree'
    BY <2>1, <2>2 DEF StampGood, SlotFree, Whole, Backing
  <2>. QED  BY <2>1, <2>3, <2>4, KeepsCopies DEF Upkeep
<1>8. ASSUME NEW p \in Procs, Event(p) PROVE Upkeep'
  <2>1. lock = p /\ ~AtWork
    BY <1>8 DEF Event, AtWork, Basics, LockedIn, Backing
  <2>. QED  BY <1>8, <2>1, AfterTypes, Released DEF Event, Basics, Backing, counters
<1>9. ASSUME NEW p \in Procs, Operate(p) PROVE Upkeep'
  BY <1>9, EndTypes, QuietStep DEF Operate, Basics, backups, counters, Backing
<1>10. ASSUME NEW p \in Procs, BackupFails(p) PROVE Upkeep'
  <2>1. lock = p
    BY <1>10 DEF BackupFails, Basics, LockedIn
  <2>. QED  BY <1>10, <2>1, AfterTypes, Released DEF BackupFails, GiveUp, Basics, Backing
<1>11. ASSUME NEW p \in Procs, Killed(p) PROVE Upkeep'
  <2>1. Only(p) /\ pc'[p] \notin Backing /\ faults' = faults + 1
        /\ UNCHANGED <<bak, stamped, copied>>
    BY <1>11, EndTypes DEF Killed, Basics, Backing
  <2>2. CASE lock = p
    BY <1>11, <2>1, <2>2, Released DEF Killed
  <2>3. CASE lock # p
    <3>1. pc[p] \notin Backing /\ spoiled' = spoiled
      BY <1>11, <2>3 DEF Killed, Basics, LockedIn, FileTypeOK
    <3>. QED  BY <1>11, <2>1, <2>3, <3>1, QuietStep DEF Killed
  <2>. QED  BY <2>2, <2>3
<1>12. CASE Day
  BY <1>12 DEF Day, Upkeep, StampGood, SlotFree, PrefixGood, AtWork, Moved, Whole, Least
<1>13. CASE UNCHANGED fileVars
  BY <1>13
     DEF fileVars, backups, counters, Upkeep, StampGood, SlotFree, PrefixGood, AtWork, Moved,
         Whole, Least
<1>. QED
  BY <1>0, <1>1, <1>2, <1>3, <1>4, <1>5, <1>6, <1>7, <1>8, <1>9, <1>10, <1>11, <1>12, <1>13,
     RotateUpkeep, CopyUpkeep
     DEF FileNext, Proceed, ClaimCall, EnsureReady, ForceBackup

-----------------------------------------------------------------------------
LEMMA FileInvariant == FairSpec => [](Basics /\ Upkeep)
<1>1. Basics /\ Upkeep /\ [FileNext]_fileVars => (Basics /\ Upkeep)'
  BY NextBasics, NextUpkeep
<1>. QED  BY <1>1, InitBasics, InitUpkeep, PTL DEF FairSpec

(* Whatever calls make the tables together and wherever one is killed, no  *)
(* file of version 1 lacks a table.                                        *)
THEOREM VersionIsTrue == FairSpec => []VersionVouches
<1>1. Basics => VersionVouches
  BY DEF Basics, Vouched, VersionVouches
<1>. QED  BY <1>1, FileInvariant, PTL

(* The stamp vouches for the first copy until a later backup fails.        *)
THEOREM StampIsTrue == FairSpec => []StampVouches
<1>1. Upkeep => StampVouches
  BY DEF Upkeep, StampGood, StampVouches
<1>. QED  BY <1>1, FileInvariant, PTL

(* A failed or killed backup costs one of the earlier copies and no more,  *)
(* for any number of copies and of faults.                                 *)
THEOREM OneCopyPerFault == FairSpec => []FaultsCostOneEach
<1>1. Basics /\ Upkeep => FaultsCostOneEach
  <2>. SUFFICES ASSUME Basics, Upkeep PROVE FaultsCostOneEach
    OBVIOUS
  <2>1. {i \in Slots : Whole(i)} = WholeIn(bak, Keep)
    BY DEF Slots, Whole, WholeIn
  <2>2. Keep \in 0..Keep /\ Keep \in Nat /\ copied \in 0..Keep /\ faults \in Nat
    BY StoreFileAssumption DEF Basics, FileTypeOK
  <2>3. Moved(Keep) => AtWork
    BY DEF Moved, AtWork
  <2>4. Copies(bak, Keep) + faults >= Least(copied, IF Moved(Keep) THEN Keep - 1 ELSE Keep)
    BY <2>2 DEF Upkeep, PrefixGood
  <2>5. Copies(bak, Keep) \in Nat
    BY <2>2, CopiesNat
  <2>6. Copies(bak, Keep) + faults + (IF AtWork THEN 1 ELSE 0) >= copied
    BY <2>2, <2>3, <2>4, <2>5 DEF Least
  <2>. QED  BY <2>1, <2>6 DEF FaultsCostOneEach, Copies
<1>. QED  BY <1>1, FileInvariant, PTL
=============================================================================
