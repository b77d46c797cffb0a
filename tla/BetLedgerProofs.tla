-------------------------- MODULE BetLedgerProofs --------------------------
(***************************************************************************)
(* Machine-checked proofs about BetLedger, for any actors and bets, as     *)
(* long as the writers without the lock wait for their turn: the code lets *)
(* them write beside the others, and then neither result holds.            *)
(*                                                                         *)
(* Claims take turns by the lock: who is about to rename the ledger away   *)
(* has read the one that is there. For the agreement of claims and         *)
(* statuses the bet's own block must be found, and the argument follows a  *)
(* claim file from the one who announces it, who will mark the bet, to the *)
(* one who completes the bet, who will take the file away.                 *)
(***************************************************************************)
EXTENDS BetLedger, TLAPS

Claiming == {"claim", "refresh", "announce", "restamp", "lock", "mark"}
Completing == {"reread", "truncate", "complete", "release"}
Specifying == {"spec", "rewrite", "save", "insert"}

(* While the ledger is written in place, nobody claims or writes it too.   *)
TurnsTaken ==
  /\ \A a, c \in Actors : step(a) \in Claiming => step(c) \notin InPlace
  /\ \A a, c \in Actors : a # c /\ step(a) \in InPlace => step(c) \notin InPlace

(* Who holds the lock knows the ledger.                                    *)
LockHeld ==
  \A a \in Actors : step(a) = "mark" => lock = a /\ proc[a].text = ledger.text

(* Who is about to write in place has the ledger open.                     *)
WriterOpen == \A a \in Actors : step(a) \in {"complete", "save"} => a \in ledger.open

Roles ==
  \A a \in Actors :
    /\ step(a) \in Claiming => a \in Claimers
    /\ step(a) \in Completing => a \in Completers
    /\ step(a) \in Specifying => a \in SpecWriters \cup Editors

Workers == Claimers \cup Completers \cup SpecWriters \cup Editors
Alive == \A a \in Workers : step(a) # "dead"

(* A bet with a claim file, or one whose claim is being refreshed, is in   *)
(* progress in the ledger - or will be when its claimer has marked it -    *)
(* until its completion, which will remove the file.                       *)
Shown(b) ==
  \/ broadcast[b].text # NoFile
  \/ \E a \in Actors : step(a) \in {"refresh", "restamp"} /\ bet(a) = b
InWork(b) ==
  \E a \in Actors : step(a) \in {"announce", "lock", "mark", "complete", "release"} /\ bet(a) = b
Agreed ==
  /\ ledger.text = Torn => \E a \in Actors : step(a) \in {"complete", "save"}
  /\ \A a \in Actors :
       step(a) \in {"truncate", "complete"} \cup Specifying => proc[a].text # Torn
  /\ \A b \in Bets : Shown(b) =>
       /\ ledger.text # Torn /\ ~InWork(b) => ledger.text[b] = "in_progress"
       /\ \A a \in Actors :
            /\ step(a) \in {"truncate", "complete"} /\ bet(a) # b => proc[a].text[b] = "in_progress"
            /\ step(a) \in Specifying => proc[a].text[b] = "in_progress"

(* The inductive invariant, next to TypeOK.                                *)
Discipline == TurnsTaken /\ LockHeld /\ WriterOpen /\ Roles
IInv == Discipline /\ (Alive => Agreed)

-----------------------------------------------------------------------------
Commands == [step : Steps, bet : Bets, stamp : 0 .. MaxTime, text : Texts]

(* What the three ways of changing a file do to it.                        *)
LEMMA FileOps ==
  ASSUME NEW T, NEW f \in File(T), NEW a \in Actors, NEW t \in T
  PROVE  /\ Fill(f, a, t) \in File(T) /\ Swap(t) \in File(T)
         /\ Torn \in T => Truncate(f, a) \in File(T)
         /\ Fill(f, a, t).open = f.open \ {a}
         /\ Fill(f, a, t).text = IF a \in f.open THEN t ELSE f.text
         /\ Swap(t).text = t /\ Swap(t).open = {}
         /\ Truncate(f, a).text = Torn /\ Truncate(f, a).open = f.open \cup {a}
BY DEF File, Fill, Swap, Truncate

(* The steps of the commands.                                              *)
Step(a) ==
  \/ ClaimOpen(a) \/ ClaimAnnounce(a) \/ ClaimRefresh(a)
  \/ LockLedger(a) \/ ClaimMark(a) \/ GcUnlink(a)
  \/ CompleteRead(a) \/ InPlaceOpen(a) \/ CompleteSave(a)
  \/ CompleteRelease(a) \/ SpecReread(a) \/ SpecSave(a) \/ InsertSwap(a)
  \/ StartRun(a) \/ StartRefused(a)
Start(a, b) ==
  \/ \E force \in BOOLEAN : ClaimRead(a, b, force)
  \/ GcRead(a, b) \/ CompleteLoad(a, b) \/ SpecLoad(a, b) \/ StartGuard(a, b)
  \/ \E s \in {"rewrite", "insert"} : EditRead(a, b, s)

LEMMA StepKinds ==
  ASSUME [Next]_vars
  PROVE  \/ \E a \in Actors, b \in Bets : Start(a, b)
         \/ \E a \in Actors : Step(a) \/ Kill(a)
         \/ Tick \/ UNCHANGED vars
BY DEF Next, Start, Step

(* The text with a status changed is a text.                               *)
LEMMA StatusTypes ==
  ASSUME NEW t \in Texts, NEW b \in Bets, NEW s \in Statuses
  PROVE  /\ WithStatus(t, b, s) \in Texts
         /\ t = Torn <=> WithStatus(t, b, s) = Torn
         /\ t # Torn => /\ WithStatus(t, b, s)[Anchor[b]] = s
                        /\ \A c \in Bets : c # Anchor[b] => WithStatus(t, b, s)[c] = t[c]
BY BetLedgerAssumption DEF WithStatus, Texts

(* A command that starts: what it is, and that nothing else changes.       *)
LEMMA Starts ==
  ASSUME TypeOK, NEW a \in Actors, NEW b \in Bets, Start(a, b)
  PROVE  /\ step(a) = "idle" /\ UNCHANGED <<files, finished, runs, clock>>
         /\ proc' \in [Actors -> Commands] /\ told' \in [Bets -> SUBSET Actors]
         /\ \A c \in Actors \ {a} : proc'[c] = proc[c]
         /\ proc'[a].bet = b
         /\ \/ proc'[a].step = "claim" /\ a \in Claimers
            \/ proc'[a].step = "refresh" /\ a \in Claimers /\ broadcast[b].text # NoFile
            \/ proc'[a].step \in {"unlink", "start"}
            \/ proc'[a].step = "reread" /\ a \in Completers /\ ledger.text # Torn
            \/ proc'[a].step \in {"spec", "rewrite", "insert"} /\ a \in SpecWriters \cup Editors
               /\ ledger.text # Torn /\ proc'[a].text = ledger.text
         /\ Turn(proc'[a].step)
<1> USE BetLedgerAssumption DEF TypeOK, File, Commands, Begin, Steps, reports
<1>2. ASSUME NEW force \in BOOLEAN, ClaimRead(a, b, force)
      PROVE  /\ a \in Claimers /\ UNCHANGED <<files, finished, runs, clock>>
             /\ told' \in [Bets -> SUBSET Actors]
             /\ \/ Begin(a, "claim", b, clock, Torn)
                \/ Begin(a, "refresh", b, clock, Torn) /\ broadcast[b].text # NoFile
  BY <1>2 DEF ClaimRead, HeldBy
<1>3. CASE \E force \in BOOLEAN : ClaimRead(a, b, force)
  <2>1. PICK force \in BOOLEAN : ClaimRead(a, b, force) BY <1>3
  <2>2. CASE Begin(a, "claim", b, clock, Torn) BY <1>2, <2>1, <2>2 DEF Texts
  <2>3. CASE Begin(a, "refresh", b, clock, Torn) /\ broadcast[b].text # NoFile
    BY <1>2, <2>1, <2>3 DEF Texts
  <2>4. QED BY <1>2, <2>1, <2>2, <2>3
<1>4. CASE GcRead(a, b) BY <1>4 DEF GcRead, Texts
<1>5. CASE CompleteLoad(a, b) BY <1>5 DEF CompleteLoad, Texts
<1>6. CASE SpecLoad(a, b) BY <1>6 DEF SpecLoad
<1>7. CASE StartGuard(a, b) BY <1>7 DEF StartGuard, Texts
<1>8. CASE \E s \in {"rewrite", "insert"} : EditRead(a, b, s)
  <2>1. PICK s \in {"rewrite", "insert"} : EditRead(a, b, s) BY <1>8
  <2>2. QED BY <2>1 DEF EditRead
<1>9. QED BY <1>3, <1>4, <1>5, <1>6, <1>7, <1>8 DEF Start

(* A command goes on, perhaps with another text in hand, or it ends.       *)
Goes(a, s, t) ==
  /\ proc' \in [Actors -> Commands] /\ \A c \in Actors \ {a} : proc'[c] = proc[c]
  /\ proc'[a].step = s /\ proc'[a].bet = bet(a) /\ proc'[a].text = t
Ends(a) ==
  /\ proc' \in [Actors -> Commands] /\ \A c \in Actors \ {a} : proc'[c] = proc[c]
  /\ proc'[a].step = "idle"

LEMMA Going ==
  ASSUME TypeOK, NEW a \in Actors, NEW s \in Steps, NEW t \in Texts,
         \/ Goto(a, s) /\ t = proc[a].text
         \/ proc' = [proc EXCEPT ![a] = [@ EXCEPT !.step = s, !.text = t]]
  PROVE  Goes(a, s, t)
<1> DEFINE r == [proc[a] EXCEPT !.step = s, !.text = t]
<1>1. proc[a] \in Commands /\ proc \in [Actors -> Commands] BY DEF TypeOK, Commands
<1>2. r \in Commands /\ r.step = s /\ r.text = t /\ r.bet = bet(a) BY <1>1 DEF Commands, bet
<1>3. proc' = [proc EXCEPT ![a] = r]
  <2>1. CASE Goto(a, s) /\ t = proc[a].text
    <3>1. r = [proc[a] EXCEPT !.step = s] BY <1>1, <2>1 DEF Commands
    <3>2. QED BY <2>1, <3>1 DEF Goto
  <2>2. CASE proc' = [proc EXCEPT ![a] = [@ EXCEPT !.step = s, !.text = t]]
    BY <2>2
  <2>3. QED BY <2>1, <2>2
<1>4. HIDE DEF r
<1>5. QED BY <1>1, <1>2, <1>3 DEF Goes

LEMMA Ending ==
  ASSUME TypeOK, NEW a \in Actors, End(a)
  PROVE  Ends(a)
BY BetLedgerAssumption DEF TypeOK, End, Ends, Idle, Commands, Steps, Texts

LEMMA Moves ==
  ASSUME TypeOK, NEW a \in Actors, Step(a)
  PROVE  \/ ClaimOpen(a) /\ step(a) = "claim" /\ Goes(a, "announce", proc[a].text)
         \/ ClaimOpen(a) /\ step(a) = "refresh" /\ Goes(a, "restamp", proc[a].text)
         \/ ClaimAnnounce(a) /\ step(a) = "announce" /\ Goes(a, "lock", proc[a].text)
         \/ ClaimRefresh(a) /\ step(a) = "restamp" /\ Ends(a)
         \/ LockLedger(a) /\ step(a) = "lock" /\ Goes(a, "mark", ledger.text)
         \/ ClaimMark(a) /\ step(a) = "mark" /\ Ends(a)
         \/ GcUnlink(a) /\ step(a) = "unlink" /\ Ends(a)
         \/ CompleteRead(a) /\ step(a) = "reread" /\ Ends(a)
         \/ CompleteRead(a) /\ step(a) = "reread" /\ ledger.text # Torn
            /\ Goes(a, "truncate", WithStatus(ledger.text, bet(a), "done"))
         \/ InPlaceOpen(a) /\ step(a) = "truncate" /\ Goes(a, "complete", proc[a].text)
         \/ InPlaceOpen(a) /\ step(a) = "rewrite" /\ Goes(a, "save", proc[a].text)
         \/ CompleteSave(a) /\ step(a) = "complete" /\ Goes(a, "release", proc[a].text)
         \/ CompleteRelease(a) /\ step(a) = "release" /\ Ends(a)
         \/ SpecReread(a) /\ step(a) = "spec"
            /\ Goes(a, "rewrite", IF ledger.text = Torn THEN Torn ELSE proc[a].text)
         \/ SpecSave(a) /\ step(a) = "save" /\ Ends(a)
         \/ InsertSwap(a) /\ step(a) = "insert" /\ Ends(a)
         \/ (StartRun(a) \/ StartRefused(a)) /\ step(a) = "start" /\ Ends(a)
<1>1. proc[a].text \in Texts /\ ledger.text \in Texts /\ Torn \in Texts /\ bet(a) \in Bets
  <2>1. proc[a] \in Commands /\ ledger \in File(Texts) BY DEF TypeOK, Commands
  <2>2. Torn \in Texts BY DEF Texts
  <2>3. QED BY <2>1, <2>2 DEF Commands, File, bet
<1>2. {"announce", "restamp", "lock", "mark", "truncate", "complete", "save", "release", "rewrite"}
        \subseteq Steps
  BY DEF Steps
<1>3. CASE ClaimOpen(a)
  <2>1. \/ step(a) = "claim" /\ Goto(a, "announce")
        \/ step(a) = "refresh" /\ Goto(a, "restamp")
    BY <1>3 DEF ClaimOpen
  <2>2. QED BY <1>1, <1>2, <1>3, <2>1, Going
<1>4. CASE ClaimAnnounce(a) BY <1>1, <1>2, <1>4, Going DEF ClaimAnnounce
<1>5. CASE ClaimRefresh(a) BY <1>5, Ending DEF ClaimRefresh
<1>6. CASE LockLedger(a) BY <1>1, <1>2, <1>6, Going DEF LockLedger
<1>7. CASE ClaimMark(a) BY <1>7, Ending DEF ClaimMark
<1>8. CASE GcUnlink(a) BY <1>8, Ending DEF GcUnlink
<1>9. CASE CompleteRead(a)
  <2>1. WithStatus(ledger.text, bet(a), "done") \in Texts
    BY <1>1, StatusTypes DEF Statuses
  <2>2. QED BY <1>2, <1>9, <2>1, Going, Ending DEF CompleteRead
<1>10. CASE InPlaceOpen(a)
  <2>1. \/ step(a) = "truncate" /\ Goto(a, "complete")
        \/ step(a) = "rewrite" /\ Goto(a, "save")
    BY <1>10 DEF InPlaceOpen
  <2>2. QED BY <1>1, <1>2, <1>10, <2>1, Going
<1>11. CASE CompleteSave(a) BY <1>1, <1>2, <1>11, Going DEF CompleteSave
<1>12. CASE CompleteRelease(a) BY <1>12, Ending DEF CompleteRelease
<1>13. CASE SpecReread(a)
  <2>1. proc' = [proc EXCEPT ![a] = [@ EXCEPT !.step = "rewrite",
                    !.text = IF ledger.text = Torn THEN Torn ELSE proc[a].text]]
    <3>1. CASE ledger.text = Torn BY <1>13, <3>1 DEF SpecReread
    <3>2. CASE ledger.text # Torn BY <1>13, <3>2 DEF SpecReread
    <3>3. QED BY <3>1, <3>2
  <2>2. (IF ledger.text = Torn THEN Torn ELSE proc[a].text) \in Texts BY <1>1
  <2>3. Goes(a, "rewrite", IF ledger.text = Torn THEN Torn ELSE proc[a].text)
    BY <1>2, <2>1, <2>2, Going
  <2>4. QED BY <1>13, <2>3 DEF SpecReread
<1>14. CASE SpecSave(a) BY <1>14, Ending DEF SpecSave
<1>15. CASE InsertSwap(a) BY <1>15, Ending DEF InsertSwap
<1>16. CASE StartRun(a) \/ StartRefused(a) BY <1>16, Ending DEF StartRun, StartRefused
<1>17. QED
  BY <1>3, <1>4, <1>5, <1>6, <1>7, <1>8, <1>9, <1>10, <1>11, <1>12, <1>13, <1>14, <1>15, <1>16
  DEF Step

(* What a step does to the ledger ...                                      *)
LEMMA LedgerStep ==
  ASSUME TypeOK, NEW a \in Actors, Step(a)
  PROVE  /\ ledger' \in File(Texts)
         /\ \/ UNCHANGED ledger /\ step(a) \notin {"mark", "truncate", "rewrite", "complete", "save", "insert"}
            \/ /\ step(a) = "mark" /\ ledger'.open = {}
               /\ ledger'.text = WithStatus(proc[a].text, bet(a), "in_progress")
            \/ step(a) = "insert" /\ ledger'.open = {} /\ ledger'.text = proc[a].text
            \/ /\ step(a) \in {"truncate", "rewrite"}
               /\ ledger'.open = ledger.open \cup {a} /\ ledger'.text = Torn
            \/ /\ step(a) \in {"complete", "save"} /\ ledger'.open = ledger.open \ {a}
               /\ ledger'.text = IF a \in ledger.open THEN proc[a].text ELSE ledger.text
<1>1. /\ proc[a] \in Commands /\ ledger \in File(Texts) /\ Torn \in Texts
      /\ proc[a].text \in Texts /\ bet(a) \in Bets
  BY DEF TypeOK, Commands, Texts, bet
<1>2. CASE ClaimMark(a)
  <2>1. WithStatus(proc[a].text, bet(a), "in_progress") \in Texts
    BY <1>1, StatusTypes DEF Statuses
  <2>2. QED BY <1>1, <1>2, <2>1, FileOps DEF ClaimMark
<1>3. CASE InPlaceOpen(a) BY <1>1, <1>3, FileOps DEF InPlaceOpen
<1>4. CASE CompleteSave(a) BY <1>1, <1>4, FileOps DEF CompleteSave
<1>5. CASE SpecSave(a) BY <1>1, <1>5, FileOps DEF SpecSave
<1>6. CASE InsertSwap(a) BY <1>1, <1>6, FileOps DEF InsertSwap
<1>7. CASE /\ UNCHANGED ledger
           /\ step(a) \notin {"mark", "truncate", "rewrite", "complete", "save", "insert"}
  BY <1>1, <1>7
<1>8. QED
  BY <1>2, <1>3, <1>4, <1>5, <1>6, <1>7
  DEF Step, ClaimOpen, ClaimAnnounce, ClaimRefresh, LockLedger, GcUnlink, CompleteRead,
      CompleteRelease, SpecReread, StartRun, StartRefused, files

(* ... and to the claim files.                                             *)
LEMMA BroadcastStep ==
  ASSUME TypeOK, NEW a \in Actors, Step(a)
  PROVE  /\ broadcast' \in [Bets -> File(Claims \cup {Torn, NoFile})]
         /\ \A b \in Bets \ {bet(a)} : broadcast'[b] = broadcast[b]
         /\ LET f == broadcast[bet(a)]
                g == broadcast'[bet(a)]
            IN \/ step(a) \in {"claim", "refresh"} /\ g.open = f.open \cup {a} /\ g.text = Torn
               \/ /\ step(a) \in {"announce", "restamp"} /\ g.open = f.open \ {a}
                  /\ g.text = f.text \/ g.text # NoFile
               \/ step(a) \in {"release", "unlink"} /\ g.open = {} /\ g.text = NoFile
               \/ /\ step(a) \notin {"claim", "refresh", "announce", "restamp", "release", "unlink"}
                  /\ g = f
<1> DEFINE T == Claims \cup {Torn, NoFile}
           c == bet(a)
           f == broadcast[c]
           stamped == [actor |-> a, at |-> proc[a].stamp]
<1>1. /\ broadcast \in [Bets -> File(T)] /\ c \in Bets /\ Torn \in T /\ NoFile \in T
      /\ f \in File(T) /\ Torn # NoFile
  BY BetLedgerAssumption DEF TypeOK, bet
<1>2. stamped \in T /\ stamped # NoFile
  BY BetLedgerAssumption DEF TypeOK, Claims
<1> HIDE DEF T, stamped
<1>3. ASSUME NEW g \in File(T), broadcast' = [broadcast EXCEPT ![c] = g]
      PROVE  /\ broadcast' \in [Bets -> File(T)] /\ broadcast'[c] = g
             /\ \A b \in Bets \ {c} : broadcast'[b] = broadcast[b]
  BY <1>1, <1>3
<1>4. CASE ClaimOpen(a)
  <2>1. broadcast' = [broadcast EXCEPT ![c] = Truncate(f, a)] /\ step(a) \in {"claim", "refresh"}
    BY <1>4 DEF ClaimOpen
  <2>2. /\ Truncate(f, a) \in File(T)
        /\ Truncate(f, a).text = Torn /\ Truncate(f, a).open = f.open \cup {a}
    BY <1>1, FileOps
  <2>3. /\ broadcast' \in [Bets -> File(T)] /\ broadcast'[c] = Truncate(f, a)
        /\ \A b \in Bets \ {c} : broadcast'[b] = broadcast[b]
    BY <1>3, <2>1, <2>2
  <2>4. QED BY <2>1, <2>2, <2>3 DEF T
<1>5. CASE ClaimAnnounce(a) \/ ClaimRefresh(a)
  <2>1. broadcast' = [broadcast EXCEPT ![c] = Fill(f, a, stamped)]
        /\ step(a) \in {"announce", "restamp"}
    BY <1>5 DEF ClaimAnnounce, ClaimRefresh, Announced, stamped
  <2>2. /\ Fill(f, a, stamped) \in File(T) /\ Fill(f, a, stamped).open = f.open \ {a}
        /\ Fill(f, a, stamped).text \in {f.text, stamped}
    BY <1>1, <1>2, FileOps
  <2>3. /\ broadcast' \in [Bets -> File(T)] /\ broadcast'[c] = Fill(f, a, stamped)
        /\ \A b \in Bets \ {c} : broadcast'[b] = broadcast[b]
    BY <1>3, <2>1, <2>2
  <2>4. QED BY <1>2, <2>1, <2>2, <2>3 DEF T
<1>6. CASE GcUnlink(a) \/ CompleteRelease(a)
  <2>1. broadcast' = [broadcast EXCEPT ![c] = Swap(NoFile)] /\ step(a) \in {"release", "unlink"}
    BY <1>6 DEF GcUnlink, CompleteRelease, Unlink
  <2>2. Swap(NoFile) \in File(T) /\ Swap(NoFile).text = NoFile /\ Swap(NoFile).open = {}
    BY <1>1, FileOps
  <2>3. /\ broadcast' \in [Bets -> File(T)] /\ broadcast'[c] = Swap(NoFile)
        /\ \A b \in Bets \ {c} : broadcast'[b] = broadcast[b]
    BY <1>3, <2>1, <2>2
  <2>4. QED BY <2>1, <2>2, <2>3 DEF T
<1>7. CASE /\ UNCHANGED broadcast
           /\ step(a) \notin {"claim", "refresh", "announce", "restamp", "release", "unlink"}
  BY <1>1, <1>7 DEF T
<1>8. QED
  BY <1>4, <1>5, <1>6, <1>7
  DEF Step, LockLedger, ClaimMark, CompleteRead, InPlaceOpen, CompleteSave, SpecReread,
      SpecSave, InsertSwap, StartRun, StartRefused, files

(* A killed command leaves the texts of the files as they are.             *)
LEMMA KillStep ==
  ASSUME TypeOK, NEW a \in Actors, Kill(a)
  PROVE  /\ step(a) # "idle" /\ step(a) # "dead" /\ UNCHANGED <<reports, clock>>
         /\ proc' \in [Actors -> Commands] /\ proc'[a].step = "dead"
         /\ \A c \in Actors \ {a} : proc'[c] = proc[c]
         /\ ledger' \in File(Texts) /\ ledger'.text = ledger.text /\ ledger'.open = ledger.open \ {a}
         /\ broadcast' \in [Bets -> File(Claims \cup {Torn, NoFile})]
         /\ \A b \in Bets : /\ broadcast'[b].text = broadcast[b].text
                            /\ broadcast'[b].open = broadcast[b].open \ {a}
         /\ lock' = IF lock = a THEN NoActor ELSE lock
<1>1. Idle \in Commands /\ [Idle EXCEPT !.step = "dead"] \in Commands
      /\ [Idle EXCEPT !.step = "dead"].step = "dead"
  <2>1. (CHOOSE b \in Bets : TRUE) \in Bets BY BetLedgerAssumption
  <2>2. Idle \in Commands BY <2>1, BetLedgerAssumption DEF Idle, Commands, Steps, Texts
  <2>3. "dead" \in Steps BY DEF Steps
  <2>4. QED BY <2>2, <2>3 DEF Commands
<1>2. ASSUME NEW T, NEW f \in File(T)
      PROVE  LET g == [f EXCEPT !.open = @ \ {a}]
             IN g \in File(T) /\ g.text = f.text /\ g.open = f.open \ {a}
  BY DEF File
<1>3. ledger' \in File(Texts) /\ ledger'.text = ledger.text /\ ledger'.open = ledger.open \ {a}
  BY <1>2 DEF Kill, TypeOK
<1>4. /\ broadcast' \in [Bets -> File(Claims \cup {Torn, NoFile})]
      /\ \A b \in Bets : /\ broadcast'[b].text = broadcast[b].text
                         /\ broadcast'[b].open = broadcast[b].open \ {a}
  BY <1>2 DEF Kill, TypeOK
<1>5. proc' \in [Actors -> Commands] /\ proc'[a].step = "dead"
      /\ \A c \in Actors \ {a} : proc'[c] = proc[c]
  BY <1>1 DEF Kill, TypeOK, Commands
<1>6. QED BY <1>3, <1>4, <1>5 DEF Kill

(* ... and to everything else.                                             *)
LEMMA RestStep ==
  ASSUME TypeOK, NEW a \in Actors, Step(a)
  PROVE  /\ told' \in [Bets -> SUBSET Actors] /\ finished' \subseteq Bets
         /\ runs' \subseteq Actors \X Bets /\ clock' = clock
         /\ \/ step(a) = "lock" /\ lock = NoActor /\ lock' = a
            \/ step(a) = "mark" /\ lock' = NoActor
            \/ step(a) \notin {"lock", "mark"} /\ lock' = lock
<1>1. bet(a) \in Bets /\ told \in [Bets -> SUBSET Actors] BY DEF TypeOK, bet
<1>2. UNCHANGED clock
  BY DEF Step, ClaimOpen, ClaimAnnounce, ClaimRefresh, LockLedger, ClaimMark, GcUnlink,
         CompleteRead, InPlaceOpen, CompleteSave, CompleteRelease, SpecReread, SpecSave,
         InsertSwap, StartRun, StartRefused, reports
<1>3. told' \in [Bets -> SUBSET Actors]
  BY <1>1
  DEF Step, ClaimOpen, ClaimAnnounce, ClaimRefresh, LockLedger, ClaimMark, GcUnlink,
      CompleteRead, InPlaceOpen, CompleteSave, CompleteRelease, SpecReread, SpecSave,
      InsertSwap, StartRun, StartRefused, Unlink, reports
<1>4. finished' \subseteq Bets /\ runs' \subseteq Actors \X Bets
  BY <1>1
  DEF TypeOK, Step, ClaimOpen, ClaimAnnounce, ClaimRefresh, LockLedger, ClaimMark, GcUnlink,
      CompleteRead, InPlaceOpen, CompleteSave, CompleteRelease, SpecReread, SpecSave,
      InsertSwap, StartRun, StartRefused, Unlink, reports
<1>5. \/ step(a) = "lock" /\ lock = NoActor /\ lock' = a
      \/ step(a) = "mark" /\ lock' = NoActor
      \/ step(a) \notin {"lock", "mark"} /\ lock' = lock
  BY DEF Step, ClaimOpen, ClaimAnnounce, ClaimRefresh, LockLedger, LockFree, ClaimMark, GcUnlink,
         CompleteRead, InPlaceOpen, CompleteSave, CompleteRelease, SpecReread, SpecSave,
         InsertSwap, StartRun, StartRefused, files
<1>6. QED BY <1>2, <1>3, <1>4, <1>5

(* What a command does next.                                               *)
Sequel ==
  {<<"claim", "announce">>, <<"refresh", "restamp">>, <<"announce", "lock">>,
   <<"restamp", "idle">>, <<"lock", "mark">>, <<"mark", "idle">>, <<"unlink", "idle">>,
   <<"reread", "idle">>, <<"reread", "truncate">>, <<"truncate", "complete">>,
   <<"rewrite", "save">>, <<"complete", "release">>, <<"release", "idle">>,
   <<"spec", "rewrite">>, <<"save", "idle">>, <<"insert", "idle">>, <<"start", "idle">>}

LEMMA Sequels ==
  ASSUME TypeOK, NEW a \in Actors, Step(a)
  PROVE  /\ proc' \in [Actors -> Commands] /\ \A c \in Actors \ {a} : proc'[c] = proc[c]
         /\ <<step(a), proc'[a].step>> \in Sequel
         /\ proc'[a].step # "idle" => proc'[a].bet = bet(a)
         /\ \/ step(a) \in {"lock", "reread", "spec"}
            \/ proc'[a].step = "idle" \/ proc'[a].text = proc[a].text
         /\ step(a) = "lock" => proc'[a].text = ledger.text
         /\ step(a) = "reread" /\ proc'[a].step # "idle" =>
              ledger.text # Torn /\ proc'[a].text = WithStatus(ledger.text, bet(a), "done")
         /\ step(a) = "spec" =>
              proc'[a].text = IF ledger.text = Torn THEN Torn ELSE proc[a].text
<1>1. \/ /\ proc' \in [Actors -> Commands] /\ \A c \in Actors \ {a} : proc'[c] = proc[c]
         /\ proc'[a].step = "idle"
         /\ step(a) \in {"restamp", "mark", "unlink", "reread", "release", "save", "insert",
                        "start"}
      \/ /\ proc' \in [Actors -> Commands] /\ \A c \in Actors \ {a} : proc'[c] = proc[c]
         /\ proc'[a].bet = bet(a)
         /\ \/ /\ <<step(a), proc'[a].step>> \in
                    {<<"claim", "announce">>, <<"refresh", "restamp">>, <<"announce", "lock">>,
                     <<"truncate", "complete">>, <<"rewrite", "save">>, <<"complete", "release">>}
               /\ proc'[a].text = proc[a].text
            \/ step(a) = "lock" /\ proc'[a].step = "mark" /\ proc'[a].text = ledger.text
            \/ /\ step(a) = "reread" /\ proc'[a].step = "truncate" /\ ledger.text # Torn
               /\ proc'[a].text = WithStatus(ledger.text, bet(a), "done")
            \/ /\ step(a) = "spec" /\ proc'[a].step = "rewrite"
               /\ proc'[a].text = IF ledger.text = Torn THEN Torn ELSE proc[a].text
  BY Moves DEF Goes, Ends
<1>2. QED BY <1>1 DEF Sequel

LEMMA TypesStay ==
  ASSUME TypeOK, [Next]_vars
  PROVE  TypeOK'
<1>0. TypeOK /\ BetLedgerAssumption BY BetLedgerAssumption
<1>1. ASSUME NEW a \in Actors, NEW b \in Bets, Start(a, b) PROVE TypeOK'
  <2>1. /\ step(a) = "idle" /\ UNCHANGED <<files, finished, runs, clock>>
        /\ proc' \in [Actors -> Commands] /\ told' \in [Bets -> SUBSET Actors]
        /\ \A c \in Actors \ {a} : proc'[c] = proc[c]
    BY <1>1, Starts
  <2>2. \A c \in ledger.open : c \in Actors \ {a} /\ step(c) \in {"complete", "save"}
    BY <2>1 DEF TypeOK, File
  <2>3. \A d \in Bets : \A c \in broadcast[d].open :
          c \in Actors \ {a} /\ step(c) \in {"announce", "restamp"} /\ bet(c) = d
    BY <2>1 DEF TypeOK, File
  <2>4. \A c \in ledger'.open : step(c)' \in {"complete", "save"}
    BY <2>1, <2>2 DEF files, step
  <2>5. \A d \in Bets : \A c \in broadcast'[d].open :
          step(c)' \in {"announce", "restamp"} /\ bet(c)' = d
    BY <2>1, <2>3 DEF files, step, bet
  <2>6. QED BY <2>1, <2>4, <2>5 DEF TypeOK, files, Commands
<1>2. ASSUME NEW a \in Actors, Step(a) PROVE TypeOK'
  <2>1. proc' \in [Actors -> Commands] /\ \A c \in Actors \ {a} : proc'[c] = proc[c]
    BY <1>2, Sequels
  <2>2. \A c \in ledger'.open : proc'[c].step \in {"complete", "save"}
    <3>1. \A c \in ledger.open : c \in Actors /\ step(c) \in {"complete", "save"}
      BY DEF TypeOK, File
    <3>2. \A c \in Actors \ {a} : c \in ledger'.open => c \in ledger.open BY <1>2, LedgerStep
    <3>3. a \in ledger'.open => step(a) \in {"truncate", "rewrite"} BY <1>2, <3>1, LedgerStep
    <3>4. step(a) \in {"truncate", "rewrite"} => proc'[a].step \in {"complete", "save"}
      BY <1>2, Sequels DEF Sequel
    <3>5. ledger'.open \subseteq Actors BY <1>2, LedgerStep DEF File
    <3>6. QED BY <2>1, <3>1, <3>2, <3>3, <3>4, <3>5 DEF step
  <2>3. \A b \in Bets : \A c \in broadcast'[b].open :
          proc'[c].step \in {"announce", "restamp"} /\ proc'[c].bet = b
    <3> SUFFICES ASSUME NEW b \in Bets, NEW c \in broadcast'[b].open
                 PROVE  proc'[c].step \in {"announce", "restamp"} /\ proc'[c].bet = b
      OBVIOUS
    <3>1. c \in Actors
      <4>1. broadcast'[b] \in File(Claims \cup {Torn, NoFile}) BY <1>2, BroadcastStep
      <4>2. QED BY <4>1 DEF File
    <3>2. \A d \in broadcast[b].open : step(d) \in {"announce", "restamp"} /\ bet(d) = b
      BY DEF TypeOK
    <3>3. CASE c # a
      <4>1. c \in broadcast[b].open BY <1>2, <3>1, <3>3, BroadcastStep
      <4>2. QED BY <2>1, <3>1, <3>2, <3>3, <4>1 DEF step, bet
    <3>4. CASE c = a
      <4>1. CASE b # bet(a) BY <1>2, <3>2, <3>4, <4>1, BroadcastStep
      <4>2. CASE b = bet(a)
        <5>1. step(a) \in {"claim", "refresh"} BY <1>2, <3>2, <3>4, <4>2, BroadcastStep
        <5>2. QED BY <1>2, <3>4, <4>2, <5>1, Sequels DEF Sequel
      <4>3. QED BY <4>1, <4>2
    <3>5. QED BY <3>3, <3>4
  <2>4. lock' \in Actors \cup {NoActor} BY <1>2, RestStep DEF TypeOK
  <2>5. ledger' \in File(Texts) /\ broadcast' \in [Bets -> File(Claims \cup {Torn, NoFile})]
    BY <1>2, LedgerStep, BroadcastStep
  <2>6. /\ told' \in [Bets -> SUBSET Actors] /\ finished' \subseteq Bets
        /\ runs' \subseteq Actors \X Bets /\ clock' \in 0 .. MaxTime
    BY <1>2, RestStep DEF TypeOK
  <2>7. QED BY <2>1, <2>2, <2>3, <2>4, <2>5, <2>6 DEF TypeOK, step, bet, Commands
<1>3. ASSUME NEW a \in Actors, Kill(a) PROVE TypeOK'
  <2>1. \A c \in ledger'.open : c \in Actors \ {a} /\ proc'[c].step \in {"complete", "save"}
    BY <1>3, KillStep DEF TypeOK, File, step
  <2>2. \A b \in Bets : \A c \in broadcast'[b].open :
          proc'[c].step \in {"announce", "restamp"} /\ proc'[c].bet = b
    BY <1>3, KillStep DEF TypeOK, File, step, bet
  <2>3. QED BY <1>3, <2>1, <2>2, KillStep DEF TypeOK, step, bet, reports, Commands
<1>4. CASE Tick
  <2>1. clock' \in 0 .. MaxTime BY <1>4, BetLedgerAssumption DEF Tick, TypeOK
  <2>2. QED BY <1>4, <2>1 DEF Tick, TypeOK, files, reports, step, bet
<1>5. CASE UNCHANGED vars BY <1>5 DEF vars, TypeOK, files, reports, step, bet
<1>6. QED BY <1>1, <1>2, <1>3, <1>4, <1>5, StepKinds

-----------------------------------------------------------------------------
(* A command goes from a step of one kind to a step of the same.           *)
LEMMA Kinds ==
  ASSUME TypeOK, NEW a \in Actors, Step(a)
  PROVE  /\ step(a)' \in Claiming => step(a) \in Claiming
         /\ step(a)' \in InPlace => step(a) \in InPlace
         /\ step(a)' \in Completing => step(a) \in Completing
         /\ step(a)' \in Specifying => step(a) \in Specifying
         /\ step(a)' = "dead" => step(a) = "dead"
BY Sequels DEF Sequel, Claiming, InPlace, Completing, Specifying, step

LEMMA DisciplineHolds ==
  ASSUME Init
  PROVE  Discipline
BY DEF Init, Discipline, TurnsTaken, LockHeld, WriterOpen, Roles, step, Idle, Claiming,
       InPlace, Completing, Specifying

LEMMA DisciplineStays ==
  ASSUME InTurn, TypeOK, Discipline, [Next]_vars
  PROVE  Discipline'
<1>1. ASSUME NEW a \in Actors, NEW b \in Bets, Start(a, b) PROVE Discipline'
  <2>1. /\ step(a) = "idle" /\ UNCHANGED <<ledger, lock>>
        /\ \A c \in Actors \ {a} : step(c)' = step(c) /\ proc'[c] = proc[c]
        /\ \/ step(a)' \in {"claim", "refresh"} /\ a \in Claimers
           \/ step(a)' \in {"unlink", "start"}
           \/ step(a)' = "reread" /\ a \in Completers
           \/ step(a)' \in {"spec", "rewrite", "insert"} /\ a \in SpecWriters \cup Editors
    BY <1>1, Starts DEF files, step
  <2>2. Turn(step(a)') BY <1>1, Starts DEF step
  <2>3. /\ step(a)' \in InPlace =>
             \A c \in Actors : step(c) \in {"idle", "dead", "unlink", "start"}
        /\ step(a)' \in {"claim", "refresh"} => \A c \in Actors : step(c) \notin InPlace
    BY <2>2 DEF Turn, Busy
  <2>4. TurnsTaken' BY <2>1, <2>3 DEF Discipline, TurnsTaken, Claiming, InPlace
  <2>5. LockHeld' /\ WriterOpen' BY <2>1 DEF Discipline, LockHeld, WriterOpen
  <2>6. Roles' BY <2>1 DEF Discipline, Roles, Claiming, Completing, Specifying
  <2>7. QED BY <2>4, <2>5, <2>6 DEF Discipline
<1>2. ASSUME NEW a \in Actors, Step(a) PROVE Discipline'
  <2>1. \A c \in Actors \ {a} : step(c)' = step(c) /\ proc'[c] = proc[c]
    BY <1>2, Sequels DEF step
  <2>2. TurnsTaken' BY <1>2, <2>1, Kinds DEF Discipline, TurnsTaken
  <2>3. Roles' BY <1>2, <2>1, Kinds DEF Discipline, Roles
  <2>4. LockHeld'
    <3> SUFFICES ASSUME NEW c \in Actors, step(c)' = "mark"
                 PROVE  lock' = c /\ proc'[c].text = ledger'.text
      BY DEF LockHeld
    <3>1. CASE c = a
      <4>1. step(a) = "lock" BY <1>2, <3>1, Sequels DEF Sequel, step
      <4>2. lock' = a BY <1>2, <4>1, RestStep
      <4>3. proc'[a].text = ledger.text BY <1>2, <4>1, Sequels
      <4>4. ledger' = ledger BY <1>2, <4>1, LedgerStep
      <4>5. QED BY <3>1, <4>2, <4>3, <4>4
    <3>2. CASE c # a
      <4>1. step(c) = "mark" /\ lock = c /\ proc'[c].text = ledger.text
        BY <2>1, <3>2 DEF Discipline, LockHeld
      <4>2. lock # NoActor BY <4>1, BetLedgerAssumption
      <4>3. step(a) # "mark" BY <3>2, <4>1 DEF Discipline, LockHeld
      <4>4. lock' = c BY <1>2, <4>1, <4>2, <4>3, RestStep
      <4>5. step(a) \notin InPlace BY <4>1 DEF Discipline, TurnsTaken, Claiming
      <4>6. ledger' = ledger BY <1>2, <4>3, <4>5, LedgerStep DEF InPlace
      <4>7. QED BY <4>1, <4>4, <4>6
    <3>3. QED BY <3>1, <3>2
  <2>5. WriterOpen'
    <3> SUFFICES ASSUME NEW c \in Actors, step(c)' \in {"complete", "save"}
                 PROVE  c \in ledger'.open
      BY DEF WriterOpen
    <3>1. CASE c = a
      <4>1. step(a) \in {"truncate", "rewrite"} BY <1>2, <3>1, Sequels DEF Sequel, step
      <4>2. QED BY <1>2, <3>1, <4>1, LedgerStep
    <3>2. CASE c # a
      <4>1. step(c) \in {"complete", "save"} /\ c \in ledger.open
        BY <2>1, <3>2 DEF Discipline, WriterOpen
      <4>2. step(a) \notin {"mark", "insert"}
        BY <3>2, <4>1 DEF Discipline, TurnsTaken, Claiming, InPlace
      <4>3. QED BY <1>2, <3>2, <4>1, <4>2, LedgerStep
    <3>3. QED BY <3>1, <3>2
  <2>6. QED BY <2>2, <2>3, <2>4, <2>5 DEF Discipline
<1>3. ASSUME NEW a \in Actors, Kill(a) PROVE Discipline'
  <2>1. /\ \A c \in Actors \ {a} : step(c)' = step(c) /\ proc'[c] = proc[c]
        /\ step(a)' = "dead" /\ ledger'.text = ledger.text /\ ledger'.open = ledger.open \ {a}
        /\ lock' = IF lock = a THEN NoActor ELSE lock
    BY <1>3, KillStep DEF step
  <2>2. TurnsTaken' /\ Roles'
    BY <2>1 DEF Discipline, TurnsTaken, Roles, Claiming, InPlace, Completing, Specifying
  <2>3. LockHeld' /\ WriterOpen' BY <2>1 DEF Discipline, LockHeld, WriterOpen
  <2>4. QED BY <2>2, <2>3 DEF Discipline
<1>4. CASE Tick \/ UNCHANGED vars
  <2>1. UNCHANGED <<ledger, lock, proc>> BY <1>4 DEF Tick, vars, files
  <2>2. QED BY <2>1 DEF Discipline, TurnsTaken, LockHeld, WriterOpen, Roles, step
<1>5. QED BY <1>1, <1>2, <1>3, <1>4, StepKinds

(* TypeOK and Discipline, from the start on.                               *)
LEMMA TypesHold ==
  ASSUME Init
  PROVE  TypeOK
<1>1. Idle \in Commands
  <2>1. (CHOOSE b \in Bets : TRUE) \in Bets BY BetLedgerAssumption
  <2>2. QED BY <2>1, BetLedgerAssumption DEF Idle, Commands, Steps, Texts
<1>2. [b \in Bets |-> "candidate"] \in Texts BY DEF Texts, Statuses
<1>3. QED BY <1>1, <1>2, BetLedgerAssumption DEF Init, TypeOK, File, Swap, Commands

(* A mark that was made stays while nobody writes in place: whoever holds  *)
(* the lock renames the ledger that is there, with one more mark in it.    *)
LEMMA MarksStay ==
  ASSUME TypeOK, Discipline, [Next]_vars, NEW b \in Bets, Busy \cap InPlace = {},
         ledger.text # Torn, ledger.text[b] = "in_progress"
  PROVE  ledger'.text # Torn /\ ledger'.text[b] = "in_progress"
<1>1. ASSUME NEW a \in Actors, Step(a)
      PROVE  ledger'.text # Torn /\ ledger'.text[b] = "in_progress"
  <2>1. step(a) \notin InPlace BY DEF Busy
  <2>2. CASE step(a) = "mark"
    <3>1. ledger'.text = WithStatus(ledger.text, bet(a), "in_progress")
      BY <1>1, <2>2, LedgerStep DEF Discipline, LockHeld
    <3>2. ledger.text \in Texts /\ bet(a) \in Bets BY DEF TypeOK, File, bet
    <3>3. /\ ledger'.text # Torn /\ ledger'.text[Anchor[bet(a)]] = "in_progress"
          /\ \A c \in Bets : c # Anchor[bet(a)] => ledger'.text[c] = ledger.text[c]
      <4>1. "in_progress" \in Statuses BY DEF Statuses
      <4> DEFINE t == ledger.text
                 d == bet(a)
      <4> HIDE DEF t, d
      <4>2. /\ WithStatus(t, d, "in_progress") # Torn
            /\ WithStatus(t, d, "in_progress")[Anchor[d]] = "in_progress"
            /\ \A c \in Bets : c # Anchor[d] => WithStatus(t, d, "in_progress")[c] = t[c]
        <5>1. t \in Texts /\ d \in Bets /\ t # Torn BY <3>2 DEF t, d
        <5>2. QED BY <4>1, <5>1, StatusTypes
      <4>3. QED BY <3>1, <4>2 DEF t, d
    <3>4. QED BY <3>3
  <2>3. CASE step(a) # "mark" BY <1>1, <2>1, <2>3, LedgerStep DEF InPlace
  <2>4. QED BY <2>2, <2>3
<1>2. ASSUME NEW a \in Actors, \/ \E d \in Bets : Start(a, d)
                               \/ Kill(a)
      PROVE  ledger'.text = ledger.text
  BY <1>2, Starts, KillStep DEF files
<1>3. CASE Tick \/ UNCHANGED vars BY <1>3 DEF Tick, vars, files
<1>4. QED BY <1>1, <1>2, <1>3, StepKinds

-----------------------------------------------------------------------------
(* The agreement, when every bet is found by its own name.                 *)
Own == Anchor = [b \in Bets |-> b]

LEMMA OwnStatus ==
  ASSUME Own, NEW t \in Texts, NEW b \in Bets, NEW s \in Statuses, WithStatus(t, b, s) # Torn
  PROVE  /\ t # Torn /\ WithStatus(t, b, s)[b] = s
         /\ \A c \in Bets : c # b => WithStatus(t, b, s)[c] = t[c]
BY StatusTypes DEF Own

(* While somebody claims, or works on the ledger in place, nobody else     *)
(* works on it in place.                                                   *)
LEMMA Alone ==
  ASSUME Discipline, NEW a \in Actors, step(a) \in Claiming \cup InPlace
  PROVE  \A c \in Actors \ {a} : step(c) \notin InPlace
BY DEF Discipline, TurnsTaken

(* A command's step towards the ledger's text: it is torn only while its   *)
(* writer is at work, and no torn text is about to be written.             *)
LEMMA TextsStep ==
  ASSUME TypeOK, Discipline, Agreed, NEW a \in Actors, Step(a)
  PROVE  /\ ledger'.text = Torn => \E c \in Actors : step(c)' \in {"complete", "save"}
         /\ \A c \in Actors :
              step(c)' \in {"truncate", "complete"} \cup Specifying => proc'[c].text # Torn
         /\ step(a) \in {"mark", "spec"} => ledger.text # Torn
<1>1. \A c \in Actors \ {a} : step(c)' = step(c) /\ proc'[c] = proc[c]
  BY Sequels DEF step
<1>2. step(a) \in Claiming \cup {"spec"} => ledger.text # Torn
  <2>1. SUFFICES ASSUME step(a) \in Claiming \cup {"spec"}, ledger.text = Torn PROVE FALSE
    OBVIOUS
  <2>2. PICK c \in Actors : step(c) \in {"complete", "save"} BY <2>1 DEF Agreed
  <2>3. QED BY <2>1, <2>2, Alone DEF Claiming, InPlace
<1>3. ledger'.text = Torn => \E c \in Actors : step(c)' \in {"complete", "save"}
  <2>1. CASE UNCHANGED ledger /\ step(a) \notin {"complete", "save"} BY <1>1, <2>1 DEF Agreed
  <2>2. CASE step(a) = "mark"
    <3>1. ledger'.text = WithStatus(ledger.text, bet(a), "in_progress")
      BY <2>2, LedgerStep DEF Discipline, LockHeld
    <3>2. /\ ledger.text # Torn /\ ledger.text \in Texts /\ bet(a) \in Bets
          /\ "in_progress" \in Statuses
      BY <1>2, <2>2 DEF TypeOK, File, bet, Claiming, Statuses
    <3>3. QED BY <3>1, <3>2, StatusTypes
  <2>3. CASE step(a) \in {"truncate", "rewrite"}
    <3>1. step(a)' \in {"complete", "save"} BY <2>3, Sequels DEF Sequel, step
    <3>2. QED BY <3>1
  <2>4. CASE step(a) \in {"complete", "save", "insert"}
    BY <2>4, LedgerStep DEF Agreed, Discipline, WriterOpen, Specifying
  <2>5. QED BY <2>1, <2>2, <2>3, <2>4, LedgerStep
<1>4. ASSUME NEW c \in Actors, step(c)' \in {"truncate", "complete"} \cup Specifying
      PROVE  proc'[c].text # Torn
  <2>1. CASE c # a BY <1>1, <1>4, <2>1 DEF Agreed
  <2>2. CASE c = a /\ step(a) = "reread"
    <3>1. /\ ledger.text # Torn /\ proc'[a].text = WithStatus(ledger.text, bet(a), "done")
      BY <1>4, <2>2, Sequels DEF Specifying, step
    <3>2. ledger.text \in Texts /\ bet(a) \in Bets /\ "done" \in Statuses
      BY DEF TypeOK, File, bet, Statuses
    <3>3. QED BY <2>2, <3>1, <3>2, StatusTypes
  <2>3. CASE c = a /\ step(a) # "reread"
    <3>1. step(a) \in {"truncate", "rewrite", "spec"}
      BY <1>4, <2>3, Sequels DEF Sequel, Specifying, step
    <3>2. proc[a].text # Torn BY <3>1 DEF Agreed, Specifying
    <3>3. proc'[a].text = proc[a].text
      BY <1>2, <1>4, <3>1, <2>3, Sequels DEF Specifying, step
    <3>4. QED BY <2>3, <3>2, <3>3
  <2>4. QED BY <2>1, <2>2, <2>3
<1>5. QED BY <1>2, <1>3, <1>4 DEF Claiming

(* A claim file appears only in the hands of one who will mark the bet.    *)
LEMMA ShownBefore ==
  ASSUME TypeOK, NEW a \in Actors, Step(a), NEW b \in Bets, Shown(b)',
         ~(step(a) \in {"claim", "announce"} /\ bet(a) = b)
  PROVE  Shown(b)
<1>1. \A c \in Actors \ {a} : step(c)' = step(c) /\ bet(c)' = bet(c)
  BY Sequels DEF step, bet
<1>2. CASE \E c \in Actors : step(c)' \in {"refresh", "restamp"} /\ bet(c)' = b
  <2>1. PICK c \in Actors : step(c)' \in {"refresh", "restamp"} /\ bet(c)' = b BY <1>2
  <2>2. step(c) \in {"refresh", "restamp"} /\ bet(c) = b
    <3>1. CASE c # a BY <1>1, <2>1, <3>1
    <3>2. CASE c = a BY <2>1, <3>2, Sequels DEF Sequel, step, bet
    <3>3. QED BY <3>1, <3>2
  <2>3. QED BY <2>2 DEF Shown
<1>3. CASE broadcast'[b].text # NoFile
  <2>1. CASE b # bet(a) BY <1>3, <2>1, BroadcastStep DEF Shown
  <2>2. CASE b = bet(a) BY <1>3, <2>2, BroadcastStep DEF Shown
  <2>3. QED BY <2>1, <2>2
<1>4. QED BY <1>2, <1>3 DEF Shown

(* A command's step, for a bet that is shown already.                      *)
LEMMA BetStep ==
  ASSUME Own, TypeOK, Discipline, Agreed, NEW a \in Actors, Step(a), NEW b \in Bets,
         Shown(b), Shown(b)'
  PROVE  /\ ledger'.text # Torn /\ ~InWork(b)' => ledger'.text[b] = "in_progress"
         /\ \A c \in Actors :
              /\ step(c)' \in {"truncate", "complete"} /\ bet(c)' # b =>
                   proc'[c].text[b] = "in_progress"
              /\ step(c)' \in Specifying => proc'[c].text[b] = "in_progress"
<1> DEFINE At == {"announce", "lock", "mark", "complete", "release"}
<1>1. \A c \in Actors \ {a} : step(c)' = step(c) /\ bet(c)' = bet(c) /\ proc'[c] = proc[c]
  BY Sequels DEF step, bet
<1>2. /\ ledger.text # Torn /\ ~InWork(b) => ledger.text[b] = "in_progress"
      /\ \A c \in Actors :
           /\ step(c) \in {"truncate", "complete"} /\ bet(c) # b => proc[c].text[b] = "in_progress"
           /\ step(c) \in Specifying => proc[c].text[b] = "in_progress"
  BY DEF Agreed
<1>3. ledger.text \in Texts /\ bet(a) \in Bets
      /\ \A s \in {"in_progress", "done"} : s \in Statuses
  BY DEF TypeOK, File, bet, Statuses
<1>4. ASSUME ledger'.text # Torn, ~InWork(b)' PROVE ledger'.text[b] = "in_progress"
  <2>1. \A c \in Actors \ {a} : ~(step(c) \in At /\ bet(c) = b) BY <1>1, <1>4 DEF InWork
  <2>2. CASE step(a) = "mark"
    <3>1. ledger'.text = WithStatus(ledger.text, bet(a), "in_progress")
      BY <2>2, LedgerStep DEF Discipline, LockHeld
    <3>2. /\ ledger.text # Torn /\ ledger'.text[bet(a)] = "in_progress"
          /\ \A c \in Bets : c # bet(a) => ledger'.text[c] = ledger.text[c]
      BY <1>3, <1>4, <3>1, OwnStatus
    <3>3. CASE bet(a) = b BY <3>2, <3>3
    <3>4. CASE bet(a) # b
      <4>1. ~InWork(b) BY <2>1, <3>4 DEF InWork
      <4>2. QED BY <1>2, <3>2, <3>4, <4>1
    <3>5. QED BY <3>3, <3>4
  <2>3. CASE step(a) = "release" /\ bet(a) = b
    <3>1. broadcast'[b].text = NoFile BY <2>3, BroadcastStep
    <3>2. PICK c \in Actors : step(c)' \in {"refresh", "restamp"} /\ bet(c)' = b
      BY <3>1 DEF Shown
    <3>3. c # a BY <2>3, <3>2, Sequels DEF Sequel, step
    <3>4. step(c) \in Claiming BY <1>1, <3>2, <3>3 DEF Claiming
    <3>5. QED BY <2>3, <3>3, <3>4, Alone DEF InPlace
  <2>4. CASE step(a) \in {"announce", "lock", "complete"} /\ bet(a) = b
    <3>1. step(a)' \in At /\ bet(a)' = b BY <2>4, Sequels DEF Sequel, step, bet
    <3>2. QED BY <1>4, <3>1 DEF InWork
  <2>5. CASE step(a) # "mark" /\ ~(step(a) \in At /\ bet(a) = b)
    <3>1. ~InWork(b) BY <2>1, <2>5 DEF InWork
    <3>2. CASE ledger' = ledger BY <1>2, <1>4, <3>1, <3>2
    <3>3. CASE step(a) \in {"complete", "save", "insert"}
      <4>1. ledger'.text = proc[a].text BY <3>3, LedgerStep DEF Discipline, WriterOpen
      <4>2. QED BY <1>2, <2>5, <3>3, <4>1 DEF Specifying
    <3>4. QED BY <1>4, <2>5, <3>2, <3>3, LedgerStep
  <2>6. QED BY <2>2, <2>3, <2>4, <2>5
<1>5. ASSUME NEW c \in Actors,
             \/ step(c)' \in {"truncate", "complete"} /\ bet(c)' # b
             \/ step(c)' \in Specifying
      PROVE  proc'[c].text[b] = "in_progress"
  <2>1. CASE c # a BY <1>1, <1>2, <1>5, <2>1
  <2>2. CASE c = a /\ step(a) = "reread"
    <3>1. /\ ledger.text # Torn /\ proc'[a].text = WithStatus(ledger.text, bet(a), "done")
          /\ bet(a) # b
      BY <1>5, <2>2, Sequels DEF Sequel, Specifying, step, bet
    <3>2. \A d \in Actors \ {a} : step(d) \notin Claiming \cup InPlace
      BY <2>2, Alone DEF InPlace
    <3>3. ~InWork(b) BY <2>2, <3>2 DEF InWork, Claiming, InPlace
    <3>4. proc'[a].text # Torn BY <1>5, <2>2, TextsStep
    <3>5. proc'[a].text[b] = ledger.text[b] BY <1>3, <3>1, <3>4, OwnStatus
    <3>6. QED BY <1>2, <2>2, <3>1, <3>3, <3>5
  <2>3. CASE c = a /\ step(a) # "reread"
    <3>1. step(a) \in {"truncate", "rewrite", "spec"}
      BY <1>5, <2>3, Sequels DEF Sequel, Specifying, step
    <3>2. proc'[a].text = proc[a].text
      BY <1>5, <2>3, <3>1, Sequels, TextsStep DEF Specifying, step
    <3>3. CASE step(a) = "truncate"
      <4>1. bet(a) # b BY <1>5, <2>3, <3>3, Sequels DEF Sequel, Specifying, step, bet
      <4>2. QED BY <1>2, <2>3, <3>2, <3>3, <4>1
    <3>4. CASE step(a) \in {"rewrite", "spec"} BY <1>2, <2>3, <3>2, <3>4 DEF Specifying
    <3>5. QED BY <3>1, <3>3, <3>4
  <2>4. QED BY <2>1, <2>2, <2>3
<1>6. QED BY <1>4, <1>5

(* A step, a start and a death leave claims and statuses in agreement.     *)
LEMMA AgreedStep ==
  ASSUME Own, TypeOK, Discipline, Agreed, NEW a \in Actors, Step(a)
  PROVE  Agreed'
<1>1. \A c \in Actors \ {a} : step(c)' = step(c) /\ bet(c)' = bet(c)
  BY Sequels DEF step, bet
<1>2. ASSUME NEW b \in Bets, Shown(b)'
      PROVE  /\ ledger'.text # Torn /\ ~InWork(b)' => ledger'.text[b] = "in_progress"
             /\ \A c \in Actors :
                  /\ step(c)' \in {"truncate", "complete"} /\ bet(c)' # b =>
                       proc'[c].text[b] = "in_progress"
                  /\ step(c)' \in Specifying => proc'[c].text[b] = "in_progress"
  <2>1. CASE step(a) \in {"claim", "announce"} /\ bet(a) = b
    <3>1. step(a)' \in {"announce", "lock"} /\ bet(a)' = b
      BY <2>1, Sequels DEF Sequel, step, bet
    <3>2. InWork(b)' BY <3>1 DEF InWork
    <3>3. \A c \in Actors : step(c)' \notin InPlace
      BY <1>1, <2>1, <3>1, Alone DEF Claiming, InPlace
    <3>4. QED BY <3>2, <3>3 DEF InPlace, Specifying
  <2>2. CASE ~(step(a) \in {"claim", "announce"} /\ bet(a) = b)
    BY <1>2, <2>2, ShownBefore, BetStep
  <2>3. QED BY <2>1, <2>2
<1>3. QED BY <1>2, TextsStep DEF Agreed

LEMMA AgreedStart ==
  ASSUME InTurn, TypeOK, Agreed, NEW a \in Actors, NEW d \in Bets, Start(a, d)
  PROVE  Agreed'
<1>1. /\ step(a) = "idle" /\ UNCHANGED <<ledger, broadcast>>
      /\ \A c \in Actors \ {a} : step(c)' = step(c) /\ bet(c)' = bet(c) /\ proc'[c] = proc[c]
      /\ bet(a)' = d
      /\ \/ step(a)' = "claim"
         \/ step(a)' = "refresh" /\ broadcast[d].text # NoFile
         \/ step(a)' \in {"unlink", "start", "reread"}
         \/ /\ step(a)' \in {"spec", "rewrite", "insert"} /\ ledger.text # Torn
            /\ proc'[a].text = ledger.text
  BY Starts DEF files, step, bet
<1>2. step(a)' \in {"spec", "rewrite", "insert"} =>
        \A c \in Actors : step(c) \in {"idle", "dead", "unlink", "start"}
  <2>1. Turn(step(a)') BY Starts DEF step
  <2>2. QED BY <2>1 DEF Turn, Busy, InPlace
<1>3. ASSUME NEW b \in Bets, Shown(b)' PROVE Shown(b)
  BY <1>1, <1>3 DEF Shown
<1>4. ASSUME NEW b \in Bets, InWork(b) PROVE InWork(b)'
  BY <1>1, <1>4 DEF InWork
<1>5. ASSUME NEW b \in Bets, Shown(b)'
      PROVE  /\ ledger'.text # Torn /\ ~InWork(b)' => ledger'.text[b] = "in_progress"
             /\ \A c \in Actors :
                  /\ step(c)' \in {"truncate", "complete"} /\ bet(c)' # b =>
                       proc'[c].text[b] = "in_progress"
                  /\ step(c)' \in Specifying => proc'[c].text[b] = "in_progress"
  <2>1. Shown(b) BY <1>3, <1>5
  <2>2. ledger'.text # Torn /\ ~InWork(b)' => ledger'.text[b] = "in_progress"
    BY <1>1, <1>4, <2>1 DEF Agreed
  <2>3. ASSUME NEW c \in Actors \ {a}
        PROVE  /\ step(c)' \in {"truncate", "complete"} /\ bet(c)' # b =>
                    proc'[c].text[b] = "in_progress"
               /\ step(c)' \in Specifying => proc'[c].text[b] = "in_progress"
    BY <1>1, <2>1 DEF Agreed
  <2>4. step(a)' \notin {"truncate", "complete"} BY <1>1
  <2>5. step(a)' \in Specifying => proc'[a].text[b] = "in_progress"
    <3>1. SUFFICES ASSUME step(a)' \in {"spec", "rewrite", "insert"}
                 PROVE  proc'[a].text[b] = "in_progress"
      BY <1>1 DEF Specifying
    <3>2. ~InWork(b) BY <1>2, <3>1 DEF InWork
    <3>3. QED BY <1>1, <2>1, <3>1, <3>2 DEF Agreed
  <2>6. QED BY <2>2, <2>3, <2>4, <2>5
<1>6. ledger'.text = Torn => \E c \in Actors : step(c)' \in {"complete", "save"}
  BY <1>1 DEF Agreed
<1>7. \A c \in Actors :
        step(c)' \in {"truncate", "complete"} \cup Specifying => proc'[c].text # Torn
  BY <1>1 DEF Agreed, Specifying
<1>8. QED BY <1>5, <1>6, <1>7 DEF Agreed

(* Who dies without having worked on the ledger leaves everything.         *)
LEMMA AgreedKill ==
  ASSUME TypeOK, Discipline, Agreed, NEW a \in Actors, Kill(a), a \notin Workers
  PROVE  Agreed'
<1>1. /\ \A c \in Actors \ {a} : step(c)' = step(c) /\ bet(c)' = bet(c) /\ proc'[c] = proc[c]
      /\ step(a)' = "dead" /\ ledger'.text = ledger.text
      /\ \A b \in Bets : broadcast'[b].text = broadcast[b].text
  BY KillStep DEF step, bet
<1>2. step(a) \notin Claiming \cup Completing \cup Specifying
  BY DEF Discipline, Roles, Workers
<1>3. ASSUME NEW b \in Bets PROVE (Shown(b)' <=> Shown(b)) /\ (InWork(b)' <=> InWork(b))
  BY <1>1, <1>2 DEF Shown, InWork, Claiming, Completing
<1>4. QED BY <1>1, <1>2, <1>3 DEF Agreed, Completing, Specifying

LEMMA AgreedStays ==
  ASSUME InTurn, Own, TypeOK, Discipline, Alive => Agreed, [Next]_vars
  PROVE  (Alive => Agreed)'
<1> SUFFICES ASSUME Alive' PROVE Agreed'
  OBVIOUS
<1>1. ASSUME NEW a \in Actors, NEW d \in Bets, Start(a, d) PROVE Agreed'
  <2>1. \A c \in Actors : step(c) = "dead" => step(c)' = "dead"
    BY <1>1, Starts DEF step
  <2>2. Workers \subseteq Actors BY BetLedgerAssumption DEF Workers
  <2>3. Alive BY <2>1, <2>2 DEF Alive
  <2>4. QED BY <1>1, <2>3, AgreedStart
<1>2. ASSUME NEW a \in Actors, Step(a) PROVE Agreed'
  <2>1. /\ \A c \in Actors \ {a} : step(c)' = step(c)
        /\ step(a) # "dead"
    BY <1>2, Sequels DEF Sequel, step
  <2>2. Workers \subseteq Actors BY BetLedgerAssumption DEF Workers
  <2>3. Alive BY <2>1, <2>2 DEF Alive
  <2>4. QED BY <1>2, <2>3, AgreedStep
<1>3. ASSUME NEW a \in Actors, Kill(a) PROVE Agreed'
  <2>1. /\ \A c \in Actors \ {a} : step(c)' = step(c)
        /\ step(a)' = "dead" /\ step(a) # "dead"
    BY <1>3, KillStep DEF step
  <2>2. Workers \subseteq Actors BY BetLedgerAssumption DEF Workers
  <2>3. a \notin Workers /\ Alive BY <2>1, <2>2 DEF Alive
  <2>4. QED BY <1>3, <2>3, AgreedKill
<1>4. CASE Tick \/ UNCHANGED vars
  <2>1. UNCHANGED <<ledger, broadcast, proc>> BY <1>4 DEF Tick, vars, files
  <2>2. QED BY <2>1 DEF Alive, Agreed, Shown, InWork, step, bet
<1>5. QED BY <1>1, <1>2, <1>3, <1>4, StepKinds

LEMMA AgreedHolds ==
  ASSUME Init
  PROVE  Agreed
<1>1. \A a \in Actors : step(a) = "idle" BY DEF Init, step, Idle
<1>2. \A b \in Bets : ~Shown(b) BY <1>1 DEF Shown, Init, Swap
<1>3. ledger.text # Torn BY <1>1, BetLedgerAssumption DEF Init, Swap, Statuses
<1>4. QED BY <1>1, <1>2, <1>3 DEF Agreed, Specifying

-----------------------------------------------------------------------------
(* The variables have their types throughout, and a file is open only to   *)
(* a command that writes it (cmd_claim_bet, complete, spec-init), whether  *)
(* or not they take turns.                                                 *)
THEOREM FilesHaveTheirTypes == Spec => []TypeOK
<1>1. Init => TypeOK BY TypesHold
<1>2. TypeOK /\ [Next]_vars => TypeOK' BY TypesStay
<1>3. QED BY <1>1, <1>2, PTL DEF Spec

(* save_ledger_locked keeps what it is meant to keep: as long as the other *)
(* writers wait for their turn, a claimed bet stays in_progress            *)
(* whoever claims another bet at the same time, and the ledger never       *)
(* becomes unreadable by claims.                                           *)
THEOREM LockedWritesAreKept ==
  ASSUME InTurn
  PROVE  Spec => MarksAreKept
<1>1. Init => Discipline BY DisciplineHolds
<1>2. TypeOK /\ Discipline /\ [Next]_vars => Discipline' BY DisciplineStays
<1>3. TypeOK /\ Discipline /\ [Next]_vars =>
        [\A b \in Bets :
           /\ Busy \cap InPlace = {}
           /\ ledger.text # Torn
           /\ ledger.text[b] = "in_progress"
           => ledger'.text # Torn /\ ledger'.text[b] = "in_progress"]_vars
  BY MarksStay
<1>4. QED BY <1>1, <1>2, <1>3, FilesHaveTheirTypes, PTL DEF Spec, MarksAreKept

(* Between commands, the claim files and the statuses of the ledger agree: *)
(* with the other writers in turn, every bet found under its own id,       *)
(* and no process dead half-way, a bet that somebody holds is in_progress. *)
THEOREM ClaimsMatchTheLedger ==
  ASSUME InTurn, Anchor = [b \in Bets |-> b]
  PROVE  Spec => []ClaimAndStatusAgree
<1>1. Init => IInv BY DisciplineHolds, AgreedHolds DEF IInv
<1>2. TypeOK /\ IInv /\ [Next]_vars => IInv'
  BY DisciplineStays, AgreedStays DEF Own, IInv
<1>3. ASSUME TypeOK, IInv PROVE ClaimAndStatusAgree
  <2>1. SUFFICES ASSUME Quiet(Claimers \cup Completers \cup SpecWriters \cup Editors),
                        NEW b \in Bets, broadcast[b].text # NoFile
                 PROVE  ledger.text # Torn /\ ledger.text[b] = "in_progress"
    BY <1>3 DEF ClaimAndStatusAgree
  <2>2. \A a \in Workers : step(a) = "idle" BY <2>1 DEF Quiet, Workers
  <2>3. Agreed BY <1>3, <2>2 DEF IInv, Alive
  <2>4. \A a \in Actors : step(a) \notin Claiming \cup Completing \cup Specifying
    BY <1>3, <2>2 DEF IInv, Discipline, Roles, Workers, Claiming, Completing, Specifying
  <2>5. ledger.text # Torn BY <2>3, <2>4 DEF Agreed, Completing, Specifying
  <2>6. ~InWork(b) BY <2>4 DEF InWork, Claiming, Completing
  <2>7. QED BY <2>1, <2>3, <2>5, <2>6 DEF Agreed, Shown
<1>4. QED BY <1>1, <1>2, <1>3, FilesHaveTheirTypes, PTL DEF Spec
=============================================================================
