----------------------------- MODULE SocketsProofs -----------------------------
(***************************************************************************)
(* What the run of Sockets checks on two sockets and two frames, for any   *)
(* number of sockets, accounts and frames.                                 *)
(***************************************************************************)
EXTENDS Sockets, TLAPS

\* One socket. Arguments: its phase, turnId, cancel, authContext, turns, heard
\* and missed, and the deleted accounts. Its current turn is the one its cancel
\* function cancels, and has not ended for the client; its account is the
\* context of the socket unless the registry was misled.
SocketOK(ph, id, c, ctx, ts, h, m, gone) ==
    /\ ~h.wrong
    /\ c # 0 => c = id /\ c \in Ids /\ ts[c].stage # "none"
    /\ \A n \in Ids :
          /\ n > id => ts[n] = NoTurn
          /\ ts[n].stage = "none" => ts[n] = NoTurn
          /\ n = id /\ ts[n].stage # "none" =>
                /\ ~h.ended
                /\ ~ts[n].cut => c = n /\ ph = "open"
          /\ n = id /\ ts[n].account # NoAccount /\ ~ts[n].cut =>
                m \/ (ctx = ts[n].account /\ ts[n].account \notin gone)

Inv ==
    /\ TypeOK /\ RegistryIsExact
    /\ \A w \in Clients : SocketOK(phase[w], turnId[w], cancel[w], authContext[w],
                                   turns[w], heard[w], missed[w], deleted)

(* The socket w and its entries, and nothing else.                         *)
OnlySocket(w) ==
    /\ \A v \in Clients \ {w} :
          /\ phase'[v] = phase[v] /\ turnId'[v] = turnId[v] /\ cancel'[v] = cancel[v]
          /\ authContext'[v] = authContext[v] /\ turns'[v] = turns[v]
          /\ heard'[v] = heard[v] /\ missed'[v] = missed[v]
    /\ deleted' = deleted

------------------------------------------------------------------------------
(* A step of one socket.                                                   *)
LEMMA SocketStep ==
    ASSUME Inv, TypeOK', RegistryIsExact', NEW w \in Clients, OnlySocket(w),
           SocketOK(phase'[w], turnId'[w], cancel'[w], authContext'[w],
                    turns'[w], heard'[w], missed'[w], deleted')
    PROVE  Inv'
<1>1. ASSUME NEW v \in Clients \ {w}
      PROVE  SocketOK(phase'[v], turnId'[v], cancel'[v], authContext'[v],
                      turns'[v], heard'[v], missed'[v], deleted')
  <2>1. SocketOK(phase[v], turnId[v], cancel[v], authContext[v], turns[v], heard[v], missed[v], deleted)
    BY DEF Inv
  <2> QED  BY <1>1, <2>1 DEF OnlySocket
<1> QED  BY <1>1 DEF Inv

(* The slot of a turn that does not run.                                   *)
LEMMA NoTurnTyped == NoTurn \in Turns
  BY DEF NoTurn, Turns, Stages

(* The numbers of the turns.                                               *)
LEMMA IdsTyped == \A n \in Ids : n \in 0..MaxTurns /\ n \in Nat /\ n # 0
  BY SocketsAssumption DEF Ids

(* Moving a socket from one list to another keeps the registry exact.      *)
LEMMA Relisting ==
    ASSUME TypeOK, RegistryIsExact, NEW w \in Clients, NEW account \in Accounts \cup {NoAccount},
           registry' = Relisted(w, account), authContext' = [authContext EXCEPT ![w] = account],
           phase' = phase
    PROVE  /\ RegistryIsExact'
           /\ registry' \in [Accounts -> SUBSET Clients]
           /\ authContext' \in [Clients -> Accounts \cup {NoAccount}]
<1>1. registry' \in [Accounts -> SUBSET Clients]
  BY DEF Relisted, TypeOK
<1>2. authContext' \in [Clients -> Accounts \cup {NoAccount}] /\ authContext'[w] = account
      /\ \A v \in Clients \ {w} : authContext'[v] = authContext[v]
  BY DEF TypeOK
<1>3. ASSUME NEW v \in Clients, NEW a \in Accounts
      PROVE  /\ v \in registry'[a] => authContext'[v] = a
             /\ phase'[v] = "open" /\ authContext'[v] = a => v \in registry'[a]
  <2>1. registry'[a] = IF a = account THEN registry[a] \cup {w}
                       ELSE IF a = authContext[w] THEN registry[a] \ {w} ELSE registry[a]
    BY DEF Relisted
  <2>2. /\ v \in registry[a] => authContext[v] = a
        /\ phase[v] = "open" /\ authContext[v] = a => v \in registry[a]
    BY DEF RegistryIsExact, Open
  <2>3. CASE v = w
    BY <1>2, <2>1, <2>2, <2>3
  <2>4. CASE v # w
    BY <1>2, <2>1, <2>2, <2>4
  <2> QED  BY <2>3, <2>4
<1> QED  BY <1>1, <1>2, <1>3 DEF RegistryIsExact, Open

(* What a change of one turn leaves of the others.                         *)
LEMMA TurnSet ==
    ASSUME TypeOK, NEW w \in Clients, NEW n \in Ids, NEW t \in Turns,
           turns' = [turns EXCEPT ![w][n] = t]
    PROVE  /\ turns' \in [Clients -> [Ids -> Turns]]
           /\ \A v \in Clients \ {w} : turns'[v] = turns[v]
           /\ turns'[w][n] = t /\ \A m \in Ids \ {n} : turns'[w][m] = turns[w][m]
<1>1. turns \in [Clients -> [Ids -> Turns]] /\ turns[w] \in [Ids -> Turns]
  BY DEF TypeOK
<1>2. turns' = [turns EXCEPT ![w] = [turns[w] EXCEPT ![n] = t]]
  OBVIOUS
<1>3. [turns[w] EXCEPT ![n] = t] \in [Ids -> Turns]
  BY <1>1
<1> QED  BY <1>1, <1>2, <1>3

(* A turn reports an account to its socket.                                *)
LEMMA Reported ==
    ASSUME TypeOK, RegistryIsExact, NEW w \in Clients, NEW n \in Ids,
           NEW account \in Accounts \cup {NoAccount},
           SetContext(w, n, account), phase' = phase
    PROVE  /\ RegistryIsExact'
           /\ registry' \in [Accounts -> SUBSET Clients]
           /\ authContext' \in [Clients -> Accounts \cup {NoAccount}]
           /\ missed' \in [Clients -> BOOLEAN]
           /\ authContext'[w] = account
           /\ missed'[w] <=> account \in deleted \/
                                (turnId[w] # n /\ account # turns[w][turnId[w]].account)
           /\ \A v \in Clients \ {w} : authContext'[v] = authContext[v] /\ missed'[v] = missed[v]
<1> DEFINE late == account \in deleted \/ (~IsCurrent(w, n) /\ account # turns[w][turnId[w]].account)
<1>1. /\ registry' = Relisted(w, account) /\ authContext' = [authContext EXCEPT ![w] = account]
      /\ missed' = [missed EXCEPT ![w] = late]
  BY DEF SetContext
<1>2. late \in BOOLEAN /\ (late <=> account \in deleted \/
                              (turnId[w] # n /\ account # turns[w][turnId[w]].account))
  BY DEF IsCurrent
<1> HIDE DEF late
<1>3. missed' \in [Clients -> BOOLEAN] /\ missed'[w] = late
      /\ \A v \in Clients \ {w} : missed'[v] = missed[v]
  BY <1>1, <1>2 DEF TypeOK
<1>4. authContext'[w] = account /\ \A v \in Clients \ {w} : authContext'[v] = authContext[v]
  BY <1>1 DEF TypeOK
<1> QED  BY <1>1, <1>2, <1>3, <1>4, Relisting

(* A turn that goes on, with the account it had or one it reports now.     *)
LEMMA GoesOn ==
    ASSUME Inv, NEW w \in Clients, NEW n \in Ids, NEW t \in Turns,
           turns[w][n].stage # "none", t.stage # "none", t.cut = turns[w][n].cut,
           turns' = [turns EXCEPT ![w][n] = t],
           UNCHANGED <<slots, deleted, heard>>,
           (UNCHANGED owners /\ t.account = turns[w][n].account) \/ SetContext(w, n, t.account)
    PROVE  Inv'
<1>1. TypeOK /\ RegistryIsExact
      /\ SocketOK(phase[w], turnId[w], cancel[w], authContext[w], turns[w], heard[w], missed[w], deleted)
  BY DEF Inv
<1>2. UNCHANGED <<phase, turnId, cancel, deleted, heard>>
  BY DEF slots
<1>3. t.account \in Accounts \cup {NoAccount}
  BY DEF Turns
<1>4. /\ turns' \in [Clients -> [Ids -> Turns]]
      /\ \A v \in Clients \ {w} : turns'[v] = turns[v]
      /\ turns'[w][n] = t /\ \A m \in Ids \ {n} : turns'[w][m] = turns[w][m]
  BY <1>1, TurnSet
<1>5. n <= turnId[w]
  <2>1. n > turnId[w] => turns[w][n].stage = "none"
    BY <1>1 DEF SocketOK, NoTurn
  <2>2. turnId[w] \in Nat /\ n \in Nat
    BY <1>1, IdsTyped, SocketsAssumption DEF TypeOK
  <2> QED  BY <2>1, <2>2
<1>6. ASSUME NEW m \in Ids
      PROVE  /\ m > turnId[w] => turns'[w][m] = NoTurn
             /\ turns'[w][m].stage = "none" => turns'[w][m] = NoTurn
             /\ m = turnId[w] /\ turns'[w][m].stage # "none" =>
                   ~heard[w].ended /\ (~turns'[w][m].cut => cancel[w] = m /\ phase[w] = "open")
  <2>1. /\ m > turnId[w] => turns[w][m] = NoTurn
        /\ turns[w][m].stage = "none" => turns[w][m] = NoTurn
        /\ m = turnId[w] /\ turns[w][m].stage # "none" =>
              ~heard[w].ended /\ (~turns[w][m].cut => cancel[w] = m /\ phase[w] = "open")
    BY <1>1 DEF SocketOK
  <2>2. CASE m # n
    BY <1>4, <2>1, <2>2
  <2>3. CASE m = n
    <3>1. ~(m > turnId[w])
      BY <1>1, <1>5, <2>3, IdsTyped, SocketsAssumption DEF TypeOK
    <3> QED  BY <1>4, <2>1, <2>3, <3>1
  <2> QED  BY <2>2, <2>3
<1>9. cancel[w] # 0 => cancel[w] = turnId[w] /\ cancel[w] \in Ids /\ turns'[w][cancel[w]].stage # "none"
  BY <1>1, <1>4 DEF SocketOK
<1>7. CASE UNCHANGED owners /\ t.account = turns[w][n].account
  <2>1. UNCHANGED <<authContext, registry, missed>>
    BY <1>7 DEF owners
  <2>2. TypeOK' /\ RegistryIsExact'
    BY <1>1, <1>2, <1>4, <2>1 DEF TypeOK, RegistryIsExact, Open
  <2>3. ASSUME NEW m \in Ids, m = turnId[w], turns'[w][m].account # NoAccount, ~turns'[w][m].cut
        PROVE  missed[w] \/ (authContext[w] = turns'[w][m].account /\ turns'[w][m].account \notin deleted)
    <3>1. turns'[w][m].account = turns[w][m].account /\ turns'[w][m].cut = turns[w][m].cut
      BY <1>4, <1>7
    <3> QED  BY <1>1, <2>3, <3>1 DEF SocketOK
  <2>4. SocketOK(phase[w], turnId[w], cancel[w], authContext[w], turns'[w], heard[w], missed[w], deleted)
    BY <1>1, <1>6, <1>9, <2>3 DEF SocketOK
  <2>5. OnlySocket(w)
    BY <1>2, <1>4, <2>1 DEF OnlySocket
  <2> QED  BY <1>2, <2>1, <2>2, <2>4, <2>5, SocketStep
<1>8. CASE SetContext(w, n, t.account)
  <2>1. /\ RegistryIsExact'
        /\ registry' \in [Accounts -> SUBSET Clients]
        /\ authContext' \in [Clients -> Accounts \cup {NoAccount}]
        /\ missed' \in [Clients -> BOOLEAN]
        /\ authContext'[w] = t.account
        /\ missed'[w] <=> t.account \in deleted \/
                             (turnId[w] # n /\ t.account # turns[w][turnId[w]].account)
        /\ \A v \in Clients \ {w} : authContext'[v] = authContext[v] /\ missed'[v] = missed[v]
    BY <1>1, <1>2, <1>3, <1>8, Reported
  <2>2. TypeOK'
    BY <1>1, <1>2, <1>4, <2>1 DEF TypeOK
  <2>3. ASSUME NEW m \in Ids, m = turnId[w], turns'[w][m].account # NoAccount, ~turns'[w][m].cut
        PROVE  missed'[w] \/ (authContext'[w] = turns'[w][m].account /\ turns'[w][m].account \notin deleted)
    <3>1. CASE m = n
      BY <1>4, <2>1, <3>1
    <3>2. CASE m # n
      <4>1. turns'[w][m] = turns[w][turnId[w]]
        BY <1>4, <2>3, <3>2
      <4> QED  BY <2>1, <2>3, <3>2, <4>1
    <3> QED  BY <3>1, <3>2
  <2>4. SocketOK(phase[w], turnId[w], cancel[w], authContext'[w], turns'[w], heard[w], missed'[w], deleted)
    BY <1>1, <1>6, <1>9, <2>3 DEF SocketOK
  <2>5. OnlySocket(w)
    BY <1>2, <1>4, <2>1 DEF OnlySocket
  <2> QED  BY <1>2, <2>1, <2>2, <2>4, <2>5, SocketStep
<1> QED  BY <1>7, <1>8

(* What the client hears of a current turn that has not ended is right.    *)
LEMMA HeardRight ==
    ASSUME Inv, NEW w \in Clients, NEW n \in Ids, turns[w][n].stage # "none",
           NEW ended \in BOOLEAN, IsCurrent(w, n), Hear(w, n, ended)
    PROVE  /\ heard' \in [Clients -> [ended : BOOLEAN, wrong : BOOLEAN]]
           /\ ~heard'[w].wrong /\ heard'[w].ended = ended
           /\ \A v \in Clients \ {w} : heard'[v] = heard[v]
<1>1. TypeOK /\ ~heard[w].wrong /\ ~heard[w].ended
  BY DEF Inv, SocketOK, IsCurrent
<1> DEFINE wrong == heard[w].wrong \/ heard[w].ended \/ ~IsCurrent(w, n)
           h == [ended |-> ended, wrong |-> wrong]
<1>2. heard' = [heard EXCEPT ![w] = h]
  BY DEF Hear
<1>3. wrong \in BOOLEAN /\ ~wrong
  BY <1>1
<1> HIDE DEF wrong
<1>4. h \in [ended : BOOLEAN, wrong : BOOLEAN] /\ h.ended = ended /\ ~h.wrong
  BY <1>3
<1> HIDE DEF h
<1> QED  BY <1>1, <1>2, <1>4 DEF TypeOK

(* A turn that ends, with a last word to the client or without.            *)
LEMMA Ends ==
    ASSUME Inv, NEW w \in Clients, NEW n \in Ids, turns[w][n].stage # "none",
           turns' = [turns EXCEPT ![w][n] = NoTurn], UNCHANGED <<phase, turnId, deleted>>,
           (UNCHANGED cancel /\ ~IsCurrent(w, n)) \/ Finish(w, n),
           UNCHANGED owners \/
             (~IsCurrent(w, n) /\ \E account \in Accounts \cup {NoAccount} : SetContext(w, n, account)),
           UNCHANGED heard \/ (IsCurrent(w, n) /\ Hear(w, n, TRUE))
    PROVE  Inv'
<1>1. TypeOK /\ RegistryIsExact
      /\ SocketOK(phase[w], turnId[w], cancel[w], authContext[w], turns[w], heard[w], missed[w], deleted)
  BY DEF Inv
<1>2. /\ turns' \in [Clients -> [Ids -> Turns]]
      /\ \A v \in Clients \ {w} : turns'[v] = turns[v]
      /\ turns'[w][n] = NoTurn /\ \A m \in Ids \ {n} : turns'[w][m] = turns[w][m]
  BY <1>1, TurnSet, NoTurnTyped
<1>3. NoTurn.stage = "none" /\ NoTurn.account = NoAccount
  BY DEF NoTurn
<1>4. /\ cancel' \in [Clients -> 0..MaxTurns] /\ \A v \in Clients \ {w} : cancel'[v] = cancel[v]
      /\ (cancel'[w] = cancel[w] /\ cancel[w] # n) \/ (cancel[w] = n /\ cancel'[w] = 0)
  <2>1. CASE UNCHANGED cancel /\ ~IsCurrent(w, n)
    <3>1. cancel[w] # 0 => cancel[w] = turnId[w]
      BY <1>1 DEF SocketOK
    <3> QED  BY <1>1, <2>1, <3>1, IdsTyped DEF TypeOK, IsCurrent
  <2>2. CASE cancel' = [cancel EXCEPT ![w] = IF cancel[w] = n THEN 0 ELSE cancel[w]]
    BY <1>1, <2>2, SocketsAssumption DEF TypeOK
  <2> QED  BY <2>1, <2>2 DEF Finish
<1>5. /\ heard' \in [Clients -> [ended : BOOLEAN, wrong : BOOLEAN]]
      /\ ~heard'[w].wrong /\ (turnId[w] # n => heard'[w] = heard[w])
      /\ \A v \in Clients \ {w} : heard'[v] = heard[v]
  <2>1. CASE UNCHANGED heard
    BY <1>1, <2>1 DEF TypeOK, SocketOK
  <2>2. CASE IsCurrent(w, n) /\ Hear(w, n, TRUE)
    BY <2>2, HeardRight DEF IsCurrent
  <2> QED  BY <2>1, <2>2
<1>6. /\ RegistryIsExact'
      /\ registry' \in [Accounts -> SUBSET Clients]
      /\ authContext' \in [Clients -> Accounts \cup {NoAccount}]
      /\ missed' \in [Clients -> BOOLEAN]
      /\ \A v \in Clients \ {w} : authContext'[v] = authContext[v] /\ missed'[v] = missed[v]
      /\ \/ authContext'[w] = authContext[w] /\ missed'[w] = missed[w]
         \/ missed'[w]
         \/ authContext'[w] = turns[w][turnId[w]].account /\ authContext'[w] \notin deleted
  <2>1. CASE UNCHANGED owners
    BY <1>1, <2>1 DEF owners, TypeOK, RegistryIsExact, Open
  <2>2. ASSUME NEW account \in Accounts \cup {NoAccount}, SetContext(w, n, account), ~IsCurrent(w, n)
        PROVE  <1>6
    BY <1>1, <2>2, Reported DEF IsCurrent
  <2> QED  BY <2>1, <2>2
<1>7. TypeOK'
  BY <1>1, <1>2, <1>4, <1>5, <1>6 DEF TypeOK
<1>8. ASSUME NEW m \in Ids
      PROVE  /\ m > turnId[w] => turns'[w][m] = NoTurn
             /\ turns'[w][m].stage = "none" => turns'[w][m] = NoTurn
             /\ m = turnId[w] /\ turns'[w][m].stage # "none" =>
                   ~heard'[w].ended /\ (~turns'[w][m].cut => cancel'[w] = m /\ phase[w] = "open")
             /\ m = turnId[w] /\ turns'[w][m].account # NoAccount /\ ~turns'[w][m].cut =>
                   missed'[w] \/ (authContext'[w] = turns'[w][m].account /\ turns'[w][m].account \notin deleted)
  <2>1. /\ m > turnId[w] => turns[w][m] = NoTurn
        /\ turns[w][m].stage = "none" => turns[w][m] = NoTurn
        /\ m = turnId[w] /\ turns[w][m].stage # "none" =>
              ~heard[w].ended /\ (~turns[w][m].cut => cancel[w] = m /\ phase[w] = "open")
        /\ m = turnId[w] /\ turns[w][m].account # NoAccount /\ ~turns[w][m].cut =>
              missed[w] \/ (authContext[w] = turns[w][m].account /\ turns[w][m].account \notin deleted)
    BY <1>1 DEF SocketOK
  <2>2. CASE m = n
    BY <1>2, <1>3, <2>2
  <2>3. CASE m # n
    <3>1. turns'[w][m] = turns[w][m] /\ (m = turnId[w] => turns[w][turnId[w]] = turns[w][m])
      BY <1>2, <2>3
    <3>2. m = turnId[w] => heard'[w] = heard[w]
      BY <1>5, <2>3
    <3>3. cancel[w] = m => cancel'[w] = m
      BY <1>4, <2>3
    <3> QED  BY <1>6, <2>1, <3>1, <3>2, <3>3
  <2> QED  BY <2>2, <2>3
<1>11. cancel'[w] # 0 => cancel'[w] = turnId[w] /\ cancel'[w] \in Ids /\ turns'[w][cancel'[w]].stage # "none"
  <2>1. cancel[w] # 0 => cancel[w] = turnId[w] /\ cancel[w] \in Ids /\ turns[w][cancel[w]].stage # "none"
    BY <1>1 DEF SocketOK
  <2> QED  BY <1>2, <1>4, <2>1
<1>9. SocketOK(phase'[w], turnId'[w], cancel'[w], authContext'[w], turns'[w], heard'[w], missed'[w], deleted')
  BY <1>5, <1>8, <1>11 DEF SocketOK
<1>10. OnlySocket(w)
  BY <1>2, <1>4, <1>5, <1>6 DEF OnlySocket
<1> QED  BY <1>6, <1>7, <1>9, <1>10, SocketStep

------------------------------------------------------------------------------
(* The steps of a turn.                                                    *)
LEMMA TurnTyped ==
    ASSUME Inv, NEW w \in Clients, NEW n \in Ids
    PROVE  turns[w][n] \in Turns /\ turns[w] \in [Ids -> Turns] /\ TypeOK
  BY DEF Inv, TypeOK

(* A turn that goes on to another stage.                                   *)
LEMMA GoneTo ==
    ASSUME Inv, NEW w \in Clients, NEW n \in Ids, NEW stage \in Stages \ {"none"},
           turns[w][n].stage # "none", Goto(w, n, stage),
           UNCHANGED <<slots, owners, deleted, heard>>
    PROVE  Inv'
<1> DEFINE t == [turns[w][n] EXCEPT !.stage = stage]
<1>1. turns[w][n] \in Turns
  BY TurnTyped
<1>2. turns' = [turns EXCEPT ![w][n] = t]
  BY DEF Goto
<1>3. t \in Turns /\ t.stage = stage /\ t.account = turns[w][n].account
  BY <1>1 DEF Turns
<1>4. t.cut = turns[w][n].cut
  BY <1>1 DEF Turns
<1> HIDE DEF t
<1> QED  BY <1>2, <1>3, <1>4, GoesOn

(* A turn that needs no pool account.                                      *)
LEMMA DirectKeepsInv ==
    ASSUME Inv, NEW w \in Clients, NEW n \in Ids, Direct(w, n)
    PROVE  Inv'
<1>1. turns[w][n].stage = "queued" /\ UNCHANGED <<slots, deleted, heard>>
  BY DEF Direct, At
<1>2. "using" \in Stages \ {"none"} /\ turns[w][n] \in Turns
  BY TurnTyped DEF Stages
<1>3. CASE Goto(w, n, "using") /\ UNCHANGED owners
  BY <1>1, <1>2, <1>3, GoneTo
<1>4. CASE /\ SetContext(w, n, NoAccount)
           /\ turns' = [turns EXCEPT ![w][n].stage = "using", ![w][n].account = NoAccount]
  <2> DEFINE t == [turns[w][n] EXCEPT !.stage = "using", !.account = NoAccount]
  <2>1. turns' = [turns EXCEPT ![w][n] = t]
    BY <1>4
  <2>2. t \in Turns /\ t.stage = "using" /\ t.account = NoAccount
    BY <1>2 DEF Turns
  <2>3. t.cut = turns[w][n].cut
    BY <1>2 DEF Turns
  <2> HIDE DEF t
  <2> QED  BY <1>1, <1>4, <2>1, <2>2, <2>3, GoesOn
<1> QED  BY <1>3, <1>4 DEF Direct

(* A turn picks an account, its first or its second.                       *)
LEMMA PickKeepsInv ==
    ASSUME Inv, NEW w \in Clients, NEW n \in Ids, Pick(w, n) \/ PickAnother(w, n)
    PROVE  Inv'
<1>1. PICK a \in Accounts, stage \in {"resolving", "switching"} :
          turns' = [turns EXCEPT ![w][n].stage = stage, ![w][n].picked = a]
  BY DEF Pick, PickAnother
<1>2. /\ turns[w][n].stage # "none" /\ UNCHANGED <<slots, owners, deleted, heard>>
      /\ turns[w][n] \in Turns /\ stage \in Stages \ {"none"}
  BY TurnTyped DEF Pick, PickAnother, At, Stages
<1> DEFINE t == [turns[w][n] EXCEPT !.stage = stage, !.picked = a]
<1>3. turns' = [turns EXCEPT ![w][n] = t]
  BY <1>1
<1>4. t \in Turns /\ t.stage = stage /\ t.account = turns[w][n].account
  BY <1>2 DEF Turns
<1>5. t.cut = turns[w][n].cut
  BY <1>2 DEF Turns
<1> HIDE DEF t
<1> QED  BY <1>2, <1>3, <1>4, <1>5, GoesOn

(* A turn tells its socket of its account.                                 *)
LEMMA ResolvedKeepsInv ==
    ASSUME Inv, NEW w \in Clients, NEW n \in Ids, Resolved(w, n)
    PROVE  Inv'
<1> DEFINE old == turns[w][n]
           next == IF old.stage = "resolving" THEN "using" ELSE "retried"
           t == [old EXCEPT !.stage = next, !.account = old.picked, !.picked = NoAccount]
<1>1. /\ old.stage # "none" /\ UNCHANGED <<slots, deleted, heard>>
      /\ \/ Goto(w, n, next) /\ UNCHANGED owners
         \/ SetContext(w, n, old.picked) /\ turns' = [turns EXCEPT ![w][n] = t]
  BY DEF Resolved
<1>2. old \in Turns /\ next \in Stages \ {"none"}
  BY TurnTyped DEF Stages
<1>3. CASE Goto(w, n, next) /\ UNCHANGED owners
  BY <1>1, <1>2, <1>3, GoneTo
<1>4. CASE SetContext(w, n, old.picked) /\ turns' = [turns EXCEPT ![w][n] = t]
  <2> HIDE DEF next
  <2>1. t \in Turns /\ t.stage = next /\ t.account = old.picked
    BY <1>2 DEF Turns
  <2>2. t.cut = old.cut
    BY <1>2 DEF Turns
  <2> HIDE DEF t
  <2> QED  BY <1>1, <1>2, <1>4, <2>1, <2>2, GoesOn
<1> QED  BY <1>1, <1>3, <1>4

(* A combo goes on to its next member.                                     *)
LEMMA HopKeepsInv ==
    ASSUME Inv, NEW w \in Clients, NEW n \in Ids, Hop(w, n)
    PROVE  Inv'
<1> DEFINE t == [turns[w][n] EXCEPT !.stage = "queued", !.picked = NoAccount]
<1>1. /\ turns[w][n].stage # "none" /\ UNCHANGED <<slots, owners, deleted, heard>>
      /\ turns' = [turns EXCEPT ![w][n] = t] /\ turns[w][n] \in Turns /\ "queued" \in Stages
  BY TurnTyped DEF Hop, Stages
<1>2. t \in Turns /\ t.stage = "queued" /\ t.account = turns[w][n].account
  BY <1>1 DEF Turns
<1>3. t.cut = turns[w][n].cut
  BY <1>1 DEF Turns
<1> HIDE DEF t
<1> QED  BY <1>1, <1>2, <1>3, GoesOn

(* The upstream answers a turn, current or superseded.                     *)
LEMMA AnsweredKeepsInv ==
    ASSUME Inv, NEW w \in Clients, NEW n \in Ids, Answered(w, n)
    PROVE  Inv'
<1> DEFINE old == turns[w][n]
           told == IF old.combo THEN old.picked ELSE old.account
<1>1. old \in Turns /\ old.stage # "none" /\ UNCHANGED <<slots, deleted, heard>>
  BY TurnTyped DEF Answered
<1>2. /\ told \in Accounts \cup {NoAccount}
      /\ (UNCHANGED owners /\ told = old.account) \/ SetContext(w, n, told)
  BY <1>1 DEF Answered, Turns
<1>3. PICK body \in {"pump", "text", "prefix"} :
          turns' = [turns EXCEPT ![w][n] = IF IsCurrent(w, n)
                       THEN [old EXCEPT !.stage = body, !.account = told, !.picked = NoAccount] ELSE NoTurn]
  BY DEF Answered
<1>4. body \in Stages \ {"none"}
  BY DEF Stages
<1> HIDE DEF told
<1>5. CASE IsCurrent(w, n)
  <2> DEFINE t == [old EXCEPT !.stage = body, !.account = told, !.picked = NoAccount]
  <2>1. turns' = [turns EXCEPT ![w][n] = t]
    BY <1>3, <1>5
  <2>2. t \in Turns /\ t.stage = body /\ t.account = told
    BY <1>1, <1>2, <1>4 DEF Turns
  <2>3. t.cut = old.cut
    BY <1>1 DEF Turns
  <2> HIDE DEF t
  <2> QED  BY <1>1, <1>2, <1>4, <2>1, <2>2, <2>3, GoesOn
<1>6. CASE ~IsCurrent(w, n)
  <2>1. turns' = [turns EXCEPT ![w][n] = NoTurn]
    BY <1>3, <1>6
  <2> QED  BY <1>1, <1>2, <1>6, <2>1, Ends DEF slots
<1> QED  BY <1>5, <1>6

(* A turn ends, or goes on to its body.                                    *)
LEMMA EndingKeepsInv ==
    ASSUME Inv, NEW w \in Clients, NEW n \in Ids,
           Failed(w, n) \/ Looked(w, n) \/ Text(w, n) \/ PumpEnds(w, n)
    PROVE  Inv'
<1>1. turns[w][n].stage # "none" /\ UNCHANGED <<phase, turnId, owners, deleted>>
  BY DEF Failed, Looked, Text, PumpEnds, At
<1>2. CASE Finish(w, n) /\ (UNCHANGED heard \/ Spoken(w, n))
  <2>1. turns' = [turns EXCEPT ![w][n] = NoTurn]
    BY <1>2 DEF Finish
  <2>2. UNCHANGED heard \/ (IsCurrent(w, n) /\ Hear(w, n, TRUE))
    BY <1>2 DEF Spoken
  <2> QED  BY <1>1, <1>2, <2>1, <2>2, Ends
<1>3. ASSUME NEW stage \in {"text", "pump"}, Goto(w, n, stage), UNCHANGED <<cancel, heard>>
      PROVE  Inv'
  <2>1. stage \in Stages \ {"none"}
    BY DEF Stages
  <2> QED  BY <1>1, <1>3, <2>1, GoneTo DEF slots
<1>4. CASE Failed(w, n)
  BY <1>2, <1>3, <1>4 DEF Failed
<1>5. CASE Looked(w, n)
  BY <1>2, <1>3, <1>5 DEF Looked
<1>6. CASE Text(w, n) \/ PumpEnds(w, n)
  BY <1>2, <1>6 DEF Text, PumpEnds
<1> QED  BY <1>4, <1>5, <1>6

(* The pump passes on an event.                                            *)
LEMMA PumpFrameKeepsInv ==
    ASSUME Inv, NEW w \in Clients, NEW n \in Ids, PumpFrame(w, n)
    PROVE  Inv'
<1>1. /\ turns[w][n].stage # "none" /\ IsCurrent(w, n) /\ Hear(w, n, FALSE)
      /\ UNCHANGED <<slots, owners, turns, deleted>>
  BY DEF PumpFrame, At
<1>2. /\ heard' \in [Clients -> [ended : BOOLEAN, wrong : BOOLEAN]]
      /\ ~heard'[w].wrong /\ ~heard'[w].ended
      /\ \A v \in Clients \ {w} : heard'[v] = heard[v]
  BY <1>1, HeardRight
<1>3. UNCHANGED <<phase, turnId, cancel, authContext, registry, missed, turns, deleted>>
  BY <1>1 DEF slots, owners
<1>4. TypeOK' /\ RegistryIsExact'
  BY <1>2, <1>3 DEF Inv, TypeOK, RegistryIsExact, Open
<1>5. SocketOK(phase[w], turnId[w], cancel[w], authContext[w], turns[w], heard'[w], missed[w], deleted)
  BY <1>2 DEF Inv, SocketOK
<1>6. OnlySocket(w)
  BY <1>2, <1>3 DEF OnlySocket
<1> QED  BY <1>3, <1>4, <1>5, <1>6, SocketStep

------------------------------------------------------------------------------
(* The handlers of a socket.                                               *)

(* ws.data.cancel cuts the current turn, and only that.                    *)
LEMMA CancelledTurns ==
    ASSUME Inv, NEW w \in Clients
    PROVE  /\ Cancelled(w) \in [Ids -> Turns]
           /\ \A n \in Ids :
                 /\ Cancelled(w)[n].stage = turns[w][n].stage
                 /\ Cancelled(w)[n].account = turns[w][n].account
                 /\ turns[w][n] = NoTurn => Cancelled(w)[n] = NoTurn
                 /\ turns[w][n].cut => Cancelled(w)[n].cut
                 /\ n = turnId[w] /\ turns[w][n].stage # "none" => Cancelled(w)[n].cut
<1>1. /\ turns[w] \in [Ids -> Turns]
      /\ cancel[w] # 0 => cancel[w] \in Ids /\ turns[w][cancel[w]].stage # "none"
      /\ \A n \in Ids : n = turnId[w] /\ turns[w][n].stage # "none" /\ ~turns[w][n].cut => cancel[w] = n
  BY DEF Inv, TypeOK, SocketOK
<1>2. CASE cancel[w] = 0
  BY <1>1, <1>2, IdsTyped DEF Cancelled
<1>3. CASE cancel[w] # 0
  <2> DEFINE c == cancel[w]
             t == [turns[w][c] EXCEPT !.cut = TRUE]
  <2>1. c \in Ids /\ turns[w][c] \in Turns
    BY <1>1, <1>3
  <2>2. /\ t \in Turns /\ t.stage = turns[w][c].stage /\ t.account = turns[w][c].account
    BY <2>1 DEF Turns
  <2>3. t.cut
    BY <2>1 DEF Turns
  <2>4. Cancelled(w) = [turns[w] EXCEPT ![c] = t]
    BY <1>3 DEF Cancelled
  <2>5. NoTurn.stage = "none" /\ turns[w][c].stage # "none"
    BY <1>1, <1>3 DEF NoTurn
  <2> HIDE DEF t
  <2>6. Cancelled(w)[c] = t /\ \A n \in Ids \ {c} : Cancelled(w)[n] = turns[w][n]
    BY <1>1, <2>1, <2>4
  <2>7. Cancelled(w) \in [Ids -> Turns]
    BY <1>1, <2>1, <2>2, <2>4
  <2> QED  BY <1>1, <2>2, <2>3, <2>5, <2>6, <2>7
<1> QED  BY <1>2, <1>3

(* A socket opens.                                                         *)
LEMMA OpenedKeepsInv ==
    ASSUME Inv, NEW w \in Clients, Opened(w)
    PROVE  Inv'
<1>1. /\ phase[w] = "new" /\ phase' = [phase EXCEPT ![w] = "open"]
      /\ registry' = Relisted(w, authContext[w])
      /\ UNCHANGED <<turnId, cancel, authContext, missed, turns, deleted, heard>>
  BY DEF Opened
<1>2. TypeOK /\ RegistryIsExact
      /\ SocketOK(phase[w], turnId[w], cancel[w], authContext[w], turns[w], heard[w], missed[w], deleted)
  BY DEF Inv
<1>3. /\ phase' \in [Clients -> {"new", "open", "closing", "closed"}]
      /\ phase'[w] = "open" /\ \A v \in Clients \ {w} : phase'[v] = phase[v]
  BY <1>1, <1>2 DEF TypeOK
<1>4. registry' \in [Accounts -> SUBSET Clients]
  BY <1>1, <1>2 DEF TypeOK, Relisted
<1>5. TypeOK'
  BY <1>1, <1>2, <1>3, <1>4 DEF TypeOK
<1>6. ASSUME NEW v \in Clients, NEW a \in Accounts
      PROVE  /\ v \in registry'[a] => authContext[v] = a
             /\ phase'[v] = "open" /\ authContext[v] = a => v \in registry'[a]
  <2>1. registry'[a] = IF a = authContext[w] THEN registry[a] \cup {w} ELSE registry[a]
    BY <1>1 DEF Relisted
  <2>2. /\ v \in registry[a] => authContext[v] = a
        /\ phase[v] = "open" /\ authContext[v] = a => v \in registry[a]
    BY <1>2 DEF RegistryIsExact, Open
  <2>3. CASE v = w
    BY <2>1, <2>2, <2>3
  <2>4. CASE v # w
    BY <1>3, <2>1, <2>2, <2>4
  <2> QED  BY <2>3, <2>4
<1>7. RegistryIsExact'
  BY <1>1, <1>6 DEF RegistryIsExact, Open
<1>8. SocketOK(phase'[w], turnId[w], cancel[w], authContext[w], turns[w], heard[w], missed[w], deleted)
  BY <1>2, <1>3 DEF SocketOK
<1>9. OnlySocket(w)
  BY <1>1, <1>3 DEF OnlySocket
<1> QED  BY <1>1, <1>5, <1>7, <1>8, <1>9, SocketStep

(* A socket closes: its current turn is cut.                               *)
LEMMA ClosedKeepsInv ==
    ASSUME Inv, NEW w \in Clients, Closed(w)
    PROVE  Inv'
<1>1. /\ phase' = [phase EXCEPT ![w] = "closed"]
      /\ registry' = [a \in Accounts |-> IF a = authContext[w] THEN registry[a] \ {w} ELSE registry[a]]
      /\ turns' = [turns EXCEPT ![w] = Cancelled(w)]
      /\ UNCHANGED <<turnId, cancel, authContext, missed, deleted, heard>>
  BY DEF Closed
<1>2. TypeOK /\ RegistryIsExact
      /\ SocketOK(phase[w], turnId[w], cancel[w], authContext[w], turns[w], heard[w], missed[w], deleted)
  BY DEF Inv
<1>3. /\ phase' \in [Clients -> {"new", "open", "closing", "closed"}]
      /\ phase'[w] = "closed" /\ \A v \in Clients \ {w} : phase'[v] = phase[v]
  BY <1>1, <1>2 DEF TypeOK
<1>4. registry' \in [Accounts -> SUBSET Clients]
  BY <1>1, <1>2 DEF TypeOK
<1>5. /\ Cancelled(w) \in [Ids -> Turns]
      /\ \A n \in Ids :
            /\ Cancelled(w)[n].stage = turns[w][n].stage
            /\ Cancelled(w)[n].account = turns[w][n].account
            /\ turns[w][n] = NoTurn => Cancelled(w)[n] = NoTurn
            /\ turns[w][n].cut => Cancelled(w)[n].cut
            /\ n = turnId[w] /\ turns[w][n].stage # "none" => Cancelled(w)[n].cut
  BY CancelledTurns
<1>6. /\ turns' \in [Clients -> [Ids -> Turns]] /\ turns'[w] = Cancelled(w)
      /\ \A v \in Clients \ {w} : turns'[v] = turns[v]
  BY <1>1, <1>2, <1>5 DEF TypeOK
<1>7. TypeOK'
  BY <1>1, <1>2, <1>3, <1>4, <1>6 DEF TypeOK
<1>8. ASSUME NEW v \in Clients, NEW a \in Accounts
      PROVE  /\ v \in registry'[a] => authContext[v] = a
             /\ phase'[v] = "open" /\ authContext[v] = a => v \in registry'[a]
  <2>1. registry'[a] = IF a = authContext[w] THEN registry[a] \ {w} ELSE registry[a]
    BY <1>1
  <2>2. /\ v \in registry[a] => authContext[v] = a
        /\ phase[v] = "open" /\ authContext[v] = a => v \in registry[a]
    BY <1>2 DEF RegistryIsExact, Open
  <2>3. CASE v = w
    BY <1>3, <2>1, <2>2, <2>3
  <2>4. CASE v # w
    BY <1>3, <2>1, <2>2, <2>4
  <2> QED  BY <2>3, <2>4
<1>9. RegistryIsExact'
  BY <1>1, <1>8 DEF RegistryIsExact, Open
<1>10. SocketOK(phase'[w], turnId[w], cancel[w], authContext[w], turns'[w], heard[w], missed[w], deleted)
  <2>1. ASSUME NEW n \in Ids
        PROVE  /\ n > turnId[w] => Cancelled(w)[n] = NoTurn
               /\ Cancelled(w)[n].stage = "none" => Cancelled(w)[n] = NoTurn
               /\ n = turnId[w] /\ Cancelled(w)[n].stage # "none" => ~heard[w].ended /\ Cancelled(w)[n].cut
               /\ n = turnId[w] /\ Cancelled(w)[n].account # NoAccount => Cancelled(w)[n].cut
    <3>1. /\ n > turnId[w] => turns[w][n] = NoTurn
          /\ turns[w][n].stage = "none" => turns[w][n] = NoTurn
          /\ n = turnId[w] /\ turns[w][n].stage # "none" => ~heard[w].ended
      BY <1>2 DEF SocketOK
    <3>2. turns[w][n].account # NoAccount => turns[w][n].stage # "none"
      BY <3>1 DEF NoTurn
    <3> QED  BY <1>5, <3>1, <3>2
  <2>2. cancel[w] # 0 => cancel[w] = turnId[w] /\ cancel[w] \in Ids /\ Cancelled(w)[cancel[w]].stage # "none"
    BY <1>2, <1>5 DEF SocketOK
  <2>3. ~heard[w].wrong
    BY <1>2 DEF SocketOK
  <2> QED  BY <1>6, <2>1, <2>2, <2>3 DEF SocketOK
<1>11. OnlySocket(w)
  BY <1>1, <1>3, <1>6 DEF OnlySocket
<1> QED  BY <1>1, <1>7, <1>9, <1>10, <1>11, SocketStep

(* What the client of one socket hears is its own.                         *)
LEMMA HeardSet ==
    ASSUME TypeOK, NEW w \in Clients, NEW h \in [ended : BOOLEAN, wrong : BOOLEAN],
           heard' = [heard EXCEPT ![w] = h]
    PROVE  /\ heard' \in [Clients -> [ended : BOOLEAN, wrong : BOOLEAN]] /\ heard'[w] = h
           /\ \A v \in Clients \ {w} : heard'[v] = heard[v]
  BY DEF TypeOK

(* A new turn t takes the place of the one before.                         *)
LEMMA SupersededKeepsInv ==
    ASSUME Inv, NEW w \in Clients, Supersede(w), NEW t \in Turns, t.account = NoAccount,
           NEW c \in {0, turnId[w] + 1}, NEW ended \in BOOLEAN,
           turns' = [turns EXCEPT ![w] = [Cancelled(w) EXCEPT ![turnId[w] + 1] = t]],
           cancel' = [cancel EXCEPT ![w] = c], heard' = [heard EXCEPT ![w].ended = ended],
           c = 0 => t = NoTurn, c # 0 => t.stage # "none" /\ ~ended
    PROVE  Inv'
<1> DEFINE id == turnId[w] + 1
           ts == [Cancelled(w) EXCEPT ![id] = t]
<1>1. /\ Open(w) /\ turnId[w] < MaxTurns /\ turnId' = [turnId EXCEPT ![w] = id]
      /\ registry' = Relisted(w, NoAccount) /\ authContext' = [authContext EXCEPT ![w] = NoAccount]
      /\ missed' = [missed EXCEPT ![w] = FALSE] /\ phase' = phase /\ deleted' = deleted
  BY DEF Supersede
<1>2. TypeOK /\ RegistryIsExact
      /\ SocketOK(phase[w], turnId[w], cancel[w], authContext[w], turns[w], heard[w], missed[w], deleted)
  BY DEF Inv
<1>3. turnId[w] \in Nat /\ id \in Nat /\ id \in Ids /\ id \in 0..MaxTurns /\ id # 0 /\ id > turnId[w]
  BY <1>1, <1>2, SocketsAssumption DEF TypeOK, Ids
<1>4. /\ Cancelled(w) \in [Ids -> Turns]
      /\ \A n \in Ids : turns[w][n] = NoTurn => Cancelled(w)[n] = NoTurn
      /\ \A n \in Ids : Cancelled(w)[n].stage = turns[w][n].stage
  BY CancelledTurns
<1>5. /\ ts \in [Ids -> Turns] /\ ts[id] = t /\ \A n \in Ids \ {id} : ts[n] = Cancelled(w)[n]
  BY <1>3, <1>4
<1>6. turns' = [turns EXCEPT ![w] = ts] /\ c \in {0, id}
  OBVIOUS
<1> HIDE DEF ts, id
<1>7. /\ turns' \in [Clients -> [Ids -> Turns]] /\ turns'[w] = ts
      /\ \A v \in Clients \ {w} : turns'[v] = turns[v]
  BY <1>2, <1>5, <1>6 DEF TypeOK
<1>8. /\ RegistryIsExact' /\ registry' \in [Accounts -> SUBSET Clients]
      /\ authContext' \in [Clients -> Accounts \cup {NoAccount}]
  BY <1>1, <1>2, Relisting
<1>9. /\ turnId' \in [Clients -> 0..MaxTurns] /\ turnId'[w] = id
      /\ \A v \in Clients \ {w} : turnId'[v] = turnId[v]
  BY <1>1, <1>2, <1>3 DEF TypeOK
<1>10. /\ cancel' \in [Clients -> 0..MaxTurns] /\ cancel'[w] = c
       /\ \A v \in Clients \ {w} : cancel'[v] = cancel[v]
  <2>1. c \in 0..MaxTurns
    BY <1>3, <1>6, SocketsAssumption
  <2> QED  BY <1>2, <2>1 DEF TypeOK
<1>11. /\ heard' \in [Clients -> [ended : BOOLEAN, wrong : BOOLEAN]]
       /\ heard'[w].ended = ended /\ ~heard'[w].wrong
       /\ \A v \in Clients \ {w} : heard'[v] = heard[v]
  <2> DEFINE h == [heard[w] EXCEPT !.ended = ended]
  <2>1. heard[w] \in [ended : BOOLEAN, wrong : BOOLEAN] /\ ~heard[w].wrong
    BY <1>2 DEF TypeOK, SocketOK
  <2>2. heard' = [heard EXCEPT ![w] = h]
    OBVIOUS
  <2>3. h \in [ended : BOOLEAN, wrong : BOOLEAN]
    BY <2>1
  <2>4. h.ended = ended /\ ~h.wrong
    BY <2>1
  <2> HIDE DEF h
  <2>5. /\ heard' \in [Clients -> [ended : BOOLEAN, wrong : BOOLEAN]] /\ heard'[w] = h
        /\ \A v \in Clients \ {w} : heard'[v] = heard[v]
    BY <1>2, <2>2, <2>3, HeardSet
  <2> QED  BY <2>4, <2>5
<1>12. /\ missed' \in [Clients -> BOOLEAN]
       /\ \A v \in Clients \ {w} : missed'[v] = missed[v] /\ authContext'[v] = authContext[v]
  BY <1>1, <1>2 DEF TypeOK
<1>13. TypeOK'
  BY <1>1, <1>2, <1>7, <1>8, <1>9, <1>10, <1>11, <1>12 DEF TypeOK
<1>14. ASSUME NEW n \in Ids
       PROVE  /\ n > id => ts[n] = NoTurn
              /\ ts[n].stage = "none" => ts[n] = NoTurn
              /\ n = id /\ ts[n].stage # "none" => ~ended /\ c = n /\ phase[w] = "open"
              /\ n = id => ts[n].account = NoAccount
  <2>1. /\ n > turnId[w] => turns[w][n] = NoTurn
        /\ turns[w][n].stage = "none" => turns[w][n] = NoTurn
    BY <1>2 DEF SocketOK
  <2>2. NoTurn.stage = "none"
    BY DEF NoTurn
  <2>3. CASE n = id
    <3>1. ~(n > id)
      BY <1>3, <2>3
    <3> QED  BY <1>1, <1>5, <1>6, <2>2, <2>3, <3>1 DEF Open
  <2>4. CASE n # id
    <3>1. n > id => n > turnId[w]
      BY <1>3, IdsTyped
    <3> QED  BY <1>4, <1>5, <2>1, <2>4, <3>1
  <2> QED  BY <2>3, <2>4
<1>15. c # 0 => c = id /\ c \in Ids /\ ts[c].stage # "none"
  BY <1>3, <1>5, <1>6
<1>16. SocketOK(phase'[w], turnId'[w], cancel'[w], authContext'[w], turns'[w], heard'[w], missed'[w], deleted')
  BY <1>1, <1>7, <1>9, <1>10, <1>11, <1>14, <1>15 DEF SocketOK
<1>17. OnlySocket(w)
  BY <1>1, <1>7, <1>9, <1>10, <1>11, <1>12 DEF OnlySocket
<1> QED  BY <1>8, <1>13, <1>16, <1>17, SocketStep

(* A frame begins a turn.                                                  *)
LEMMA BeginKeepsInv ==
    ASSUME Inv, NEW w \in Clients, Begin(w)
    PROVE  Inv'
<1>1. PICK combo \in BOOLEAN :
          turns' = [turns EXCEPT ![w] = [Cancelled(w) EXCEPT ![turnId[w] + 1] =
                                            [NoTurn EXCEPT !.stage = "queued", !.combo = combo]]]
  BY DEF Begin
<1> DEFINE t == [NoTurn EXCEPT !.stage = "queued", !.combo = combo]
<1>2. t \in Turns /\ t.account = NoAccount /\ t.stage = "queued"
  BY DEF NoTurn, Turns, Stages
<1>3. turnId[w] + 1 # 0
  BY SocketsAssumption DEF Inv, TypeOK
<1>4. /\ Supersede(w) /\ cancel' = [cancel EXCEPT ![w] = turnId[w] + 1]
      /\ heard' = [heard EXCEPT ![w].ended = FALSE]
      /\ turns' = [turns EXCEPT ![w] = [Cancelled(w) EXCEPT ![turnId[w] + 1] = t]]
  BY <1>1 DEF Begin
<1> HIDE DEF t
<1> QED  BY <1>2, <1>3, <1>4, SupersededKeepsInv

(* A frame is answered at once.                                            *)
LEMMA WarmupKeepsInv ==
    ASSUME Inv, NEW w \in Clients, Warmup(w)
    PROVE  Inv'
<1>1. /\ Supersede(w) /\ turns' = [turns EXCEPT ![w] = Cancelled(w)]
      /\ cancel' = [cancel EXCEPT ![w] = 0] /\ heard' = [heard EXCEPT ![w].ended = TRUE]
  BY DEF Warmup
<1>2. turnId[w] + 1 \in Ids /\ turnId[w] + 1 > turnId[w]
  BY <1>1, SocketsAssumption DEF Inv, TypeOK, Supersede, Ids
<1>3. turns[w][turnId[w] + 1] = NoTurn
  BY <1>2 DEF Inv, SocketOK
<1>4. Cancelled(w) \in [Ids -> Turns] /\ Cancelled(w)[turnId[w] + 1] = NoTurn
  BY <1>2, <1>3, CancelledTurns
<1>5. Cancelled(w) = [Cancelled(w) EXCEPT ![turnId[w] + 1] = NoTurn]
  BY <1>2, <1>4
<1>6. NoTurn.account = NoAccount
  BY DEF NoTurn
<1>7. turns' = [turns EXCEPT ![w] = [Cancelled(w) EXCEPT ![turnId[w] + 1] = NoTurn]]
  BY <1>1, <1>5
<1> QED  BY <1>1, <1>6, <1>7, NoTurnTyped, SupersededKeepsInv

(* The deletion of an account cuts off the sockets listed under it, and a  *)
(* socket with the account for its context is listed if it is open.        *)
LEMMA DeleteKeepsInv ==
    ASSUME Inv, NEW a \in Accounts, Delete(a)
    PROVE  Inv'
<1>1. /\ deleted' = deleted \cup {a} /\ registry' = [registry EXCEPT ![a] = {}]
      /\ turns' = [w \in Clients |-> IF w \in registry[a] THEN Cancelled(w) ELSE turns[w]]
      /\ phase' = [w \in Clients |-> IF w \in registry[a] /\ Open(w) THEN "closing" ELSE phase[w]]
      /\ UNCHANGED <<turnId, cancel, authContext, missed, heard>>
  BY DEF Delete
<1>2. TypeOK /\ RegistryIsExact
      /\ \A w \in Clients : SocketOK(phase[w], turnId[w], cancel[w], authContext[w],
                                     turns[w], heard[w], missed[w], deleted)
  BY DEF Inv
<1>3. phase' \in [Clients -> {"new", "open", "closing", "closed"}]
  BY <1>1, <1>2 DEF TypeOK
<1>4. turns' \in [Clients -> [Ids -> Turns]]
  BY <1>1, <1>2, CancelledTurns DEF TypeOK
<1>5. registry' \in [Accounts -> SUBSET Clients] /\ deleted' \subseteq Accounts
  BY <1>1, <1>2 DEF TypeOK
<1>6. TypeOK'
  BY <1>1, <1>2, <1>3, <1>4, <1>5 DEF TypeOK
<1>7. ASSUME NEW w \in Clients, NEW b \in Accounts
      PROVE  /\ w \in registry'[b] => authContext[w] = b
             /\ phase'[w] = "open" /\ authContext[w] = b => w \in registry'[b]
  <2>1. /\ w \in registry[b] => authContext[w] = b
        /\ phase[w] = "open" /\ authContext[w] = b => w \in registry[b]
    BY <1>2 DEF RegistryIsExact, Open
  <2>2. registry'[b] = IF b = a THEN {} ELSE registry[b]
    BY <1>1, <1>2 DEF TypeOK
  <2>3. phase'[w] = "open" => phase[w] = "open" /\ w \notin registry[a]
    BY <1>1 DEF Open
  <2> QED  BY <2>1, <2>2, <2>3
<1>8. RegistryIsExact'
  BY <1>1, <1>7 DEF RegistryIsExact, Open
<1>9. ASSUME NEW w \in Clients
      PROVE  SocketOK(phase'[w], turnId[w], cancel[w], authContext[w], turns'[w], heard[w], missed[w], deleted')
  <2>1. SocketOK(phase[w], turnId[w], cancel[w], authContext[w], turns[w], heard[w], missed[w], deleted)
    BY <1>2
  <2>2. CASE w \in registry[a]
    <3>1. turns'[w] = Cancelled(w)
      BY <1>1, <2>2
    <3>2. \A n \in Ids :
             /\ Cancelled(w)[n].stage = turns[w][n].stage
             /\ Cancelled(w)[n].account = turns[w][n].account
             /\ turns[w][n] = NoTurn => Cancelled(w)[n] = NoTurn
             /\ n = turnId[w] /\ turns[w][n].stage # "none" => Cancelled(w)[n].cut
      BY CancelledTurns
    <3>3. ASSUME NEW n \in Ids
          PROVE  /\ n > turnId[w] => Cancelled(w)[n] = NoTurn
                 /\ Cancelled(w)[n].stage = "none" => Cancelled(w)[n] = NoTurn
                 /\ n = turnId[w] /\ Cancelled(w)[n].stage # "none" => ~heard[w].ended /\ Cancelled(w)[n].cut
                 /\ n = turnId[w] /\ Cancelled(w)[n].account # NoAccount => Cancelled(w)[n].cut
      <4>1. /\ n > turnId[w] => turns[w][n] = NoTurn
            /\ turns[w][n].stage = "none" => turns[w][n] = NoTurn
            /\ n = turnId[w] /\ turns[w][n].stage # "none" => ~heard[w].ended
        BY <2>1 DEF SocketOK
      <4>2. turns[w][n].account # NoAccount => turns[w][n].stage # "none"
        BY <4>1 DEF NoTurn
      <4> QED  BY <3>2, <4>1, <4>2
    <3>4. cancel[w] # 0 => cancel[w] = turnId[w] /\ cancel[w] \in Ids /\ Cancelled(w)[cancel[w]].stage # "none"
      BY <2>1, <3>2 DEF SocketOK
    <3>5. ~heard[w].wrong
      BY <2>1 DEF SocketOK
    <3> QED  BY <3>1, <3>3, <3>4, <3>5 DEF SocketOK
  <2>3. CASE w \notin registry[a]
    <3>1. turns'[w] = turns[w] /\ phase'[w] = phase[w]
      BY <1>1, <2>3
    <3>2. phase[w] = "open" => authContext[w] # a
      BY <1>2, <2>3 DEF RegistryIsExact, Open
    <3>3. ASSUME NEW n \in Ids, n = turnId[w], turns[w][n].account # NoAccount, ~turns[w][n].cut
          PROVE  missed[w] \/ (authContext[w] = turns[w][n].account /\ turns[w][n].account \notin deleted')
      <4>1. turns[w][n].stage # "none"
        BY <2>1, <3>3 DEF SocketOK, NoTurn
      <4>2. phase[w] = "open"
        BY <2>1, <3>3, <4>1 DEF SocketOK
      <4>3. missed[w] \/ (authContext[w] = turns[w][n].account /\ turns[w][n].account \notin deleted)
        BY <2>1, <3>3 DEF SocketOK
      <4> QED  BY <1>1, <3>2, <4>2, <4>3
    <3> QED  BY <2>1, <3>1, <3>3 DEF SocketOK
  <2> QED  BY <2>2, <2>3
<1> QED  BY <1>1, <1>6, <1>8, <1>9 DEF Inv

(* No socket is open yet.                                                  *)
LEMMA InitInv == Init => Inv
<1> SUFFICES ASSUME Init PROVE Inv
  OBVIOUS
<1>1. TypeOK
  BY NoTurnTyped, SocketsAssumption DEF Init, TypeOK
<1>2. RegistryIsExact
  BY DEF Init, RegistryIsExact, Open
<1>3. ASSUME NEW w \in Clients
      PROVE  SocketOK(phase[w], turnId[w], cancel[w], authContext[w], turns[w], heard[w], missed[w], deleted)
  BY DEF Init, SocketOK, NoTurn
<1> QED  BY <1>1, <1>2, <1>3 DEF Inv

(* Every step keeps the invariant.                                         *)
LEMMA NextInv == Inv /\ [Next]_vars => Inv'
<1> SUFFICES ASSUME Inv, [Next]_vars PROVE Inv'
  OBVIOUS
<1>1. ASSUME NEW w \in Clients, NEW n \in Ids, Step(w, n) PROVE Inv'
  BY <1>1, DirectKeepsInv, PickKeepsInv, ResolvedKeepsInv, HopKeepsInv, AnsweredKeepsInv,
     EndingKeepsInv, PumpFrameKeepsInv DEF Step
<1>2. CASE UNCHANGED vars
  BY <1>2 DEF vars, slots, owners, Inv, TypeOK, RegistryIsExact, Open, SocketOK
<1> QED  BY <1>1, <1>2, OpenedKeepsInv, ClosedKeepsInv, BeginKeepsInv, WarmupKeepsInv, DeleteKeepsInv DEF Next

------------------------------------------------------------------------------
(* The inductive invariant: the cancel function of a socket is its current *)
(* turn's, that turn is cut once the socket is not open, and its account   *)
(* is the context under which the registry lists the socket.               *)
THEOREM Invariance == Spec => []Inv
  BY InitInv, NextInv, PTL DEF Spec

(* Every variable of the sockets keeps its type, through supersession,     *)
(* deletion and close.                                                     *)
THEOREM TypeCorrect == Spec => []TypeOK
<1>1. Inv => TypeOK
  BY DEF Inv
<1> QED  BY <1>1, Invariance, PTL

(* A turn on a deleted account is cut off, whatever its socket went        *)
(* through, unless a superseded turn misled the registry.                  *)
THEOREM DeletedAreCutOff == Spec => []DeletedIsCutOff
<1>1. Inv => DeletedIsCutOff
  <2> SUFFICES ASSUME Inv, NEW w \in Clients, NEW n \in Ids, n = turnId[w],
                      turns[w][n].account \in deleted, ~turns[w][n].cut
               PROVE  missed[w]
    BY DEF DeletedIsCutOff, IsCurrent
  <2>1. turns[w][n].account # NoAccount
    BY SocketsAssumption DEF Inv, TypeOK
  <2> QED  BY <2>1 DEF Inv, SocketOK
<1> QED  BY <1>1, Invariance, PTL

(* The registry of sockets by account agrees with the contexts.            *)
THEOREM RegistryStaysExact == Spec => []RegistryIsExact
<1>1. Inv => RegistryIsExact
  BY DEF Inv
<1> QED  BY <1>1, Invariance, PTL

(* A client hears only the turn it asked for last, and only until its end. *)
THEOREM AnswersStayCurrent == Spec => []AnswersAreCurrent
<1>1. Inv => AnswersAreCurrent
  BY DEF Inv, SocketOK, AnswersAreCurrent
<1> QED  BY <1>1, Invariance, PTL
===============================================================================
