------------------------------ MODULE TimeLock ------------------------------
(***************************************************************************)
(* What the vault contract promises its users, with no pool, no ids handed *)
(* out in order, no storage and no failing calls: boxes that hold their    *)
(* owner's money apart from everybody else's until their time has come.    *)
(***************************************************************************)
EXTENDS Integers

CONSTANTS Holders, Assets, NoAsset, Purses, BoxIds, MaxTime

VARIABLES
    asset,   \* the one asset boxes are filled with, once chosen
    purse,   \* what every holder can spend, of every asset
    box,     \* the boxes made so far, a partial function on BoxIds
    time

lockVars == <<asset, purse, box, time>>

\* An opened box keeps its owner and its times, for the record, and no money.
Box == [holder: Holders, amount: Nat, until: 0..MaxTime,
        since: 0..MaxTime, open: BOOLEAN]

Pay(h, n) == purse' = [purse EXCEPT ![asset][h] = @ - n]

Choose(a) ==
    /\ asset = NoAsset
    /\ asset' = a
    /\ UNCHANGED <<purse, box, time>>

\* A box is made around money, and is never made already open.
Lock(h, b, n, t) ==
    /\ asset # NoAsset
    /\ b \notin DOMAIN box
    /\ n \in 1..purse[asset][h]
    /\ t > time
    /\ Pay(h, n)
    /\ box' = [i \in DOMAIN box \cup {b} |->
                 IF i = b THEN [holder |-> h, amount |-> n, until |-> t,
                                since |-> time, open |-> FALSE]
                          ELSE box[i]]
    /\ UNCHANGED <<asset, time>>

TopUp(b, n) ==
    /\ ~box[b].open
    /\ n \in 1..purse[asset][box[b].holder]
    /\ Pay(box[b].holder, n)
    /\ box' = [box EXCEPT ![b].amount = @ + n]
    /\ UNCHANGED <<asset, time>>

Prolong(b, t) ==
    /\ ~box[b].open
    /\ t > box[b].until
    /\ box' = [box EXCEPT ![b].until = t]
    /\ UNCHANGED <<asset, purse, time>>

\* Opening needs nothing but the time: a box can always pay what it holds.
Open(b) ==
    /\ b \in DOMAIN box
    /\ ~box[b].open
    /\ time >= box[b].until
    /\ purse' = [purse EXCEPT ![asset][box[b].holder] = @ + box[b].amount]
    /\ box' = [box EXCEPT ![b].open = TRUE, ![b].amount = 0]
    /\ UNCHANGED <<asset, time>>

Pass ==
    /\ time < MaxTime
    /\ time' = time + 1
    /\ UNCHANGED <<asset, purse, box>>

\* A holder pays n to another holder, or away for good.
Spend(a, h, n) ==
    /\ \/ purse' = [purse EXCEPT ![a][h] = @ - n]
       \/ \E g \in Holders \ {h} :
            purse' = [purse EXCEPT ![a][h] = @ - n, ![a][g] = @ + n]
    /\ UNCHANGED <<asset, box, time>>

LockInit ==
    /\ asset = NoAsset
    /\ purse = Purses
    /\ box = [i \in {} |-> {}]
    /\ time = 0

LockNext ==
    \/ \E a \in Assets : Choose(a)
    \/ \E h \in Holders, b \in BoxIds, t \in 0..MaxTime :
         \E n \in 1..(IF asset = NoAsset THEN 0 ELSE purse[asset][h]) : Lock(h, b, n, t)
    \/ \E b \in DOMAIN box :
         \/ \E n \in 1..purse[asset][box[b].holder] : TopUp(b, n)
         \/ \E t \in 0..MaxTime : Prolong(b, t)
         \/ Open(b)
    \/ Pass
    \/ \E a \in Assets, h \in Holders : \E n \in 1..purse[a][h] : Spend(a, h, n)

LockSpec == LockInit /\ [][LockNext]_lockVars

\* Every box is opened in the end, for a holder who keeps asking: no box is
\* left waiting for money that went to another one.
EveryBoxOpens ==
    \A b \in BoxIds : (b \in DOMAIN box) ~> (b \in DOMAIN box /\ box[b].open)
=============================================================================
