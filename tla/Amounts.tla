------------------------------- MODULE Amounts -------------------------------
(***************************************************************************)
(* What the forms make of the amounts the user types and of those the node *)
(* answers: the check and the conversion before a contract is handed to    *)
(* the network thread.  Balances, frozen amounts and contracts are in      *)
(* drops, Rate of which are a TRX.                                         *)
(*                                                                         *)
(* Integers have the widths of the code, shrunk: int is -Half32..Half32-1, *)
(* int64_t is -Half64..Half64-1.  A double is a whole number of D-ths, and *)
(* of the form m * u with m <= Exact and u one of Units; every operation   *)
(* on doubles gives the one that is nearest to its exact result.  A double *)
(* too large for int64_t converts to its least value.                      *)
(***************************************************************************)
EXTENDS Integers, Sequences, SequencesExt

CONSTANTS
    RateOdd,        \* TRX_DROP_RATE is RateOdd * RateTwos, the latter a power of two.
    RateTwos,
    Half32, Half64,
    Exact,          \* 2^53: integers up to it are doubles
    Units,          \* the powers of two that can be the last place of a double
    D,              \* the least positive double is 1 / D
    Drops,          \* The balances and frozen amounts of accounts.
    Typed,          \* The whole numbers that are typed.
    Fractions,      \* The amounts <<n, d>> that are typed to be sent.
    MaxVotes,       \* Bound on the witnesses voted for.
    None

Rate == RateOdd * RateTwos

ASSUME AmountsAssumption ==
    /\ RateOdd \in Nat /\ RateTwos \in Nat /\ Rate > 1
    /\ Half32 \in Nat /\ Half64 \in Nat
    /\ Drops \subseteq 0 .. Half64 - 1
    /\ Typed \subseteq -Half64 .. Half64 - 1
    /\ Fractions \subseteq (1 .. Half64) \X (1 .. Half64)
    /\ MaxVotes \in Nat

\* Doubles: the units are the powers of two up to what no amount exceeds, every count
\* of votes in drops is a double, and so are the TRX of every balance; D is large.
ASSUME DoublesAssumption ==
    /\ Units \subseteq Nat \ {0}
    /\ \A u, w \in Units : u <= w => w % u = 0
    /\ \A u \in Units : u = 1 \/ \E h \in Units : u = 2 * h
    /\ {1, D, RateTwos * D, Half32 * Half64 * D} \subseteq Units
    /\ Exact \in Nat /\ Exact > 7 /\ Rate <= Exact
    /\ 2 <= Half32 /\ Half32 * Rate <= Exact
    /\ Exact <= Half64 /\ Half64 <= Exact * Rate
    /\ D % 8 = 0 /\ 8 * Rate * Exact <= D

VARIABLES
    waiting,    \* what a form knows and waits with, or None
    request     \* the contract that was then handed to the network thread, or None

vars == <<waiting, request>>

Init == waiting = None /\ request = None

IsOf(form, r) == r # None /\ r.form = form

\* The forms share no amounts, so one is followed at a time, until it is left.
Wait(w) == waiting = None /\ request = None /\ waiting' = w /\ request' = None
Request(r) == waiting' = None /\ request' = r
LeaveForm == Request(None)

-----------------------------------------------------------------------------
Narrow(x, half) == ((x + half) % (2 * half)) - half

\* The double nearest to n / d (in D-ths), and of two of them the one with an even last
\* place; the last place is the least unit with which there are digits enough.
Unit(n, d) == Min({u \in Units : (n + d * Exact - 1) \div (d * Exact) <= u})

Nearest(n, d) ==
    LET u == Unit(n, d)
        k == n \div (u * d)
        r == n % (u * d)
    IN  u * (IF 2 * r < u * d \/ (2 * r = u * d /\ k % 2 = 0) THEN k ELSE k + 1)

Double(n, d) == IF n < 0 THEN -Nearest(-n, d) ELSE Nearest(n, d)

\* Whole TRX only.
ToTrx_RoundsUp(amount) == Double(((amount + Rate - 1) \div Rate) * D, 1)
ToTrx(amount) == Double((amount \div Rate) * D, 1)

\* x is a double; what the conversion to an integer cuts off is below a drop.
ToDrop(x) ==
    LET p == Double(x * Rate, 1)
        drops == IF p < 0 THEN -(-p \div D) ELSE p \div D
    IN  IF drops \in -Half64 .. Half64 - 1 THEN drops ELSE -Half64

-----------------------------------------------------------------------------
(* Sending TRX.                                                             *)

\* The callback of UpdteAddress sets assert_["TRX"].
OnSendAccount(balance) ==
    Wait([form |-> "send", balance |-> balance, avaliable |-> ToTrx(balance)])

\* GetSendInfo, where StringToDouble makes n / d a double, and BTN_SEND.
ClickSend(n, d) ==
    /\ IsOf("send", waiting)
    /\ LET amount == Double(n * D, d) IN
       /\ amount > 0 /\ amount <= waiting.avaliable
       /\ Request([form |-> "send", n |-> n, d |-> d, balance |-> waiting.balance, drops |-> ToDrop(amount)])

-----------------------------------------------------------------------------
(* Freezing.                                                                *)

\* CreateContract multiplies in int64_t.
ClickFreeze(amount) ==
    /\ amount > 0
    /\ Wait([form |-> "freeze", amount |-> amount, frozen |-> Narrow(amount * Rate, Half64)])

FreezePasses_InTrx(contract, balance) == contract.amount <= balance
FreezePasses(contract, balance) == contract.frozen <= balance

OnFreezeAccount(balance) ==
    /\ IsOf("freeze", waiting)
    /\ IF FreezePasses(waiting, balance)
       THEN Request([form |-> "freeze", amount |-> waiting.amount, balance |-> balance, frozen |-> waiting.frozen])
       ELSE Request(None)

-----------------------------------------------------------------------------
(* Voting.                                                                  *)

\* CreateVoteContract.
ClickVote(counts) == Wait([form |-> "vote", counts |-> counts])

\* What a loop over s has added up after each of its rounds, in an integer type.
Sums(s, half) ==
    LET sum[i \in 0 .. Len(s)] == IF i = 0 THEN 0 ELSE Narrow(sum[i - 1] + s[i], half)
    IN  sum

\* CalcTronPower.
CalcTronPower(frozen) == Sums(frozen, Half64)[Len(frozen)]

\* ValidateContract, whose sum is an int.
Sum(counts) == Sums(counts, Half32)[Len(counts)]

ValidateContract_InTrx(counts, power) ==
    /\ counts # <<>>
    /\ \A i \in DOMAIN counts : counts[i] >= 0
    /\ Sum(counts) <= power

ValidateContract(counts, power) ==
    /\ counts # <<>>
    /\ \A i \in DOMAIN counts : counts[i] >= 0
    /\ ToDrop(Double(Sum(counts) * D, 1)) <= power

OnVoteAccount(frozen) ==
    /\ IsOf("vote", waiting)
    /\ LET ok == ValidateContract(waiting.counts, CalcTronPower(frozen)) IN
       Request([form |-> IF ok THEN "vote" ELSE "rejected", frozen |-> frozen, counts |-> waiting.counts])

-----------------------------------------------------------------------------
(* Tokens.                                                                  *)

\* CheckAndIssue: so many TRX for so many tokens.  The fields trx_num and num of the
\* contract are int32.
ClickIssue(trx, num) ==
    /\ trx > 0 /\ num > 0
    /\ Wait([form |-> "token", trx |-> trx, tokens |-> num,
             trx_num |-> Narrow(ToDrop(Double(trx * D, 1)), Half32), num |-> Narrow(num, Half32)])

\* UpdateIssueList: somebody else's token, with the int32s the node has for it.
UpdateIssueList(trx_num, num) ==
    Wait([form |-> "token", trx |-> None, tokens |-> None, trx_num |-> trx_num, num |-> num])

\* Its exchange_rate, a double.
ExchangeRate_RoundsUp(token) == Double(ToTrx_RoundsUp(token.trx_num), token.num)
ExchangeRate(token) == Double(ToTrx(token.trx_num), token.num)

\* The node (external) lists only tokens with a positive price for a positive number,
\* which an own one that did not fit may not have.
\* The rest of the supply, which the amount may not exceed, is as large as it gets.
ClickParticipate(amount) ==
    /\ IsOf("token", waiting) /\ waiting.trx_num > 0 /\ waiting.num > 0
    /\ LET trx_num == Double(ExchangeRate(waiting) * Double(amount, 1), 1) IN
       Request([form |-> "participate", amount |-> amount, drops |-> ToDrop(trx_num), token |-> waiting])

-----------------------------------------------------------------------------
Next ==
    \/ LeaveForm
    \/ \E balance \in Drops : OnSendAccount(balance) \/ OnFreezeAccount(balance)
    \/ \E f \in Fractions : ClickSend(f[1], f[2])
    \/ \E amount \in Typed : ClickFreeze(amount) \/ ClickParticipate(amount)
    \/ \E counts \in BoundedSeq(Typed, MaxVotes) : ClickVote(counts)
    \/ \E frozen \in BoundedSeq(Drops \cap Typed, 2) : OnVoteAccount(frozen)
    \/ \E trx \in Typed, num \in Typed : ClickIssue(trx, num)
    \/ \E trx_num, num \in 1 .. Half32 - 1 : UpdateIssueList(trx_num, num)

Spec == Init /\ [][Next]_vars

-----------------------------------------------------------------------------
Asked(form) == IsOf(form, request)

\* What is sent is what was typed, but for a drop that may be missing, or too many if
\* what was typed is not in whole drops: the number is rounded twice and then cut off.
\* Above Exact / 4 drops (two billion TRX) the roundings may amount to more.  The
\* balance that the form was shown is never exceeded, up to Exact * RateTwos drops
\* (more than there are of all TRX); what is typed above it may be rounded up.
SendWithinBalance ==
    Asked("send") =>
        /\ request.balance <= Exact * RateTwos => request.drops <= request.balance
        /\ 4 * request.n * Rate <= Exact * request.d =>
               /\ (request.drops - 1) * request.d < request.n * Rate
               /\ request.n * Rate < (request.drops + 2) * request.d

\* What is frozen is what was typed, and the account has it, unless the product does
\* not fit 64 bits: it wraps around and then passes the check.
FreezeWithinBalance ==
    Asked("freeze") /\ request.amount * Rate < Half64 =>
        /\ request.frozen = request.amount * Rate
        /\ request.frozen <= request.balance

\* The same in numbers without bounds.
Totals(s) ==
    LET total[i \in 0 .. Len(s)] == IF i = 0 THEN 0 ELSE total[i - 1] + s[i]
    IN  total

Total(s) == Totals(s)[Len(s)]

\* Votes pass exactly if there are some, none is negative, and they are not more than
\* the frozen TRX, unless their sum, or that of what is frozen, does not fit its width.
VotesWithinPower ==
    Asked("vote") \/ Asked("rejected") =>
        LET counts == request.counts IN
        Total(counts) < Half32 /\ Total(request.frozen) < Half64 =>
            (Asked("vote") <=>
                /\ counts # <<>>
                /\ \A i \in DOMAIN counts : counts[i] >= 0
                /\ Total(counts) * Rate <= Total(request.frozen))

\* A participant pays less than a drop more than the tokens cost, and less than two
\* drops less if the price is in whole TRX; the part of it below a TRX is not asked for.
\* Above Exact / 8 drops the roundings may amount to more.  A token that was issued with
\* this wallet has the price that was typed, unless its drops, or the number of tokens
\* they are for, do not fit 32 bits.
ParticipatePrice ==
    Asked("participate") =>
        LET t == request.token
            price == t.trx_num * request.amount      \* by t.num
        IN  /\ request.amount \in 1 .. Exact /\ 8 * price <= Exact * t.num =>
                   /\ (request.drops - 1) * t.num < price
                   /\ t.trx_num % Rate = 0 => price < (request.drops + 2) * t.num
            /\ t.trx # None /\ t.trx * Rate < Half32 => t.trx_num = t.trx * Rate
            /\ t.trx # None /\ t.tokens < Half32 => t.num = t.tokens
=============================================================================
