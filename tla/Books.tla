-------------------------------- MODULE Books -------------------------------
(***************************************************************************)
(* The double-entry books of a society: accountingService.ts (journal      *)
(* entries, their reversal, expenses, incomes, the repair of the balances, *)
(* the reports) and the accounting, expense and income routes of           *)
(* financeRouter.ts.  Handlers are split at their awaits.                  *)
(*                                                                         *)
(* postJournalEntry writes the entry and moves the balances inside         *)
(* withTransaction but hands no session to the calls, so on MongoDB they   *)
(* are separate writes.  Every posting of the code has one debit and one   *)
(* credit line; a manual entry is given the same shape here.               *)
(***************************************************************************)
EXTENDS Integers, Sequences, FiniteSets, Functions

CONSTANTS
    Expenses,      \* ids of expense rows
    Handlers,      \* requests the API can be serving at the same time
    Amounts,       \* amounts of an entry
    Manuals,       \* bound: the sides <<debit, credit>> manual entries are tried with
    MaxRequests,   \* bound: requests served in a behaviour
    MaxAborts      \* bound: requests that die in a behaviour

VARIABLES
    journal,     \* the journal_entries collection, in the order of posting
    balance,     \* ledgers.currentBalance
    expense,     \* the expenses collection
    h,           \* what each request in flight holds
    started,     \* requests started so far
    died,        \* requests that died so far
    lost,        \* history: by ledger, what requests that died never moved
    rebuilt,     \* history: some repair has begun to write
    alone        \* history: the repair beside which nothing else was in flight

vars == <<journal, balance, expense, h, started, died, lost, rebuilt, alone>>

-----------------------------------------------------------------------------
(* The system ledgers, seeded with the society, and their groups.          *)
Assets == {"cash", "receivable"}
Ledgers == Assets \cup {"creditors", "income", "expense"}
GrowsOnDebit == Assets \cup {"expense"}
Zero == [l \in Ledgers |-> 0]

ASSUME BooksAssumption ==
    /\ Amounts \subseteq Nat \ {0}
    /\ Manuals \subseteq Ledgers \X Ledgers
    /\ MaxRequests \in Nat /\ MaxAborts \in Nat
    /\ "none" \notin Expenses
    /\ IsFiniteSet(Handlers)

Entry == [dr : Ledgers, cr : Ledgers, amount : Amounts, reversedBy : Nat, reverses : Nat]
Expense == [status : {"NONE", "APPROVED", "PAID"}, amount : Amounts \cup {0}, entry : Nat]
NoExpense == [status |-> "NONE", amount |-> 0, entry |-> 0]

Steps == {"idle", "post", "debit", "credit", "row", "settle", "link", "linkBack",
          "edit", "entries", "write"}
Local == [pc : Steps, after : Steps, dr : Ledgers, cr : Ledgers, amount : Amounts \cup {0},
          e : Nat, of : Nat, x : Expenses \cup {"none"}, paid : BOOLEAN,
          was : [Ledgers -> Int], target : [Ledgers -> Int], todo : SUBSET Ledgers]
Idle == [pc |-> "idle", after |-> "idle", dr |-> "cash", cr |-> "income", amount |-> 0,
         e |-> 0, of |-> 0, x |-> "none", paid |-> FALSE,
         was |-> Zero, target |-> Zero, todo |-> {}]

TypeOK ==
    /\ journal \in Seq(Entry)
    /\ balance \in [Ledgers -> Int]
    /\ expense \in [Expenses -> Expense]
    /\ h \in [Handlers -> Local]
    /\ started \in 0..MaxRequests
    /\ died \in 0..MaxAborts
    /\ lost \in [Ledgers -> Int]
    /\ rebuilt \in BOOLEAN
    /\ alone \subseteq Handlers

Init ==
    /\ journal = <<>>
    /\ balance = Zero
    /\ expense = [x \in Expenses |-> NoExpense]
    /\ h = [i \in Handlers |-> Idle]
    /\ started = 0
    /\ died = 0
    /\ lost = Zero
    /\ rebuilt = FALSE
    /\ alone = {}

-----------------------------------------------------------------------------
history == <<died, lost, rebuilt, alone>>

Begin(i, local) ==
    /\ h[i].pc = "idle"
    /\ started < MaxRequests
    /\ started' = started + 1
    /\ h' = [h EXCEPT ![i] = local]
    /\ alone' = IF \E j \in Handlers \ {i} : h[j].pc # "idle" THEN {} ELSE {i}
    /\ UNCHANGED <<journal, balance, expense, died, lost, rebuilt>>

At(i, step) == h[i].pc = step /\ UNCHANGED started
Goto(i, step) == h' = [h EXCEPT ![i].pc = step]
Finish(i) == h' = [h EXCEPT ![i] = Idle]

(* What a line moves a ledger by: an asset or an expense grows on a debit. *)
Sign(l) == IF l \in GrowsOnDebit THEN 1 ELSE -1
Effect(l, entry) == (IF entry.dr = l THEN Sign(l) * entry.amount ELSE 0)
                  - (IF entry.cr = l THEN Sign(l) * entry.amount ELSE 0)

(* The lines a request has posted and not yet moved the balances by.       *)
Pending(i, l) ==
    CASE h[i].pc = "debit" -> Effect(l, h[i])
      [] h[i].pc = "credit" -> IF h[i].cr = l THEN -Sign(l) * h[i].amount ELSE 0
      [] OTHER -> 0

(* A request dropped at an await: what it has not moved is never moved.    *)
Abort(i) ==
    /\ h[i].pc # "idle"
    /\ died < MaxAborts
    /\ died' = died + 1
    /\ lost' = [l \in Ledgers |-> lost[l] + Pending(i, l)]
    /\ Finish(i)
    /\ UNCHANGED <<journal, balance, expense, started, rebuilt, alone>>

-----------------------------------------------------------------------------
(* postJournalEntry: the entry, then one $inc per line.                    *)

Posting(dr, cr, amount, after) ==
    [Idle EXCEPT !.pc = "post", !.after = after, !.dr = dr, !.cr = cr, !.amount = amount]

Post(i) ==
    /\ At(i, "post")
    /\ journal' = Append(journal, [dr |-> h[i].dr, cr |-> h[i].cr, amount |-> h[i].amount,
                                   reversedBy |-> 0, reverses |-> 0])
    /\ h' = [h EXCEPT ![i].pc = "debit", ![i].e = Len(journal) + 1]
    /\ UNCHANGED <<balance, expense, history>>

MoveDebit(i) ==
    /\ At(i, "debit")
    /\ balance' = [balance EXCEPT ![h[i].dr] = @ + Sign(h[i].dr) * h[i].amount]
    /\ Goto(i, "credit")
    /\ UNCHANGED <<journal, expense, history>>

(* Mutant of Credited: the amount of the line is added with a debit's sign. *)
CreditedAsDebit(l, amount) == balance[l] + Sign(l) * amount

Credited(l, amount) == balance[l] - Sign(l) * amount

MoveCredit(i) ==
    /\ At(i, "credit")
    /\ balance' = [balance EXCEPT ![h[i].cr] = Credited(h[i].cr, h[i].amount)]
    /\ IF h[i].after = "idle" THEN Finish(i) ELSE Goto(i, h[i].after)
    /\ UNCHANGED <<journal, expense, history>>

-----------------------------------------------------------------------------
(* The callers that only post.                                             *)

(* postReceipt and postAmenityReceipt: the dues are cleared when a bill    *)
(* was raised, the money is income otherwise.                              *)
Receipt(dr, cr) == dr = "cash" /\ cr \in {"receivable", "income"}
BillAccrual(dr, cr) == dr = "receivable" /\ cr = "income"
(* recordIncome, whose row follows the entry and is read by nobody here.   *)
Income(dr, cr) == dr = "cash" /\ cr = "income"
Manual(dr, cr) == <<dr, cr>> \in Manuals

PostAs(i, dr, cr, amount) ==
    /\ Receipt(dr, cr) \/ BillAccrual(dr, cr) \/ Income(dr, cr) \/ Manual(dr, cr)
    /\ Begin(i, Posting(dr, cr, amount, "idle"))

(* reverseJournalEntry: read, post with the sides swapped, link both ways. *)
ReverseRead(i, e) ==
    /\ journal[e].reversedBy = 0
    /\ Begin(i, [Posting(journal[e].cr, journal[e].dr, journal[e].amount, "link")
                   EXCEPT !.of = e])

Link(i) ==
    /\ At(i, "link")
    /\ journal' = [journal EXCEPT ![h[i].of].reversedBy = h[i].e]
    /\ Goto(i, "linkBack")
    /\ UNCHANGED <<balance, expense, history>>

LinkBack(i) ==
    /\ At(i, "linkBack")
    /\ journal' = [journal EXCEPT ![h[i].e].reverses = h[i].of]
    /\ Finish(i)
    /\ UNCHANGED <<balance, expense, history>>

-----------------------------------------------------------------------------
(* Expenses: recordExpense posts and then creates the row; an unpaid one   *)
(* is owed to the creditors.                                               *)
RecordExpense(i, x, amount, paid) ==
    /\ expense[x].status = "NONE"
    /\ \A j \in Handlers : h[j].x # x
    /\ Begin(i, [Posting("expense", IF paid THEN "cash" ELSE "creditors", amount, "row")
                   EXCEPT !.x = x, !.paid = paid])

CreateRow(i) ==
    /\ At(i, "row")
    /\ expense' = [expense EXCEPT ![h[i].x] =
                     [status |-> IF h[i].paid THEN "PAID" ELSE "APPROVED",
                      amount |-> h[i].amount, entry |-> h[i].e]]
    /\ Finish(i)
    /\ UNCHANGED <<journal, balance, history>>

(* markExpensePaid: the entry is posted before the update that is          *)
(* conditional on nobody else having settled the row.                      *)
PayRead(i, x) ==
    /\ expense[x].status = "APPROVED"
    /\ Begin(i, [Posting("creditors", "cash", expense[x].amount, "settle") EXCEPT !.x = x])

(* Mutant of Settleable: the row is updated by its id alone.               *)
SettleableAlways(x) == expense[x].status # "NONE"

Settleable(x) == expense[x].status = "APPROVED"

Settle(i) ==
    /\ At(i, "settle")
    /\ LET x == h[i].x IN
         expense' = IF Settleable(x)
                      THEN [expense EXCEPT ![x].status = "PAID", ![x].entry = h[i].e]
                      ELSE expense
    /\ Finish(i)
    /\ UNCHANGED <<journal, balance, history>>

(* PATCH of an expense: read as unpaid, then written by its id; no entry.  *)
EditRead(i, x, amount) ==
    /\ expense[x].status = "APPROVED"
    /\ Begin(i, [Idle EXCEPT !.pc = "edit", !.x = x, !.amount = amount])

EditWrite(i) ==
    /\ At(i, "edit")
    /\ expense' = [expense EXCEPT ![h[i].x].amount = h[i].amount]
    /\ Finish(i)
    /\ UNCHANGED <<journal, balance, history>>

-----------------------------------------------------------------------------
(* The reports and the repair read the entries nobody has reversed.        *)
Unreversed == {e \in DOMAIN journal : journal[e].reversedBy = 0}
Total(l, entries) == SumFunctionOnSet([e \in entries |-> Effect(l, journal[e])], entries)

(* trialBalance: the closing balance of each ledger.                       *)
Closing == [l \in Ledgers |-> Total(l, Unreversed)]
(* incomeStatement.                                                        *)
Surplus(b) == b["income"] - b["expense"]
(* balanceSheet: what is owned is what is owed and what was earned.        *)
Foots(b) == b["cash"] + b["receivable"] = b["creditors"] + Surplus(b)

(* rebuildLedgerBalances: the ledgers, the entries, one write a ledger.    *)
RebuildLedgers(i) == Begin(i, [Idle EXCEPT !.pc = "entries", !.was = balance])

(* Mutant of Differs: a difference is looked for on one side only.         *)
DiffersBelow(expected, current) == expected > current

Differs(expected, current) == expected # current

RebuildEntries(i) ==
    /\ At(i, "entries")
    /\ h' = [h EXCEPT ![i].pc = "write", ![i].target = Closing,
                      ![i].todo = {l \in Ledgers : Differs(Closing[l], h[i].was[l])}]
    /\ UNCHANGED <<journal, balance, expense, history>>

RebuildWrite(i, l) ==
    /\ At(i, "write")
    /\ l \in h[i].todo
    /\ balance' = [balance EXCEPT ![l] = h[i].target[l]]
    /\ h' = [h EXCEPT ![i].todo = @ \ {l}]
    /\ rebuilt' = TRUE
    /\ UNCHANGED <<journal, expense, died, lost, alone>>

RebuildEnd(i) ==
    /\ At(i, "write")
    /\ h[i].todo = {}
    /\ Finish(i)
    /\ UNCHANGED <<journal, balance, expense, history>>

-----------------------------------------------------------------------------
Request(i) ==
    \/ \E dr, cr \in Ledgers, amount \in Amounts : PostAs(i, dr, cr, amount)
    \/ \E e \in DOMAIN journal : ReverseRead(i, e)
    \/ \E x \in Expenses, amount \in Amounts, paid \in BOOLEAN :
          RecordExpense(i, x, amount, paid)
    \/ \E x \in Expenses : PayRead(i, x)
    \/ \E x \in Expenses, amount \in Amounts : EditRead(i, x, amount)
    \/ RebuildLedgers(i)

Advance(i) ==
    \/ Post(i) \/ MoveDebit(i) \/ MoveCredit(i)
    \/ Link(i) \/ LinkBack(i)
    \/ CreateRow(i) \/ Settle(i) \/ EditWrite(i)
    \/ RebuildEntries(i) \/ (\E l \in Ledgers : RebuildWrite(i, l)) \/ RebuildEnd(i)

Next == \E i \in Handlers : Request(i) \/ Advance(i) \/ Abort(i)

Spec == Init /\ [][Next]_vars

-----------------------------------------------------------------------------
(* PROPERTIES                                                              *)

(* Until a repair writes, a balance is what the journal says of it, less   *)
(* the lines still to be moved by requests in flight and those that died:  *)
(* concurrent postings and reversals lose nothing of one another, since    *)
(* every line is an increment (accountingService.ts 147-156).              *)
LedgerExplained ==
    ~rebuilt => \A l \in Ledgers :
        balance[l] = Total(l, DOMAIN journal) - lost[l]
                       - SumFunctionOnSet([i \in Handlers |-> Pending(i, l)], Handlers)

(* A repair with nothing else in flight ends with every balance agreeing   *)
(* with the trial balance, and with books that foot, whatever was lost     *)
(* before it (accountingService.ts 531-559, 574-678).                      *)
RebuildRepairs ==
    [][\A i \in alone : RebuildEnd(i) => balance = Closing /\ Foots(balance)]_vars

(* What was settled stays settled by the entry that settled it, however    *)
(* many requests pay or edit the row (accountingService.ts 426-441,        *)
(* financeRouter.ts 1188-1200).                                            *)
PaidStays ==
    [][\A x \in Expenses : expense[x].status = "PAID" =>
          /\ expense'[x].status = "PAID"
          /\ expense'[x].entry = expense[x].entry]_vars
=============================================================================
