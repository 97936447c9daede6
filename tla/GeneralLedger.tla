---------------------------- MODULE GeneralLedger ----------------------------
(***************************************************************************)
(* Finance (modules/fin): double-entry postings, payable and receivable    *)
(* invoices, budget control, bank matching and the computed statements of  *)
(* one company.                                                            *)
(*                                                                         *)
(* A posted entry is never edited or deleted.  Amounts are small whole     *)
(* numbers; periods are days.                                              *)
(***************************************************************************)
EXTENDS Requests

CONSTANTS
    ChartOfAccounts,  \* account -> account_type
    CostCodes,        \* CBS line items spending is charged to
    Budgets,          \* what callers state as cbs_budget_amount
    Amounts,
    Days              \* the dates entries and statement lines carry

\* The caller states no budget.
NoBudget == -1

ASSUME LedgerAssumption ==
    /\ Amounts \subseteq Nat \ {0}
    /\ Budgets \subseteq Nat
    /\ None \notin CostCodes

Company == [is_default |-> FALSE]

\* cost_category None is the tenant-wide default.
BudgetControlPolicy(category, mode) == [category |-> category, mode |-> mode]

JournalEntry(source, day, lines) == [source |-> source, day |-> day, lines |-> lines]

Debit(account, n, code) == [account |-> account, debit |-> n, credit |-> 0, code |-> code]

Credit(account, n) == [account |-> account, debit |-> 0, credit |-> n, code |-> None]

AccountsPayableInvoice(entry, n) == [status |-> "unpaid", entry |-> entry, amount |-> n]

AccountsReceivableInvoice(entry, n) == [status |-> "unpaid", entry |-> entry, amount |-> n]

BankStatementLine(day, n) == [status |-> "unmatched", day |-> day, amount |-> n, entry |-> 0]

LedgerTables ==
    [company |-> <<Company>>, policy |-> <<>>, entry |-> <<>>, ap |-> <<>>, ar |-> <<>>,
     bank |-> <<>>, forecast |-> <<>>, statement |-> <<>>]

-----------------------------------------------------------------------------
(* Postings *)

Debits(lines) == SumOf(lines, "debit", DOMAIN lines)

Credits(lines) == SumOf(lines, "credit", DOMAIN lines)

\* Mutant: only the total is looked at, not the balance.
MayPost_unbalanced(lines) == Debits(lines) # 0

MayPost(lines) ==
    /\ lines # <<>>
    /\ \A i \in DOMAIN lines : lines[i].account \in DOMAIN ChartOfAccounts
    /\ Debits(lines) = Credits(lines)
    /\ Debits(lines) # 0

\* _post_journal_entry inside the caller's transaction.
Post(s, source, day, lines) == Insert(s, "entry", JournalEntry(source, day, lines))

\* All postings, as <<entry, line>>.
Ledger(s) ==
    [l \in UNION {{e} \X DOMAIN s.entry[e].lines : e \in DOMAIN s.entry} |->
        s.entry[l[1]].lines[l[2]]]

LinesOfType(s, type) ==
    LET all == Ledger(s) IN {l \in DOMAIN all : ChartOfAccounts[all[l].account] = type}

Spent(s, code) ==
    SumOf(Ledger(s), "debit", {l \in LinesOfType(s, "expense") : Ledger(s)[l].code = code})

\* The policies of the category, else the tenant's defaults; .first() takes any.
Policies(s, category) ==
    LET named == {k \in DOMAIN s.policy : s.policy[k].category = category}
    IN IF category # None /\ named # {} THEN named
       ELSE {k \in DOMAIN s.policy : s.policy[k].category = None}

MayOnlyWarn(s, category) ==
    Policies(s, category) # {} =>
        \E k \in Policies(s, category) : s.policy[k].mode = "warning"

\* Mutant: what is already spent is forgotten.
BudgetAllows_postingAlone(s, code, category, n, budget) ==
    n > budget => MayOnlyWarn(s, category)

\* check_budget_control, against the figure the caller states.
BudgetAllows(s, code, category, n, budget) ==
    n > budget - Spent(s, code) => MayOnlyWarn(s, category)

-----------------------------------------------------------------------------
(* The handlers *)

CreateCompany(p) == Create(p, "company", Company)

CreateBudgetPolicy(p, category, mode) ==
    Create(p, "policy", BudgetControlPolicy(category, mode))

\* The journal entry is committed before its invoice is added.  A cost code
\* without a stated budget is not checked, whatever the policy.
PostApInvoice(p, day, n, code, category, budget) ==
    LET lines == <<Debit("expense", n, code), Credit("payable", n)>>
        new == Post(Seen(p), "ap", day, lines)
    IN /\ Serving(p)
       /\ Room("entry") /\ Room("ap")
       /\ code # None /\ budget # NoBudget => BudgetAllows(Seen(p), code, category, n, budget)
       /\ MayPost(lines)
       /\ CommitThen(p, new, "payable",
                     [entry |-> Len(db'.entry), amount |-> n, code |-> code, budget |-> budget])

RecordApInvoice(p) ==
    /\ Resuming(p, "payable")
    /\ Commit(p, Insert(Seen(p), "ap",
                        AccountsPayableInvoice(req[p].todo.entry, req[p].todo.amount)))

\* post_accounts_receivable_invoice in the caller's transaction: the receivable
\* is the net amount and its VAT.
ReceivableLines(net, vat) ==
    <<Debit("receivable", net + vat, None), Credit("revenue", net)>>
        \o IF vat > 0 THEN <<Credit("vat", vat)>> ELSE <<>>

PostReceivable(s, day, net, vat) ==
    Insert(Post(s, "ar", day, ReceivableLines(net, vat)),
           "ar", AccountsReceivableInvoice(Len(s.entry) + 1, net + vat))

PostArInvoice(p, day, n) ==
    /\ Serving(p)
    /\ Room("entry") /\ Room("ar")
    /\ MayPost(ReceivableLines(n, 0))
    /\ Commit(p, PostReceivable(Seen(p), day, n, 0))

\* Any balanced lines, charged to a cost code without a look at its budget.
PostManualException(p, day, lines) ==
    /\ Serving(p)
    /\ Room("entry")
    /\ MayPost(lines)
    /\ Commit(p, Post(Seen(p), "manual", day, lines))

ImportBankLine(p, day, n) == Create(p, "bank", BankStatementLine(day, n))

Abs(n) == IF n < 0 THEN -n ELSE n

\* Entries of the day and the amount that no statement line is matched with.
\* Mutant: matched entries are candidates too.
Candidates_matchedToo(s, k) ==
    {e \in DOMAIN s.entry :
        /\ s.entry[e].day = s.bank[k].day
        /\ Debits(s.entry[e].lines) = Abs(s.bank[k].amount)}

Candidates(s, k) ==
    {e \in DOMAIN s.entry :
        /\ s.entry[e].day = s.bank[k].day
        /\ \A j \in DOMAIN s.bank : s.bank[j].entry # e
        /\ Debits(s.entry[e].lines) = Abs(s.bank[k].amount)}

AutoMatch(p, k) ==
    LET s == Seen(p)
    IN /\ Serving(p)
       /\ k \in DOMAIN s.bank
       /\ s.bank[k].status = "unmatched"
       /\ \/ \E e \in Candidates(s, k) :
               Commit(p, [s EXCEPT !.bank[k].status = "matched", !.bank[k].entry = e])
          \/ /\ Candidates(s, k) = {}
             /\ Commit(p, [s EXCEPT !.bank[k].status = "exception"])

InPeriod(s, l, from, to) == s.entry[l[1]].day \in from..to

Inflow(s, from, to) ==
    SumOf(Ledger(s), "credit", {l \in LinesOfType(s, "revenue") : InPeriod(s, l, from, to)})

Outflow(s, from, to) ==
    SumOf(Ledger(s), "debit", {l \in LinesOfType(s, "expense") : InPeriod(s, l, from, to)})

\* Net income counts both sides of an account, the cash flow one side only.
NetIncome(s, from, to) ==
    LET lines == {l \in LinesOfType(s, "revenue") \cup LinesOfType(s, "expense") :
                    InPeriod(s, l, from, to)}
    IN SumOf(Ledger(s), "credit", lines) - SumOf(Ledger(s), "debit", lines)

GenerateCashFlowForecast(p, from, to) ==
    Create(p, "forecast", [inflow |-> Inflow(Seen(p), from, to), outflow |-> Outflow(Seen(p), from, to)])

GenerateIncomeStatement(p, from, to) ==
    Create(p, "statement", [net |-> NetIncome(Seen(p), from, to)])

\* Lines of a manual exception, balanced or not: a correction of spending, or a payment.
ManualLines ==
    {<<Debit("expense", n, c), Credit("cash", m)>> : n, m \in Amounts, c \in CostCodes \cup {None}}
        \cup {<<Debit("payable", n, None), Credit("cash", n)>> : n \in Amounts}

InvoiceRoutes(p) ==
    \/ \E d \in Days, n \in Amounts :
         \/ \E c \in CostCodes \cup {None}, g \in {None, "materials"}, b \in Budgets \cup {NoBudget} :
              PostApInvoice(p, d, n, c, g, b)
         \/ PostArInvoice(p, d, n)
    \/ RecordApInvoice(p)

LedgerRoutes(p) ==
    \/ CreateCompany(p)
    \/ \E g \in {None, "materials"}, m \in {"hard_block", "warning"} : CreateBudgetPolicy(p, g, m)
    \/ \E d \in Days, ls \in ManualLines : PostManualException(p, d, ls)

BankRoutes(p) ==
    \/ \E d \in Days, n \in Amounts \cup {-m : m \in Amounts} : ImportBankLine(p, d, n)
    \/ \E k \in 1..MaxRows.bank : AutoMatch(p, k)

StatementRoutes(p) ==
    \E from, to \in Days : GenerateCashFlowForecast(p, from, to) \/ GenerateIncomeStatement(p, from, to)

PostingNext(p) == InvoiceRoutes(p) \/ LedgerRoutes(p) \/ StatementRoutes(p)

BankingNext(p) == BankRoutes(p) \/ \E d \in Days, n \in Amounts : PostArInvoice(p, d, n)

-----------------------------------------------------------------------------
(* Properties *)

LedgerTypeOK ==
    /\ \A k \in DOMAIN db.entry : \A i \in DOMAIN db.entry[k].lines :
         db.entry[k].lines[i].account \in DOMAIN ChartOfAccounts
    /\ \A k \in DOMAIN db.ap : db.ap[k].entry \in DOMAIN db.entry
    /\ \A k \in DOMAIN db.ar : db.ar[k].entry \in DOMAIN db.entry /\ db.ar[k].status \in {"unpaid", "paid"}
    /\ \A k \in DOMAIN db.bank : db.bank[k].entry \in DOMAIN db.entry \cup {0}

Balance(account) ==
    LET all == Ledger(db)
        lines == {l \in DOMAIN all : all[l].account = account}
    IN SumOf(all, "debit", lines) - SumOf(all, "credit", lines)

\* "The fundamental invariant of double-entry accounting": over all postings of
\* all modules, delivery costs, VAT and receipts included, the accounts sum to zero.
LedgerBalances == SumFunction([a \in DOMAIN ChartOfAccounts |-> Balance(a)]) = 0

\* A payable on the ledger has its invoice once its request is over, unless the
\* request died between its two commits: never more invoices than postings.
PayablesAreInvoicedOnce ==
    \A e \in DOMAIN db.entry : Cardinality({k \in DOMAIN db.ap : db.ap[k].entry = e}) <=
        IF db.entry[e].source = "ap" THEN 1 ELSE 0

\* A journal entry settles at most one bank statement line.  Holds while requests
\* do not overlap: nothing in the schema enforces it.
EntryMatchedOnce ==
    \A j, k \in DOMAIN db.bank :
        j # k /\ db.bank[j].entry # 0 => db.bank[j].entry # db.bank[k].entry

\* Under a hard block no payable whose caller states the budget of its cost code
\* takes the code beyond it, whatever payables without a stated budget and manual
\* corrections have charged before.  Holds while requests do not overlap.
HardBlockHolds ==
    [][\A p \in Workers, c \in CostCodes :
        /\ Len(db'.entry) > Len(db.entry)
        /\ Resuming(p, "payable")'
        /\ req'[p].todo.code = c /\ req'[p].todo.budget # NoBudget
        /\ \A g \in {None, "materials"} : ~ MayOnlyWarn(db, g)
        => Spent(db', c) <= req'[p].todo.budget]_vars
=============================================================================
