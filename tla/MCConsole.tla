------------------------------ MODULE MCConsole ------------------------------
EXTENDS Console, TLC

MCJobs == 1..2

\* Two clicks in the dialog, two on the page, or one of each, or some in the report.
MCBudgets == {[dialog |-> d, account |-> a, report |-> r] :
                 <<d, a, r>> \in {<<2, 0, 0>>, <<0, 2, 0>>, <<1, 1, 0>>, <<0, 0, 2>>}}

MCPages == [url \in {"/api/my-scans", "/api/admin/scans"} |-> IF url = "/api/my-scans" THEN 2 ELSE 1]

\* A result without infrastructure, and one that says something of a host or a domain.
Plain(type, source, confidence) ==
    [type |-> type, source |-> source, confidence |-> confidence,
     ip |-> None, exposes |-> {}, domain |-> None, posture |-> <<>>]
Host(ports) == [ip |-> "host", exposes |-> ports]
Posture(fields) == [domain |-> "domain", posture |-> fields]

\* A report with a little of everything, and one with a single result.
MCFound == <<
    [results |-> <<Host({80}) @@ Plain(1, 2, 90), Posture([grade |-> 1, https |-> TRUE]) @@ Plain(2, 1, 50),
                   Host({443}) @@ Posture([https |-> FALSE]) @@ Plain(1, 1, 70)>>,
     identified |-> TRUE, links |-> <<[from |-> <<"account", 1>>, to |-> <<"account", 2>>]>>, places |-> {1},
     events |-> <<[category |-> "breach", year |-> 1960], [category |-> "breach", year |-> 1990],
                  [category |-> "account", year |-> 2024], [category |-> "breach", year |-> 2060],
                  [category |-> "account", year |-> 2060], [category |-> "account", year |-> 0]>>,
     delta |-> [added |-> 0, removed |-> 1, grades |-> <<>>], unavailable |-> TRUE, skipped |-> TRUE],
    [results |-> <<Plain(2, 1, 50)>>,
     identified |-> FALSE, links |-> <<>>, places |-> {}, events |-> <<>>, delta |-> None,
     unavailable |-> FALSE, skipped |-> FALSE]>>

===============================================================================
