------------------------------ MODULE MCCsvLog ------------------------------
\* Small instances of CsvLog for TLC.
EXTENDS CsvLogStore, TLC

CONSTANTS p1, p2, orders, visits

OneProducer == {p1}
TwoProducers == {p1, p2}
OneName == {orders}
TwoNames == {orders, visits}
NoName == {}

AllAuto == [n \in {orders} |-> "auto"]
AllAlways == [n \in {orders, visits} |-> "always"]

\* The two logs of csvlog_tx differ in nothing.
NameSymmetry == Permutations({orders, visits})
=============================================================================
