-------------------------- MODULE MCWalletSession --------------------------
EXTENDS WalletSession, TLC
CONSTANTS alice, bob, header, page

TwoTabs == header :> "first" @@ page :> "second"
HeaderTwice == [a \in 1..2 |-> {header}]
=============================================================================
