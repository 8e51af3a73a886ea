-------------------------- MODULE MC_BaalGovernance --------------------------
EXTENDS BaalGovernance, TLC

CONSTANTS alice, bob

MCMembers == {alice, bob}

\* One second of voting, one of grace.
Config(minRetention) ==
  [voting |-> 1, grace |-> 1, quorum |-> 0, threshold |-> 1, minRetention |-> minRetention]

\* A voted configuration that lengthens the vote, keeps the grace period and
\* tightens every rule.  It is refused when fewer than two shares are left.
Tight == [voting |-> 2, grace |-> 0, quorum |-> 60, threshold |-> 2, minRetention |-> 100]

\* The queue: two proposals, whole balances move, everybody may leave.
QueueGenesis == (alice :> 2) @@ (bob :> 0)
QueueConfig == Config(0)
QueueActions == {[kind |-> "config", config |-> Tight]}

\* Retention: one proposal, single shares come and go, a third may leave.
RetentionGenesis == (alice :> 2) @@ (bob :> 1)
RetentionConfig == Config(66)
RetentionActions == {[kind |-> "other"]}

\* Progress, order and cancellation: every action fails.
ProgressActions == {[kind |-> "revert"]}
=============================================================================
