----------------------------- MODULE MCPayGate -----------------------------
(* Three actions of one agent and two adapters.  The wallet is allowed and *)
(* does not serve game's merchant; the rogue serves everything and is not  *)
(* allowed.  The gift has a line separator in its totals.                  *)
EXTENDS PayGate, TLC

CONSTANTS book, game, gift, agent, wallet, rogue, active, old

AgentOf == book :> agent @@ game :> agent @@ gift :> agent
Merchants == wallet :> {book, gift} @@ rogue :> {book, game, gift}
============================================================================
