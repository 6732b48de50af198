----------------------------- MODULE FecConfig -----------------------------
(***************************************************************************)
(* The attributes both kinds of FEC agent have (FecRouterAgent, FecAgent). *)
(***************************************************************************)
EXTENDS Integers

CONSTANTS Fwin,            \* data packets per group of a round (m_fwin)
          NGroups          \* groups per round (m_nGroups)

\* With m_fwin = 0 FEC is off and no table is ever touched; m_nGroups is a
\* uint8_t, and with 0 groups the encoder's while (fc_ == 0) never ends.
ASSUME FwinAssumption == Fwin \in Nat \ {0}
ASSUME NGroupsAssumption == NGroups \in 1..255
=============================================================================
