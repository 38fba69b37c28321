------------------------ MODULE MCLoanAdministration ------------------------
(***************************************************************************)
(* LoanManager with one loan and what happens around it.  A behaviour      *)
(* belongs to one of three slices, chosen initially, because the product   *)
(* of all of them is out of reach: the admin changes the limits of running *)
(* loans; the admin changes the settings that constrain one another, with  *)
(* an oracle; or the contracts are paused, the minter right is revoked,    *)
(* the admin hands over and others seize the borrower.                     *)
(***************************************************************************)
EXTENDS MCLoanManager

VARIABLE slice

SliceNext ==
    \/ LifecycleNext
    \/ slice = "limits"  /\ SettingNext(LimitSettings)
    \/ slice = "coupled" /\ (SetRateOracle \/ SettingNext(CoupledSettings))
    \/ slice = "outside" /\ (AdminNext \/ OutsideNext)

(* The coupled settings are explored within the first ledger.              *)
InSlice == UNCHANGED slice /\ (slice = "coupled" => UNCHANGED ledger)

SliceInit == Init /\ slice \in {"limits", "coupled", "outside"}

SliceSpec == SliceInit /\ [][SliceNext /\ InSlice]_<<vars, slice>>
==============================================================================
