------------------------------ MODULE MCOffice ------------------------------
(***************************************************************************)
(* A small tenant for module Office.                                       *)
(***************************************************************************)
EXTENDS Office, TLC

CONSTANT w1

MCMaxRows ==
    [filed |-> 1,
     attendance |-> 1, timesheet |-> 2, leave |-> 2, entitlement |-> 1, record |-> 1, rule |-> 1,
     payroll |-> 2, payline |-> 2,
     role |-> 2, user |-> 2, invite |-> 2, session |-> 3, resettoken |-> 1, office |-> 1,
     platformadmin |-> 1,
     definition |-> 2, approval |-> 2,
     lead |-> 1, opportunity |-> 2, winloss |-> 1, tender |-> 1, step |-> 2, blocker |-> 2, submission |-> 1,
     estimate |-> 2, boq |-> 2, extraction |-> 2, cbs |-> 1, cbsline |-> 2, revision |-> 2,
     contract |-> 2, amendment |-> 2, advance |-> 1, retention |-> 1, certificate |-> 2, certline |-> 2,
     variation |-> 1, tracking |-> 2, revenue |-> 1,
     portaluser |-> 2, portalsession |-> 2, portaltoken |-> 1, assignment |-> 2, clientaction |-> 2,
     clientrequest |-> 1, dsar |-> 1,
     agreement |-> 2, sheet |-> 2, subcert |-> 2, backcharge |-> 1, subretention |-> 1, subclaim |-> 1,
     compliance |-> 1,
     diary |-> 2, workdone |-> 2, issue |-> 2, machine |-> 1, maintenance |-> 1, downtime |-> 1, move |-> 2,
     sync |-> 4, conflict |-> 4, queue |-> 2, late |-> 1, report |-> 2, fieldasset |-> 1,
     holdpoint |-> 1, material |-> 1, lab |-> 1, ncr |-> 1, action |-> 3, punch |-> 1, risk |-> 1,
     permit |-> 2, incident |-> 2, talk |-> 1,
     surface |-> 2, volume |-> 2, asbuilt |-> 1, stockpile |-> 1, explosive |-> 2, correction |-> 1,
     drilling |-> 1, blast |-> 2, asset |-> 1, schedule |-> 1, dlp |-> 1, defect |-> 2,
     document |-> 2, attachment |-> 2, notice |-> 2, project |-> 1,
     activity |-> 3, dependency |-> 2, baseline |-> 2, delay |-> 1, evm |-> 1]

MCDeductions == {[percentage |-> TRUE, n |-> 50, casuals |-> FALSE]}

MCSheetPeriods == {<<1, 2>>, <<2, 2>>}

MCSeatLimits == [starter |-> 1, growth |-> 2]

MCFieldRecords ==
    [r1 |-> [type |-> "diary", key |-> 1, storable |-> TRUE],
     r2 |-> [type |-> "diary", key |-> 1, storable |-> FALSE],
     r3 |-> [type |-> "inspection", key |-> 0, storable |-> TRUE],
     r4 |-> [type |-> "near_miss", key |-> 0, storable |-> TRUE]]

MCLags == [FS |-> {-2, 0}, SS |-> {0}, FF |-> {0}, SF |-> {-2}]

MCProjectOf == <<"road", "bridge">>
=============================================================================
