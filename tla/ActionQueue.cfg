\* Two calls of two tenants on one action: the inductive invariant, what rows and
\* messages say, the refinement of the approval gate, and an answer to each call.
CONSTANTS
    Categories = {"whatsapp_vendor_order", "restock_alert"}
    ActionIds = {a1}
    r1 = r1
    r2 = r2
    r3 = r3
    u1 = u1
    u2 = u2
    o1 = o1
    o2 = o2
    Requests = {r1, r2}
    Users = {u1, u2}
    Orgs = {o1, o2}
    OrgOf <- MCOrgOf
    Texts = {t1, t2}
    NoText = NoText
    NoOverride = NoOverride
    Nobody = Nobody
    NoRow = NoRow
SPECIFICATION FairSpec
INVARIANTS IInv GatedDelivery ExecutedWasSent NothingSilentlyLost SerialOutcome
PROPERTIES ImplementsGate Answered
CHECK_DEADLOCK FALSE
