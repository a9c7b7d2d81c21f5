SPECIFICATION Spec
CONSTANT Unit = 1
INVARIANTS AdaptersAgree BudgetsAreOptimal ClaimsAreEarned EstimatesAgree InventoryIsSound RecordsAreSound
