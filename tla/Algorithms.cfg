SPECIFICATION Spec
CONSTANTS None = None
          FieldsAsked <- FieldsAskedMC
          Routes <- RoutesMC
          Tokens <- TokensMC
          Chains <- ChainsMC
          Writers <- WritersMC
          Origins <- OriginsMC
INVARIANTS GraphQLReadsBack QueriesAreAnswered PlansAreOrdered RequestsAreTranslated RequestsAreAdmitted FilesAreLoaded
CHECK_DEADLOCK FALSE
