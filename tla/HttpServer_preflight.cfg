CONSTANTS
  Numeral <- NumeralOf
  kInvalid = "kInvalid"
  Parameters = {":id", ":kind"}
  Fallback = "httpCallback_"
  AllowedOrigins <- Origins
  AllowCredentials = FALSE
  Routes <- RoutesMC
  Chains <- CorsFirst
  Messages <- AllMessages
  MaxRoutes = 2
  MaxMessages = 2
SPECIFICATION Spec
INVARIANT PreflightAnswered
CHECK_DEADLOCK FALSE
