CONSTANTS
  Numeral <- NumeralOf
  kInvalid = "kInvalid"
  Parameters = {":id", ":kind"}
  Fallback = "httpCallback_"
  AllowedOrigins <- Origins
  AllowCredentials = FALSE
  Routes <- RoutesMC
  Chains <- ChainsMC
  Messages <- AllMessages
  MaxRoutes = 2
  MaxMessages = 2
SPECIFICATION Spec
INVARIANTS TypeOK RequestsAsSent RoutedAsRegistered Onion
PROPERTIES ImplementsHttpExchange EveryRequestAnswered
CHECK_DEADLOCK FALSE
