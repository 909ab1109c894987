\* Entry, handoff, routes and delivery against the planner and the operator.
SPECIFICATION Spec
CONSTANTS
  Transition = 2
  MaxUt = 1
  AdmissionAge = 1
  RouteAge = 0
  MaxModel = 2
INVARIANTS OneOwner DeliveredToFinal
PROPERTIES HandoffQualified RouteAdoptedFresh
