SPECIFICATION FamilySpec
CONSTANTS
  h = h
  o = o
  Tab = {h, o}
  Here = h
  Choice = {"dark", "system"}
  MaxNews = 1
  Name <- Names
  SlugMax = 3
  MaxClicks = 2
INVARIANTS PageTypeOK TabsFollowStorage ControlAgrees CopyButtonReturns AutoSlugIsValid
PROPERTIES ChoiceSticks TabsConverge
